---------------------------- MODULE UploadSystem ----------------------------
(***************************************************************************)
(* One upload from end to end: the client, the printer and the wire.       *)
(***************************************************************************)
EXTENDS UploadClient, MockPrinter

vars == <<wireVars, printerVars, clientVars>>

Init == WireInit /\ PrinterInit /\ ClientInit

Client == ClientStep /\ UNCHANGED printerVars

User == (Interrupt \/ EditLocal) /\ UNCHANGED printerVars

Spliced(block, at) ==
    [block EXCEPT !.offset = at,
                  !.data = [k \in DOMAIN block.data |-> SplicedByte]]

\* Damage the XOR checksum does not detect: the block arrives with as many
\* bytes as it was sent with, but others, and perhaps another address.
SpliceBlock ==
    /\ Commit("splice")
    /\ \E i \in DOMAIN requests, at \in 0 .. Total - 1 :
          /\ requests[i].kind = "block"
          /\ requests' = [requests EXCEPT ![i] = Spliced(requests[i], at)]
    /\ UNCHANGED replies

Network == (Fault \/ SpliceBlock) /\ UNCHANGED <<printerVars, clientVars>>

Remote == Printer /\ UNCHANGED clientVars

\* The upload is over and the wire is quiet.
Terminated ==
    /\ pc = "done"
    /\ requests = <<>>
    /\ UNCHANGED vars

Next ==
    \/ Client
    \/ User
    \/ Network
    \/ Remote
    \/ Terminated

Spec == Init /\ [][Next]_vars

\* The upload thread runs, and a socket wait ends by its timeout at the
\* latest.  Nothing is asked of the printer, the network or the user.
FairSpec == Spec /\ WF_vars(Client)

-----------------------------------------------------------------------------
Phases == {"connect", "create", "block", "save", "verify", "close", "done"}
Verdicts == {"none", "uploaded", "unanswered", "failed", "interrupted"}
CommandKinds == {"hello", "create", "save", "list"}

Replies == [kind : AnyReply, n : Nat]
Requests == [kind : CommandKinds]
            \cup [kind : {"block"}, offset : 0 .. Total - 1, data : Seq(Int),
                  sound : BOOLEAN]

\* Every variable keeps to the values the code can give it.
TypeOK ==
    /\ requests \in Seq(Requests)
    /\ replies \in Seq(Replies)
    /\ faults \in 0 .. MaxFaults
    /\ uploaded \in Seq(Int)
    /\ created \in BOOLEAN
    /\ remoteOpen \in BOOLEAN
    /\ pc \in Phases
    /\ attempt \in 0 .. Retries
    /\ offset \in Nat
    /\ pc \in {"connect", "create", "block"} => offset < Total
    /\ chunk \in 0 .. BlockSize
    /\ resends \in 0 .. MaxResends
    /\ result \in Verdicts
    /\ responses \in Seq(Replies)
    /\ localLen \in Nat
    /\ sentAt \in [0 .. Total - 1 -> Nat]
    /\ lastSent \in CommandKinds \cup {"block", "nothing"}

\* Every byte of the destination file is the local file's byte of that
\* position, or was there before the upload, or was spliced on its way: no
\* resend, retry, duplicate or unframable offset shifts data or leaves a hole
\* (the seek before each read in upload_file, the check of frame_file_block,
\* the gap check in _handle_block).
StoredInPlace ==
    \A i \in DOMAIN uploaded : uploaded[i] \in {i - 1, OldByte, SplicedByte}

\* A success reported by upload_file speaks of a remote file of exactly the
\* size the local file had at the start, even when the local file changed
\* meanwhile or acknowledgements were taken for one another.
SuccessMeansSize == result = "uploaded" => Len(uploaded) = Total

\* With no earlier file of that name, success means a file of the announced
\* size in which every byte is the local file's, except bytes that were
\* spliced on the way, which README says the checks cannot detect.
SuccessMeansComplete ==
    result = "uploaded" =>
        /\ Len(uploaded) = Total
        /\ \A i \in 1 .. Total : uploaded[i] \in {i - 1, SplicedByte}

\* "File blocks are transmitted once": a block goes out again only because
\* the printer asked for a resend since, never because of a timeout.
SentOncePerResend == \A o \in 0 .. Total - 1 : sentAt[o] <= resends + 1

\* An upload that fails while blocks are being sent never ends without
\* having sent M29 after the last block (the finally clause).
FailureCloses ==
    pc = "done" /\ result \in {"failed", "unanswered"} => lastSent # "block"

\* client.py: "an unanswered file block must fail closed", so that no block
\* advances on another request's reply: all bytes before offset are in the
\* printer.  This is so when commands are sent once and replies not doubled;
\* otherwise a second answer to M28 can pass for a lost block's.
AcknowledgedIsStored == pc = "block" => offset <= Len(uploaded)

\* upload_file returns or raises whatever is lost, late or doubled.
Terminates == <>(pc = "done")

\* The whole exchange is an instance of the abstract transfer.
Transfer == INSTANCE FileTransfer WITH
                Size <- Total, MaxWrite <- BlockSize,
                stored <- uploaded, verdict <- result

ImplementsTransfer == Transfer!Spec

-----------------------------------------------------------------------------
(***************************************************************************)
(* Why the safety properties hold: the parts of the inductive invariant.   *)
(***************************************************************************)

\* A block that lies ahead, and has not gone out since the client last came
\* to it, has been sent at most once per resend request.
SendsInv ==
    /\ pc \in {"connect", "create"} => \A o \in 0 .. Total - 1 : sentAt[o] = 0
    /\ pc = "block" /\ attempt > 0 => chunk > 0
    /\ pc = "block" =>
          \A o \in offset .. Total - 1 :
              sentAt[o] <= resends \/ (o = offset /\ attempt > 0)
    /\ SentOncePerResend

\* Every block on the wire carries the bytes of its own position, or spliced
\* ones.
Splices == IF "splice" \in Faults THEN {SplicedByte} ELSE {}

OwnBytes(block) ==
    /\ Len(block.data) \in 1 .. BlockSize
    /\ \/ \A k \in DOMAIN block.data : block.data[k] = block.offset + k - 1
       \/ \A k \in DOMAIN block.data : block.data[k] \in Splices

\* What the file may hold beside its own bytes.
Foreign == (IF OldSizes = {0} THEN {} ELSE {OldByte}) \cup Splices

InPlaceInv ==
    /\ \A i \in DOMAIN requests :
          requests[i].kind = "block" => OwnBytes(requests[i])
    /\ \A i \in DOMAIN uploaded : uploaded[i] \in {i - 1} \cup Foreign

\* The listing is asked for last, so that the size it reports is final.
Listed == pc = "done" \/ (pc = "verify" /\ attempt > 0)

ListingInv ==
    /\ \A i \in DOMAIN requests :
          requests[i].kind = "list" => Listed /\ i = Len(requests)
    /\ \A i \in DOMAIN replies :
          replies[i].kind = "entry" =>
              Listed /\ requests = <<>> /\ replies[i].n = Len(uploaded)
    /\ \A i \in DOMAIN responses :
          responses[i].kind = "entry" =>
              Listed /\ requests = <<>> /\ responses[i].n = Len(uploaded)

VerdictInv ==
    /\ pc \notin {"close", "done"} => result = "none"
    /\ pc = "done" => attempt = 0
    /\ result = "uploaded" =>
          pc = "done" /\ requests = <<>> /\ Len(uploaded) = Total

\* Whoever may leave a phase for the end without an error has sent that
\* phase's own command, and M29 stands between the blocks and the listing.
ClosingInv ==
    /\ pc \in {"connect", "create", "verify"} => lastSent # "block"
    /\ pc \in {"save", "close"} /\ attempt > 0 => lastSent # "block"
    /\ pc = "done" => attempt = 0
    /\ FailureCloses

-----------------------------------------------------------------------------
(***************************************************************************)
(* Statements of the repository that the code does not always live up to.  *)
(***************************************************************************)

\* README: "M29 must confirm that the destination file was saved".  It does when
\* commands are sent once and replies not doubled; otherwise an old ok can stand
\* in for the answer to an M29 that was lost.
SuccessMeansSaved == result = "uploaded" => ~remoteOpen

\* tests/test_mock_integration.py: after a verified upload the printer holds
\* the bytes of the source file.  The incident of 2026-07-28 refutes it.
SuccessMeansSource ==
    result = "uploaded" => uploaded = [i \in 1 .. Total |-> i - 1]
=============================================================================
