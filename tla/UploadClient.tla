---------------------------- MODULE UploadClient ----------------------------
(***************************************************************************)
(* QidiLegacyClient.connect followed by upload_file, as the Cura upload    *)
(* job and the command line run them, over UdpTransport.                   *)
(*                                                                         *)
(* pc is the phase of the exchange and attempt the number of times its     *)
(* request has been sent (0: nothing outstanding).  A timeout is possible  *)
(* whenever the client waits, since a reply may be late as well as lost.   *)
(***************************************************************************)
EXTENDS LegacyWire, FiniteSets

CONSTANTS
    Total,        \* path.stat().st_size when the upload begins
    BlockSize,    \* BLOCK_PAYLOAD_SIZE
    Retries,      \* attempts at a command
    MaxResends,   \* MAX_RESEND_REQUESTS
    MaxOffset,    \* largest offset a frame can carry, 2^32 - 1
    LocalSizes    \* sizes the local file may take while it is being read

ASSUME ClientAssumption ==
    /\ Total \in Nat \ {0}
    /\ BlockSize \in Nat \ {0}
    /\ Retries \in Nat \ {0}
    /\ MaxResends \in Nat
    /\ MaxOffset \in Nat
    /\ LocalSizes \subseteq Nat

VARIABLES
    pc,          \* "connect" .. "done"
    attempt,     \* sends of the outstanding request
    offset,      \* position of the next block
    chunk,       \* length of the payload read for the outstanding block
    resends,     \* resend requests obeyed so far
    result,      \* what the caller is told
    responses,   \* the datagrams of the file listing
    localLen,    \* current size of the local file
    sentAt,      \* history: how often the block at each offset was sent
    lastSent     \* history: the kind of the last request sent

progressVars == <<offset, resends>>
historyVars == <<sentAt, lastSent>>
clientVars == <<pc, attempt, offset, chunk, resends, result, responses,
                localLen, sentAt, lastSent>>

CommandOf == [connect |-> "hello", create |-> "create", save |-> "save",
              verify |-> "list", close |-> "save"]

ClientInit ==
    /\ pc = "connect"
    /\ attempt = 0
    /\ offset = 0
    /\ chunk = 0
    /\ resends = 0
    /\ result = "none"
    /\ responses = <<>>
    /\ localLen = Total
    /\ sentAt = [o \in 0 .. Total - 1 |-> 0]
    /\ lastSent = "nothing"

(***************************************************************************)
(* UdpTransport.request                                                    *)
(***************************************************************************)

\* Attempts allowed in a phase: commands retry, blocks and the final close
\* do not, and the listing is one request with a deadline.
BlockRetriesLikeCommands == 2   \* slip: blocks retried like commands

BlockRetries == 1

AttemptsIn(phase) ==
    IF phase = "block" THEN BlockRetries
    ELSE IF phase \in {"verify", "close"} THEN 1
    ELSE Retries

\* The first send discards what has reached the socket; nothing is discarded
\* between the attempts of one request.
Transmit(datagram) ==
    /\ attempt < AttemptsIn(pc)
    /\ IF attempt = 0
       THEN \E n \in 0 .. Len(replies) :
               replies' = SubSeq(replies, n + 1, Len(replies))
       ELSE UNCHANGED replies
    /\ requests' = Append(requests, datagram)
    /\ attempt' = attempt + 1
    /\ UNCHANGED <<pc, progressVars, result, responses, localLen, faults>>

Receive(kinds) ==
    /\ attempt > 0
    /\ replies # <<>>
    /\ Head(replies).kind \in kinds
    /\ replies' = Tail(replies)
    /\ UNCHANGED <<requests, faults, localLen, chunk, historyVars>>

(***************************************************************************)
(* How upload_file unwinds                                                 *)
(***************************************************************************)

\* The try block covers everything between the two file commands; leaving
\* it on an exception runs the best-effort close.
UnwindsToDone(phase) == "done"   \* slip: no finally clause

Unwinds(phase) == IF phase \in {"block", "save"} THEN "close" ELSE "done"

Fail(verdict) ==
    /\ pc' = Unwinds(pc)
    /\ attempt' = 0
    /\ result' = verdict
    /\ UNCHANGED <<progressVars, responses>>

Proceed(phase) ==
    /\ pc' = phase
    /\ attempt' = 0
    /\ UNCHANGED <<result, responses>>

(***************************************************************************)
(* Requests                                                                *)
(***************************************************************************)

\* handle.seek(offset); handle.read(BLOCK_PAYLOAD_SIZE): bytes available
Readable(o) ==
    IF localLen <= o THEN 0
    ELSE IF localLen - o < BlockSize THEN localLen - o ELSE BlockSize

\* frame_file_block refuses an empty payload and an offset beyond uint32.
Framable(o) == Readable(o) > 0 /\ o <= MaxOffset

Block(o, n) == [kind |-> "block", offset |-> o,
                data |-> [i \in 1 .. n |-> o + i - 1], sound |-> TRUE]

SendCommand ==
    /\ pc \in DOMAIN CommandOf
    /\ Transmit([kind |-> CommandOf[pc]])
    /\ lastSent' = CommandOf[pc]
    /\ UNCHANGED <<chunk, sentAt>>

\* The block is read and framed once, however often it is sent.
SendBlock ==
    /\ pc = "block"
    /\ Framable(offset)
    /\ chunk' = IF attempt = 0 THEN Readable(offset) ELSE chunk
    /\ Transmit(Block(offset, chunk'))
    /\ sentAt' = [sentAt EXCEPT ![offset] = @ + 1]
    /\ lastSent' = "block"

FrameError ==
    /\ pc = "block"
    /\ attempt = 0
    /\ ~Framable(offset)
    /\ Fail("failed")
    /\ UNCHANGED <<wireVars, localLen, chunk, historyVars>>

(***************************************************************************)
(* Replies, judged by their text alone                                     *)
(***************************************************************************)

\* "ok", a handshake "ok X:...", a listing count "ok L:1".
StartsOk == {"ok", "okHello", "count"}

AnyReply == {"ok", "hello", "okHello", "saved", "error", "resend", "begin",
             "entry", "end", "count"}

\* connect parses whatever is not an error.
ConnectReply ==
    /\ pc = "connect"
    /\ \/ Receive(AnyReply \ {"error"}) /\ Proceed("create")
             /\ UNCHANGED progressVars
       \/ Receive({"error"}) /\ Fail("failed")

CreateReply ==
    /\ pc = "create"
    /\ \/ Receive(StartsOk) /\ Proceed("block") /\ UNCHANGED progressVars
       \/ Receive(AnyReply \ StartsOk) /\ Fail("failed")

\* offset += len(payload): the reply is taken for the outstanding block's.
AcceptBlock ==
    /\ pc = "block"
    /\ Receive(StartsOk)
    /\ offset' = offset + chunk
    /\ Proceed(IF offset' < Total THEN "block" ELSE "save")
    /\ UNCHANGED resends

ObeysAnyNumber(requested) == requested < Total   \* slip: resends unbounded

Obeys(requested) == resends < MaxResends /\ requested < Total

ObeyResend ==
    /\ pc = "block"
    /\ Receive({"resend"})
    /\ Obeys(Head(replies).n)
    /\ offset' = Head(replies).n
    /\ resends' = resends + 1
    /\ Proceed("block")

RefuseResend ==
    /\ pc = "block"
    /\ Receive({"resend"})
    /\ ~Obeys(Head(replies).n)
    /\ Fail("failed")

BlockRejected ==
    /\ pc = "block"
    /\ Receive(AnyReply \ (StartsOk \cup {"resend"}))
    /\ Fail("failed")

\* _require_file_saved: "ok" or "Done saving file!" with the right name.
SaveReply ==
    /\ pc = "save"
    /\ \/ Receive(StartsOk \cup {"saved"}) /\ Proceed("verify")
             /\ UNCHANGED progressVars
       \/ Receive(AnyReply \ (StartsOk \cup {"saved"})) /\ Fail("failed")

\* Whatever the best-effort close brings is swallowed.
CloseReply ==
    /\ pc = "close"
    /\ Receive(AnyReply)
    /\ Proceed("done")
    /\ UNCHANGED progressVars

(***************************************************************************)
(* The listing: request_sequence, list_files, verify_remote_file_size      *)
(***************************************************************************)

Kinds(list) == {list[i].kind : i \in DOMAIN list}

\* Datagrams before the start marker are ignored.
IgnoreStray ==
    /\ pc = "verify"
    /\ responses = <<>>
    /\ Receive(AnyReply \ {"begin"})
    /\ UNCHANGED <<pc, attempt, result, responses, progressVars>>

\* A count completes the sequence once the end marker was seen.
Completes(list, reply) == reply.kind = "count" /\ "end" \in Kinds(list)

CollectListing ==
    /\ pc = "verify"
    /\ Receive(AnyReply)
    /\ responses # <<>> \/ Head(replies).kind = "begin"
    /\ ~Completes(responses, Head(replies))
    /\ responses' = Append(responses, Head(replies))
    /\ UNCHANGED <<pc, attempt, result, progressVars>>

\* The indices of the lines list_files parses as files: those between a
\* begin marker and the next end marker.
FileLines(list) ==
    {i \in DOMAIN list :
        /\ list[i].kind \notin {"begin", "end", "count"}
        /\ \E j \in 1 .. i - 1 :
              /\ list[j].kind = "begin"
              /\ \A k \in j .. i - 1 : list[k].kind # "end"}

\* "resend 3" reads as a file called resend; other strays are malformed.
WellFormed(list) ==
    \A i \in FileLines(list) : list[i].kind \in {"entry", "resend"}

\* slip: the name is looked up and the size forgotten
VerifiedByName(list, count) ==
    /\ WellFormed(list)
    /\ \E i \in FileLines(list) : list[i].kind = "entry"

Verified(list, count) ==
    /\ WellFormed(list)
    /\ count = Cardinality(FileLines(list))
    /\ \E i \in FileLines(list) :
          /\ list[i].kind = "entry"
          /\ list[i].n = Total
          /\ \A j \in FileLines(list) : list[j].kind = "entry" => j = i

ListReply ==
    /\ pc = "verify"
    /\ Receive({"count"})
    /\ Completes(responses, Head(replies))
    /\ responses' = Append(responses, Head(replies))
    /\ pc' = "done"
    /\ attempt' = 0
    /\ result' = IF Verified(responses, Head(replies).n) THEN "uploaded"
                 ELSE "failed"
    /\ UNCHANGED progressVars

(***************************************************************************)
(* Timeouts and interruption                                               *)
(***************************************************************************)

WaitEndsExceptListing ==   \* slip: the listing has no deadline
    attempt > 0 /\ attempt = AttemptsIn(pc) /\ pc # "verify"

WaitEnds == attempt > 0 /\ attempt = AttemptsIn(pc)

GiveUp ==
    /\ WaitEnds
    /\ IF pc = "close"
       THEN Proceed("done") /\ UNCHANGED progressVars
       ELSE Fail(IF pc = "block" THEN "unanswered" ELSE "failed")
    /\ UNCHANGED <<wireVars, localLen, chunk, historyVars>>

\* Ctrl-C in the command-line client.
Interrupt ==
    /\ pc # "done"
    /\ Fail("interrupted")
    /\ UNCHANGED <<wireVars, localLen, chunk, historyVars>>

\* Another program rewrites the file between two reads.
EditLocal ==
    /\ pc \in {"create", "block"}
    /\ localLen' \in LocalSizes
    /\ UNCHANGED <<wireVars, pc, attempt, chunk, progressVars, result,
                   responses, historyVars>>

ClientStep ==
    \/ SendCommand
    \/ SendBlock
    \/ FrameError
    \/ ConnectReply
    \/ CreateReply
    \/ AcceptBlock
    \/ ObeyResend
    \/ RefuseResend
    \/ BlockRejected
    \/ SaveReply
    \/ CloseReply
    \/ IgnoreStray
    \/ CollectListing
    \/ ListReply
    \/ GiveUp
=============================================================================
