----------------------------- MODULE PrinterCalls -----------------------------
(***************************************************************************)
(* The calls of one or two requests: the status poll of the Monitor tab,   *)
(* and programs that open a QidiLegacyClient, connect and call its methods *)
(* one after the other, as the command line and the tests do.              *)
(*                                                                         *)
(* A poll opens a client for itself, and a program one for all its calls.  *)
(* So what one call leaves behind, requests still on their way and answers *)
(* not yet read, meets the next call of the same client; what an earlier   *)
(* client left behind reaches nobody.                                      *)
(***************************************************************************)
EXTENDS LegacyWire

CONSTANTS
    Files,        \* names of files that may be printed
    Encoding,     \* what a handshake has between quotes, U:'utf-8'
    Nothing,      \* no print, or no file name
    Retries,      \* attempts at a command
    MaxCalls,     \* bound on the calls made
    MaxPrints,    \* bound on the prints started and ended meanwhile
    HelloReplies, \* the texts a handshake may have
    StatusForms,  \* the ways the printer answers M4000
    NameReplies,  \* the ways it answers M4006
    Refusals      \* the ways it answers a control command it does not obey

ASSUME CallsAssumption ==
    /\ Encoding \notin Files
    /\ Nothing \notin Files \cup {Encoding}
    /\ Retries \in Nat \ {0}
    /\ MaxCalls \in Nat
    /\ MaxPrints \in Nat
    /\ HelloReplies \subseteq {"hello", "okHello"}
    /\ StatusForms \subseteq {"full", "okFull", "short"}
    /\ NameReplies \subseteq {"name", "ok", "error"}
    /\ Refusals \subseteq {"error", "other"}

VARIABLES
    greeting,   \* the handshake of this printer
    job,        \* the file being printed, or Nothing
    last,       \* the file printed last, if any
    prints,     \* prints started or ended by other means than these calls
    socket,     \* number of the client's socket
    callsMade,  \* calls begun
    call,       \* the call under way, or the last one
    pc,         \* request it is at, or "ended"
    attempt,    \* sends of that request
    reading,    \* what this client read: the printer's state and a file name
    verdict,    \* what the caller is told
    seen,       \* history: jobs the printer had since the client was opened
    obeyed,     \* history: control commands it obeyed since the call began
    repeated,   \* history: during this call a request was sent again, or an
                \* answer doubled
    spare       \* history: that happened to an earlier call of this client

printVars == <<greeting, job, last, prints>>
callVars == <<socket, callsMade, call, pc, attempt, reading, verdict>>
historyVars == <<seen, obeyed, repeated, spare>>
vars == <<wireVars, printVars, callVars, historyVars>>

Controls == {"pause", "resume", "cancel", "start"}
Methods == {"firmware", "status"} \cup Controls
Calls == {"poll", "connect"} \cup Methods

Unread == [state |-> "Unknown", file |-> Nothing]

Init ==
    /\ WireInit
    /\ greeting \in HelloReplies
    /\ job \in Files \cup {Nothing}
    /\ last = job
    /\ prints = 0
    /\ socket = 0
    /\ callsMade = 0
    /\ call = "poll"
    /\ pc = "ended"
    /\ attempt = 0
    /\ reading = Unread
    /\ verdict = "none"
    /\ seen = {job}
    /\ obeyed = {}
    /\ repeated = FALSE
    /\ spare = FALSE

(***************************************************************************)
(* The printer, which prints and answers                                   *)
(***************************************************************************)

Works(newJob) ==
    /\ job' = newJob
    /\ last' = IF newJob = Nothing THEN last ELSE newJob
    /\ seen' = seen \cup {newJob}

\* Somebody starts a print at the printer's panel, or a print ends.
PanelOrEnd ==
    /\ prints < MaxPrints
    /\ prints' = prints + 1
    /\ IF job = Nothing THEN \E file \in Files : Works(file)
       ELSE Works(Nothing)
    /\ UNCHANGED <<wireVars, callVars, greeting, obeyed, repeated, spare>>

Text(kind, form, file) == [kind |-> kind, form |-> form, file |-> file]

Plain(kind) == Text(kind, "plain", Nothing)

\* The next request, answered to the socket it came from.
Serve(kind, reply) ==
    /\ requests # <<>>
    /\ Head(requests).kind = kind
    /\ requests' = Tail(requests)
    /\ replies' = IF Head(requests).socket = socket THEN Append(replies, reply)
                  ELSE replies
    /\ UNCHANGED <<faults, callVars, greeting, prints, repeated, spare>>

AnswerHello ==
    /\ Serve("hello", Plain(greeting))
    /\ UNCHANGED <<job, last, seen, obeyed>>

\* D:<printed>/<total>/<1 when idle>; some answers lack the third part, and
\* those of the i-Fast V3.40 begin with ok.
AnswerStatus ==
    /\ \E form \in StatusForms : Serve("status", Text("status", form, job))
    /\ UNCHANGED <<job, last, seen, obeyed>>

\* The name of the print under way, or of the last one.
AnswerName ==
    /\ \E kind \in NameReplies : Serve("name", Text(kind, "plain", last))
    /\ UNCHANGED <<job, last, seen, obeyed>>

AnswerFirmware ==
    /\ Serve("firmware", Plain("version"))
    /\ UNCHANGED <<job, last, seen, obeyed>>

\* M24, M25, M33 and M6030.
Obey(control) ==
    /\ Serve(control, Plain("ok"))
    /\ obeyed' = obeyed \cup {control}
    /\ CASE control = "cancel" -> Works(Nothing)
         [] control = "start" -> \E file \in Files : Works(file)
         [] OTHER -> UNCHANGED <<job, last, seen>>

\* "Error:...", or a text that is neither error nor ok; nothing is done.
Refuse(control) ==
    /\ \E kind \in Refusals : Serve(control, Plain(kind))
    /\ UNCHANGED <<job, last, seen, obeyed>>

Printer ==
    \/ PanelOrEnd
    \/ AnswerHello
    \/ AnswerStatus
    \/ AnswerName
    \/ AnswerFirmware
    \/ \E control \in Controls : Obey(control) \/ Refuse(control)

(***************************************************************************)
(* Requests                                                                *)
(***************************************************************************)

SameSocket == UNCHANGED <<replies, socket>>   \* slip: one client for all polls

\* A new QidiLegacyClient: another local port.
FreshSocket ==
    /\ replies' = <<>>
    /\ socket' = socket + 1

\* A poll, or a program that opens a client, says hello first.
Begin(what) ==
    /\ pc = "ended"
    /\ callsMade < MaxCalls
    /\ callsMade' = callsMade + 1
    /\ FreshSocket
    /\ call' = what
    /\ pc' = "hello"
    /\ attempt' = 0
    /\ reading' = Unread
    /\ verdict' = "none"
    /\ seen' = {job}
    /\ obeyed' = {}
    /\ repeated' = FALSE
    /\ spare' = FALSE
    /\ UNCHANGED <<requests, faults, printVars>>

\* The program calls a method of the client it has open.  An error would have
\* taken it out of the with statement that opened the client.
Ask(what) ==
    /\ pc = "ended"
    /\ call # "poll"
    /\ verdict # "failed"
    /\ callsMade < MaxCalls
    /\ callsMade' = callsMade + 1
    /\ call' = what
    /\ pc' = what
    /\ attempt' = 0
    /\ verdict' = "none"
    /\ obeyed' = {}
    /\ repeated' = FALSE
    /\ spare' = (spare \/ repeated)
    /\ UNCHANGED <<wireVars, printVars, socket, reading, seen>>

OneAttemptMore(request) == Retries + 1   \* slip: range(1, retries + 2)

AttemptsIn(request) == IF request = "firmware" THEN 2 ELSE Retries

\* UdpTransport.request: the first send discards what has reached the socket.
Send ==
    /\ pc # "ended"
    /\ attempt < AttemptsIn(pc)
    /\ IF attempt = 0
       THEN \E n \in 0 .. Len(replies) :
                replies' = SubSeq(replies, n + 1, Len(replies))
       ELSE UNCHANGED replies
    /\ requests' = Append(requests, [kind |-> pc, socket |-> socket])
    /\ attempt' = attempt + 1
    /\ repeated' = (repeated \/ attempt > 0)
    /\ UNCHANGED <<faults, printVars, seen, obeyed, spare, socket, callsMade,
                   call, pc, reading, verdict>>

Receive ==
    /\ attempt > 0
    /\ replies # <<>>
    /\ replies' = Tail(replies)
    /\ attempt' = 0
    /\ UNCHANGED <<requests, faults, printVars, historyVars, socket, callsMade,
                   call>>

End(what) == pc' = "ended" /\ verdict' = what

(***************************************************************************)
(* Replies, judged by their text alone                                     *)
(***************************************************************************)

IsError(reply) == reply.kind = "error"

StartsOk(reply) == reply.kind \in {"ok", "okHello", "name", "version"} \/ reply.form = "okFull"

\* parse_status: D's third part; None without it, or in another text.
IsIdle(reply) ==
    IF reply.kind = "status" /\ reply.form \in {"full", "okFull"}
    THEN IF reply.file = Nothing THEN "true" ELSE "false"
    ELSE "none"

\* MonitorSnapshot.from_status
PrinterState(idle) ==
    CASE idle = "true" -> "Idle"
      [] idle = "false" -> "Printing"
      [] OTHER -> "Unknown"

\* current_filename: whatever stands between quotes.
Quoted(reply) ==
    CASE reply.kind = "name" -> reply.file
      [] reply.kind \in HelloReplies -> Encoding
      [] OTHER -> Nothing

\* connect() returns; a poll goes on with the status request.
HelloReply ==
    /\ pc = "hello"
    /\ Receive
    /\ IF IsError(Head(replies)) THEN End("failed")
       ELSE IF call = "poll" THEN pc' = "status" /\ UNCHANGED verdict
       ELSE End("read")
    /\ UNCHANGED reading

AsksNameAlways(idle) == call = "poll"   \* slip: an idle printer asked too

\* The poll asks for the file's name only when a print is under way.
AsksName(idle) == call = "poll" /\ idle = "false"

StatusReply ==
    LET idle == IsIdle(Head(replies))
    IN  /\ pc = "status"
        /\ Receive
        /\ IF IsError(Head(replies))
           THEN End("failed") /\ UNCHANGED reading
           ELSE /\ reading' = [reading EXCEPT !.state = PrinterState(idle)]
                /\ IF AsksName(idle) THEN pc' = "name" /\ UNCHANGED verdict
                   ELSE End("read")

NameReply ==
    /\ pc = "name"
    /\ Receive
    /\ reading' = IF IsError(Head(replies)) THEN reading
                  ELSE [reading EXCEPT !.file = Quoted(Head(replies))]
    /\ End("read")

\* Any text that is not an error is a firmware version.
FirmwareReply ==
    /\ pc = "firmware"
    /\ Receive
    /\ End(IF IsError(Head(replies)) THEN "failed" ELSE "read")
    /\ UNCHANGED reading

ConfirmsUnlessError(reply) == ~IsError(reply)   \* slip: _require_ok left out

Confirms(reply) == StartsOk(reply)

ControlReply ==
    /\ pc \in Controls
    /\ Receive
    /\ End(IF Confirms(Head(replies)) THEN "confirmed" ELSE "failed")
    /\ UNCHANGED reading

NeverGivesUp == FALSE   \* slip: the last attempt waits for ever

WaitEnds == pc # "ended" /\ attempt = AttemptsIn(pc)

LosesStatus(request) == "failed"   \* slip: a missing name fails the poll

\* "A failed optional filename query must not discard an otherwise valid
\* status snapshot."
Unanswered(request) == IF request = "name" THEN "read" ELSE "failed"

GiveUp ==
    /\ WaitEnds
    /\ End(Unanswered(pc))
    /\ attempt' = 0
    /\ UNCHANGED <<wireVars, printVars, historyVars, socket, callsMade, call,
                   reading>>

Client ==
    \/ Send
    \/ HelloReply
    \/ StatusReply
    \/ NameReply
    \/ FirmwareReply
    \/ ControlReply
    \/ GiveUp

Network ==
    /\ Fault
    /\ repeated' = (repeated \/ Len(replies') > Len(replies))
    /\ UNCHANGED <<printVars, callVars, seen, obeyed, spare>>

\* No further call is made and the wire is quiet.
Terminated ==
    /\ pc = "ended"
    /\ callsMade = MaxCalls
    /\ requests = <<>>
    /\ UNCHANGED vars

Next ==
    \/ \E what \in {"poll", "connect"} : Begin(what)
    \/ \E what \in Methods : Ask(what)
    \/ Client
    \/ Printer
    \/ Network
    \/ Terminated

\* A socket wait ends by its timeout at the latest; the printer owes nothing.
Spec == Init /\ [][Next]_vars /\ WF_vars(Client)

(***************************************************************************)
(* Properties                                                              *)
(***************************************************************************)

Requests == {"hello", "status", "name", "firmware"} \cup Controls

Datagrams == [kind : Requests, socket : 0 .. socket]

Texts == [kind : HelloReplies \cup {"status", "name", "version", "ok", "error",
                                   "other"},
          form : StatusForms \cup {"plain"},
          file : Files \cup {Nothing}]

\* The variables have their types.
TypeOK ==
    /\ requests \in Seq(Datagrams)
    /\ replies \in Seq(Texts)
    /\ faults \in 0 .. MaxFaults
    /\ greeting \in HelloReplies
    /\ job \in Files \cup {Nothing}
    /\ last \in Files \cup {Nothing}
    /\ prints \in 0 .. MaxPrints
    /\ socket \in 0 .. callsMade
    /\ callsMade \in 0 .. MaxCalls
    /\ call \in Calls
    /\ pc \in Requests \cup {"ended"}
    /\ attempt \in 0 .. (IF pc = "firmware" THEN 2 ELSE Retries)
    /\ reading \in [state : {"Idle", "Printing", "Unknown"},
                    file : Files \cup {Encoding, Nothing}]
    /\ verdict \in {"none", "read", "confirmed", "failed"}
    /\ seen \subseteq Files \cup {Nothing}
    /\ obeyed \subseteq Controls
    /\ repeated \in BOOLEAN
    /\ spare \in BOOLEAN

\* What a poll or a status call reports the printer was doing since its client
\* was opened, although answers come late, twice or not at all and earlier
\* polls left requests on the wire: monitor_job.py opens one for every poll.
StateIsRecent ==
    /\ reading.state = "Idle" => Nothing \in seen
    /\ reading.state = "Printing" => seen \cap Files # {}

\* A file name in the Monitor tab is that of a print seen since the poll
\* began.  Status and name are two requests, so it need not be the print whose
\* progress is shown; and a handshake that comes again passes for a name,
\* because of the quotes of U:'utf-8', but only if it overtook the status.
NameIsRecent ==
    /\ reading.file \in Files => reading.file \in seen
    /\ reading.file = Encoding => faults > 0

\* A pause, resume, cancel or start confirmed to the caller has been obeyed
\* since the call began, although an ok names nothing (_require_ok), however
\* late the answers of this call come - unless an earlier call of the same
\* client may have left an answer behind: it sent a request more than once, or
\* had an answer doubled.
ConfirmedIsObeyed == verdict = "confirmed" => call \in obeyed \/ spare

\* monitor_job.py:36: "A failed optional filename query must not discard an
\* otherwise valid status snapshot": whatever happens to M4006, the poll
\* reports the print that M4000 spoke of.
StatusSurvivesName ==
    [][pc = "name" /\ pc' # "name" =>
           verdict' = "read" /\ reading'.state = "Printing"]_vars

\* Every call returns, whatever the network and the printer do; the protocol
\* lock held by a poll is therefore free again.
CallEnds == pc # "ended" ~> pc = "ended"

(***************************************************************************)
(* A statement of the repository that the code does not always live up to. *)
(***************************************************************************)

\* tests/test_mock_integration.py starts a print on the client that connected
\* and asked before, and takes the ok for the printer's obedience.  A late ok
\* of an earlier call confirms the command as well.
ConfirmationIsOwn == verdict = "confirmed" => call \in obeyed
=============================================================================
