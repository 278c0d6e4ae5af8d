-------------------------- MODULE PrinterCallsProof --------------------------
(***************************************************************************)
(* The properties of PrinterCalls hold for all files, retries, faults and  *)
(* printers the constants allow.  What a request or a reply on the wire    *)
(* may be is stated as the set its queue is a sequence over, so that one   *)
(* lemma on queues serves types and meanings alike.                        *)
(***************************************************************************)
EXTENDS PrinterCalls, SequenceTheorems, TLAPS

(***************************************************************************)
(* The wire                                                                *)
(***************************************************************************)

LEMMA SwappedOver ==
    ASSUME NEW S, NEW q \in Seq(S), NEW i \in 1 .. Len(q) - 1
    PROVE  Swapped(q, i) \in Seq(S)
  <1>1. i \in 1 .. Len(q) /\ i + 1 \in 1 .. Len(q)
    BY LenProperties
  <1>2. q[i] \in S /\ q[i + 1] \in S
    BY <1>1, ElementOfSeq
  <1>3. /\ [q EXCEPT ![i] = q[i + 1]] \in Seq(S)
        /\ Len([q EXCEPT ![i] = q[i + 1]]) = Len(q)
    BY <1>1, <1>2, ExceptSeq
  <1>4. [[q EXCEPT ![i] = q[i + 1]] EXCEPT ![i + 1] = q[i]] \in Seq(S)
    BY <1>1, <1>2, <1>3, ExceptSeq
  <1>5. QED
    BY <1>4 DEF Swapped

\* The network adds nothing of its own: whatever the queues are sequences over,
\* they still are.  (No call here sends a block.)
LEMMA FaultOver ==
    ASSUME NEW S, NEW T, requests \in Seq(S), replies \in Seq(T),
           \A r \in S : r.kind # "block",
           Fault
    PROVE  requests' \in Seq(S) /\ replies' \in Seq(T)
  <1>1. CASE LoseRequest
    BY <1>1, HeadTailProperties DEF LoseRequest
  <1>2. CASE LoseReply
    BY <1>2, HeadTailProperties DEF LoseReply
  <1>3. CASE DuplicateReply
    BY <1>3, HeadTailProperties, AppendProperties DEF DuplicateReply
  <1>4. CASE ReorderRequests
    BY <1>4, SwappedOver DEF ReorderRequests
  <1>5. CASE ReorderReplies
    BY <1>5, SwappedOver DEF ReorderReplies
  <1>6. CASE CorruptBlock
    <2>1. PICK i \in DOMAIN requests : requests[i].kind = "block"
      BY <1>6 DEF CorruptBlock
    <2>2. requests[i] \in S
      BY <2>1, ElementOfSeq, LenProperties
    <2>3. QED
      BY <2>1, <2>2
  <1>7. QED
    BY <1>1, <1>2, <1>3, <1>4, <1>5, <1>6 DEF Fault

\* The printer answers the request at the head of the queue, if to anybody,
\* then to the present socket.
LEMMA ServeOver ==
    ASSUME NEW S, NEW T, requests \in Seq(S), replies \in Seq(T),
           NEW kind, NEW reply, Serve(kind, reply),
           \A r \in S : r.kind = kind /\ r.socket = socket => reply \in T
    PROVE  requests' \in Seq(S) /\ replies' \in Seq(T)
  <1>1. Head(requests) \in S /\ Tail(requests) \in Seq(S)
    BY HeadTailProperties DEF Serve
  <1>2. CASE Head(requests).socket = socket
    <2>1. reply \in T
      BY <1>1, <1>2 DEF Serve
    <2>2. QED
      BY <1>1, <1>2, <2>1, AppendProperties DEF Serve
  <1>3. CASE Head(requests).socket # socket
    BY <1>1, <1>3 DEF Serve
  <1>4. QED
    BY <1>2, <1>3

LEMMA SendOver ==
    ASSUME NEW S, NEW T, requests \in Seq(S), replies \in Seq(T),
           [kind |-> pc, socket |-> socket] \in S,
           Send
    PROVE  requests' \in Seq(S) /\ replies' \in Seq(T)
  <1>1. requests' \in Seq(S)
    BY AppendProperties DEF Send
  <1>2. replies' \in Seq(T)
    <2>1. CASE attempt = 0
      <3>1. PICK n \in 0 .. Len(replies) :
                replies' = SubSeq(replies, n + 1, Len(replies))
        BY <2>1 DEF Send
      <3>2. Len(replies) \in Nat
        BY LenProperties
      <3>3. n + 1 \in 1 .. Len(replies) + 1
        BY <3>2
      <3>4. QED
        BY <3>1, <3>2, <3>3, SubSeqProperties
    <2>2. CASE attempt # 0
      BY <2>2 DEF Send
    <2>3. QED
      BY <2>1, <2>2
  <1>3. QED
    BY <1>1, <1>2

LEMMA ReceiveOver ==
    ASSUME NEW T, replies \in Seq(T), Receive
    PROVE  Head(replies) \in T /\ replies' \in Seq(T)
  BY HeadTailProperties DEF Receive

(***************************************************************************)
(* Types                                                                   *)
(***************************************************************************)

LEMMA TypeInit == Init => TypeOK
  <1> SUFFICES ASSUME Init PROVE TypeOK
    OBVIOUS
  <1>1. requests \in Seq(Datagrams) /\ replies \in Seq(Texts)
    BY EmptySeq DEF Init, WireInit
  <1>2. faults \in 0 .. MaxFaults /\ prints \in 0 .. MaxPrints
        /\ socket \in 0 .. callsMade /\ callsMade \in 0 .. MaxCalls
        /\ attempt \in 0 .. Retries
    BY WireAssumption, CallsAssumption DEF Init, WireInit
  <1>3. QED
    BY <1>1, <1>2 DEF Init, TypeOK, Calls, Unread

\* A fresh socket: what is on its way keeps the number of the old one.
LEMMA TypeBegin ==
    ASSUME TypeOK, NEW what \in Calls, Begin(what)
    PROVE  TypeOK'
  <1>1. /\ socket' = socket + 1 /\ callsMade' = callsMade + 1
        /\ socket \in Nat /\ callsMade \in Nat /\ MaxCalls \in Nat
        /\ Retries \in Nat
    BY CallsAssumption DEF Begin, FreshSocket, TypeOK
  <1>2. requests' \in Seq(Datagrams')
    <2>1. Datagrams \subseteq Datagrams'
      BY <1>1 DEF Datagrams
    <2>2. requests' \in Seq(Datagrams)
      BY DEF Begin, TypeOK
    <2>3. QED
      BY <2>1, <2>2, SeqMonotonic
  <1>3. replies' \in Seq(Texts')
    BY EmptySeq DEF Begin, FreshSocket, Texts
  <1>4. socket' \in 0 .. callsMade' /\ callsMade' \in 0 .. MaxCalls
    BY <1>1 DEF Begin, TypeOK
  <1>5. /\ pc' \in Requests \cup {"ended"}
        /\ attempt' \in 0 .. (IF pc' = "firmware" THEN 2 ELSE Retries)
    BY <1>1 DEF Begin, Requests
  <1>6. reading' \in [state : {"Idle", "Printing", "Unknown"},
                      file : Files \cup {Encoding, Nothing}]
    BY DEF Begin, Unread
  <1>7. QED
    BY <1>2, <1>3, <1>4, <1>5, <1>6 DEF Begin, TypeOK, printVars

\* The next call of the same client.
LEMMA TypeAsk ==
    ASSUME TypeOK, NEW what \in Methods, Ask(what)
    PROVE  TypeOK'
  <1>1. what \in Calls /\ what \in Requests
    BY DEF Calls, Methods, Requests
  <1>2. callsMade' \in 0 .. MaxCalls /\ socket' \in 0 .. callsMade'
    BY CallsAssumption DEF Ask, TypeOK
  <1>3. attempt' \in 0 .. (IF pc' = "firmware" THEN 2 ELSE Retries)
    BY CallsAssumption DEF Ask
  <1>4. QED
    BY <1>1, <1>2, <1>3 DEF Ask, TypeOK, wireVars, printVars, Datagrams, Texts

LEMMA TypeSend ==
    ASSUME TypeOK, Send
    PROVE  TypeOK'
  <1>1. [kind |-> pc, socket |-> socket] \in Datagrams
    BY DEF Send, TypeOK, Datagrams
  <1>2. requests' \in Seq(Datagrams) /\ replies' \in Seq(Texts)
    BY <1>1, SendOver DEF TypeOK
  <1>3. Datagrams' = Datagrams /\ Texts' = Texts
    BY DEF Send, Datagrams, Texts
  <1>4. attempt' \in 0 .. (IF pc' = "firmware" THEN 2 ELSE Retries)
    BY CallsAssumption DEF Send, AttemptsIn, TypeOK
  <1>5. repeated' \in BOOLEAN
    BY DEF Send, TypeOK
  <1>6. QED
    BY <1>2, <1>3, <1>4, <1>5 DEF Send, TypeOK, printVars

\* What an answer adds to the wire.
LEMMA TypeServe ==
    ASSUME TypeOK, NEW kind, NEW reply \in Texts, Serve(kind, reply)
    PROVE  requests' \in Seq(Datagrams') /\ replies' \in Seq(Texts')
  <1>1. requests' \in Seq(Datagrams) /\ replies' \in Seq(Texts)
    BY ServeOver DEF TypeOK
  <1>2. Datagrams' = Datagrams /\ Texts' = Texts
    BY DEF Serve, callVars, Datagrams, Texts
  <1>3. QED
    BY <1>1, <1>2

LEMMA TypePrinter == TypeOK /\ Printer => TypeOK'
  <1> SUFFICES ASSUME TypeOK, Printer PROVE TypeOK'
    OBVIOUS
  <1>1. CASE PanelOrEnd
    <2>1. \E newJob \in Files \cup {Nothing} : Works(newJob)
      BY <1>1 DEF PanelOrEnd
    <2>2. prints' \in 0 .. MaxPrints
      BY <1>1, CallsAssumption DEF PanelOrEnd, TypeOK
    <2>3. QED
      BY <1>1, <2>1, <2>2 DEF PanelOrEnd, Works, TypeOK, wireVars, callVars,
         Datagrams, Texts
  <1>2. ASSUME NEW kind, NEW reply \in Texts, Serve(kind, reply),
               job' \in Files \cup {Nothing}, last' \in Files \cup {Nothing},
               seen' \subseteq Files \cup {Nothing}, obeyed' \subseteq Controls
        PROVE  TypeOK'
    <2>1. requests' \in Seq(Datagrams') /\ replies' \in Seq(Texts')
      BY <1>2, TypeServe
    <2>2. QED
      BY <1>2, <2>1 DEF Serve, TypeOK, callVars
  <1>3. CASE AnswerHello
    <2>1. Plain(greeting) \in Texts
      BY DEF Plain, Text, Texts, TypeOK
    <2>2. QED
      BY <1>2, <1>3, <2>1 DEF AnswerHello, TypeOK
  <1>4. CASE AnswerStatus
    <2>1. PICK form \in StatusForms : Serve("status", Text("status", form, job))
      BY <1>4 DEF AnswerStatus
    <2>2. Text("status", form, job) \in Texts
      BY DEF Text, Texts, TypeOK
    <2>3. QED
      BY <1>2, <1>4, <2>1, <2>2 DEF AnswerStatus, TypeOK
  <1>5. CASE AnswerName
    <2>1. PICK kind \in NameReplies : Serve("name", Text(kind, "plain", last))
      BY <1>5 DEF AnswerName
    <2>2. Text(kind, "plain", last) \in Texts
      BY CallsAssumption DEF Text, Texts, TypeOK
    <2>3. QED
      BY <1>2, <1>5, <2>1, <2>2 DEF AnswerName, TypeOK
  <1>6. CASE AnswerFirmware
    <2>1. Plain("version") \in Texts
      BY DEF Plain, Text, Texts
    <2>2. QED
      BY <1>2, <1>6, <2>1 DEF AnswerFirmware, TypeOK
  <1>7. ASSUME NEW control \in Controls, Obey(control)
        PROVE  TypeOK'
    <2>1. Plain("ok") \in Texts
      BY DEF Plain, Text, Texts
    <2>2. /\ job' \in Files \cup {Nothing} /\ last' \in Files \cup {Nothing}
          /\ seen' \subseteq Files \cup {Nothing}
      <3>1. CASE control = "cancel"
        BY <1>7, <3>1 DEF Obey, Works, TypeOK
      <3>2. CASE control = "start"
        <4>1. \E file \in Files : Works(file)
          BY <1>7, <3>2 DEF Obey
        <4>2. QED
          BY <4>1 DEF Works, TypeOK
      <3>3. CASE control \notin {"cancel", "start"}
        BY <1>7, <3>3 DEF Obey, TypeOK
      <3>4. QED
        BY <3>1, <3>2, <3>3
    <2>3. Serve(control, Plain("ok")) /\ obeyed' \subseteq Controls
      BY <1>7 DEF Obey, TypeOK
    <2>4. QED
      BY <1>2, <2>1, <2>2, <2>3
  <1>8. ASSUME NEW control \in Controls, Refuse(control)
        PROVE  TypeOK'
    <2>1. PICK kind \in Refusals : Serve(control, Plain(kind))
      BY <1>8 DEF Refuse
    <2>2. Plain(kind) \in Texts
      BY CallsAssumption DEF Plain, Text, Texts
    <2>3. QED
      BY <1>2, <1>8, <2>1, <2>2 DEF Refuse, TypeOK
  <1>9. QED
    BY <1>1, <1>3, <1>4, <1>5, <1>6, <1>7, <1>8 DEF Printer

\* A reply is taken; what is made of it has its type.
LEMMA TypeReceive ==
    ASSUME TypeOK, Receive,
           pc' \in Requests \cup {"ended"},
           reading' \in [state : {"Idle", "Printing", "Unknown"},
                         file : Files \cup {Encoding, Nothing}],
           verdict' \in {"none", "read", "confirmed", "failed"}
    PROVE  TypeOK'
  <1>1. replies' \in Seq(Texts)
    BY ReceiveOver DEF TypeOK
  <1>2. Datagrams' = Datagrams /\ Texts' = Texts
    BY DEF Receive, Datagrams, Texts
  <1>3. attempt' \in 0 .. (IF pc' = "firmware" THEN 2 ELSE Retries)
    BY CallsAssumption DEF Receive
  <1>4. QED
    BY <1>1, <1>2, <1>3 DEF Receive, TypeOK, printVars, historyVars

LEMMA TypeClient == TypeOK /\ Client => TypeOK'
  <1> SUFFICES ASSUME TypeOK, Client PROVE TypeOK'
    OBVIOUS
  <1>1. ASSUME Receive PROVE Head(replies) \in Texts
    BY <1>1, ReceiveOver DEF TypeOK
  <1>2. CASE Send
    BY <1>2, TypeSend
  <1>3. CASE HelloReply
    BY <1>3, TypeReceive DEF HelloReply, End, Requests, TypeOK
  <1>4. CASE StatusReply
    <2>1. \A idle : PrinterState(idle) \in {"Idle", "Printing", "Unknown"}
      BY DEF PrinterState
    <2>2. QED
      BY <1>4, <2>1, TypeReceive DEF StatusReply, End, Requests, TypeOK
  <1>5. CASE NameReply
    <2>1. Quoted(Head(replies)) \in Files \cup {Encoding, Nothing}
      BY <1>1, <1>5 DEF NameReply, Quoted, Texts
    <2>2. QED
      BY <1>5, <2>1, TypeReceive DEF NameReply, End, TypeOK
  <1>6. CASE FirmwareReply
    BY <1>6, TypeReceive DEF FirmwareReply, End, TypeOK
  <1>7. CASE ControlReply
    BY <1>7, TypeReceive DEF ControlReply, End, TypeOK
  <1>8. CASE GiveUp
    BY <1>8, CallsAssumption DEF GiveUp, End, Unanswered, TypeOK, wireVars,
       printVars, historyVars, Datagrams, Texts
  <1>9. QED
    BY <1>2, <1>3, <1>4, <1>5, <1>6, <1>7, <1>8 DEF Client

LEMMA TypeNetwork == TypeOK /\ Network => TypeOK'
  <1> SUFFICES ASSUME TypeOK, Network PROVE TypeOK'
    OBVIOUS
  <1>1. \A r \in Datagrams : r.kind # "block"
    BY DEF Datagrams, Requests, Controls
  <1>2. requests' \in Seq(Datagrams) /\ replies' \in Seq(Texts)
    BY <1>1, FaultOver DEF TypeOK, Network
  <1>3. Datagrams' = Datagrams /\ Texts' = Texts
    BY DEF Network, callVars, Datagrams, Texts
  <1>4. faults' \in 0 .. MaxFaults
    BY WireAssumption DEF TypeOK, Network, Fault, LoseRequest, LoseReply,
       DuplicateReply, ReorderRequests, ReorderReplies, CorruptBlock, Commit
  <1>5. repeated' \in BOOLEAN
    BY DEF TypeOK, Network
  <1>6. QED
    BY <1>2, <1>3, <1>4, <1>5 DEF Network, TypeOK, printVars, callVars

LEMMA TypeNext == TypeOK /\ [Next]_vars => TypeOK'
  <1> SUFFICES ASSUME TypeOK, [Next]_vars PROVE TypeOK'
    OBVIOUS
  <1>1. CASE UNCHANGED vars
    BY <1>1 DEF vars, wireVars, printVars, callVars, historyVars, TypeOK,
       Datagrams, Texts
  <1>2. CASE Terminated
    BY <1>1, <1>2 DEF Terminated
  <1>3. QED
    BY <1>1, <1>2, TypeBegin, TypeAsk, TypeClient, TypePrinter, TypeNetwork
       DEF Next, Calls

\* Calls, printer and wire keep their types: in particular no wait is tried
\* more often than it is allowed to, and no socket is used twice.
THEOREM CallsTypes == Spec => []TypeOK
  <1>1. QED
    BY TypeInit, TypeNext, PTL DEF Spec

(***************************************************************************)
(* Answers that come late                                                  *)
(*                                                                         *)
(* The text of a handshake may be taken for a name.  On a wire that        *)
(* neither reorders nor duplicates, handshakes come before all else.  The  *)
(* text of many answers may be taken for a confirmation.  While every      *)
(* request of a client is sent once and no answer doubled, there is at     *)
(* most one of them, request or answer, and none between two calls.        *)
(***************************************************************************)

\* In the queue q, of the client with socket s; in the answers p.
Mine(q, s, i) == q[i].socket = s
Asks(q, s, i) == Mine(q, s, i) /\ q[i].kind = "hello"
Greets(p, j) == p[j].kind \in HelloReplies

\* Handshakes are asked before everything else, and answered before.
HellosFirst(q, s, p) ==
    /\ \A i, j \in DOMAIN q : i < j /\ Mine(q, s, i) /\ Asks(q, s, j) => Asks(q, s, i)
    /\ \A i, j \in DOMAIN p : i < j /\ Greets(p, j) => Greets(p, i)
    /\ (\E j \in DOMAIN p : ~Greets(p, j)) => \A i \in DOMAIN q : ~Asks(q, s, i)

OnlyHellos(q, s, p) ==
    /\ \A i \in DOMAIN q : Mine(q, s, i) => Asks(q, s, i)
    /\ \A j \in DOMAIN p : Greets(p, j)

NoHellos(q, s, p) ==
    /\ \A i \in DOMAIN q : ~Asks(q, s, i)
    /\ \A j \in DOMAIN p : ~Greets(p, j)

\* After n sends.
AtMostOne(q, s, p, n) ==
    /\ n <= 1
    /\ n = 0 => p = <<>> /\ \A i \in DOMAIN q : ~Mine(q, s, i)
    /\ \A i, j \in DOMAIN q : Mine(q, s, i) /\ Mine(q, s, j) => i = j
    /\ (\E i \in DOMAIN q : Mine(q, s, i)) => p = <<>>
    /\ Len(p) <= 1

Orderly ==
    faults = 0 =>
        /\ HellosFirst(requests, socket, replies)
        /\ pc = "hello" => OnlyHellos(requests, socket, replies)
        /\ pc = "name" => NoHellos(requests, socket, replies)

\* The client is closed: a poll has ended, or an error left the with statement.
Closed == pc = "ended" /\ (call = "poll" \/ verdict = "failed")

Single ==
    /\ pc = "ended" => attempt = 0
    /\ pc = "name" => call = "poll"
    /\ ~repeated /\ ~spare /\ ~Closed =>
           AtMostOne(requests, socket, replies, attempt)

LEMMA TailIndices ==
    ASSUME NEW S, NEW q \in Seq(S), q # <<>>
    PROVE  /\ Len(q) \in Nat \ {0}
           /\ DOMAIN q = 1 .. Len(q)
           /\ DOMAIN Tail(q) = 1 .. Len(q) - 1
           /\ Len(Tail(q)) = Len(q) - 1
           /\ \A i \in 1 .. Len(q) - 1 : Tail(q)[i] = q[i + 1]
           /\ Head(q) = q[1]
  BY HeadTailProperties, LenProperties, EmptySeq

LEMMA AppendIndices ==
    ASSUME NEW S, NEW q \in Seq(S), NEW e \in S
    PROVE  /\ Len(q) \in Nat
           /\ DOMAIN q = 1 .. Len(q)
           /\ DOMAIN Append(q, e) = 1 .. Len(q) + 1
           /\ Len(Append(q, e)) = Len(q) + 1
           /\ \A i \in 1 .. Len(q) : Append(q, e)[i] = q[i]
           /\ Append(q, e)[Len(q) + 1] = e
  BY AppendProperties, LenProperties

LEMMA SuffixIndices ==
    ASSUME NEW S, NEW q \in Seq(S), NEW n \in 0 .. Len(q)
    PROVE  /\ Len(q) \in Nat
           /\ DOMAIN q = 1 .. Len(q)
           /\ DOMAIN SubSeq(q, n + 1, Len(q)) = 1 .. Len(q) - n
           /\ \A i \in 1 .. Len(q) - n : SubSeq(q, n + 1, Len(q))[i] = q[n + i]
  BY LenProperties

LEMMA SwappedIndices ==
    ASSUME NEW S, NEW q \in Seq(S), NEW i \in 1 .. Len(q) - 1
    PROVE  /\ Len(q) \in Nat
           /\ DOMAIN q = 1 .. Len(q)
           /\ DOMAIN Swapped(q, i) = 1 .. Len(q)
           /\ \A j \in 1 .. Len(q) :
                  Swapped(q, i)[j] = q[IF j = i THEN i + 1
                                       ELSE IF j = i + 1 THEN i ELSE j]
  BY LenProperties DEF Swapped

LEMMA OrderBegin ==
    ASSUME TypeOK, NEW what, Begin(what)
    PROVE  Orderly' /\ Single'
  <1>1. socket' = socket + 1 /\ socket \in Nat /\ requests' = requests
        /\ replies' = <<>> /\ attempt' = 0 /\ pc' = "hello"
    BY DEF Begin, FreshSocket, TypeOK
  <1>2. \A i \in DOMAIN requests : ~Mine(requests, socket + 1, i)
    <2>1. \A i \in DOMAIN requests : requests[i] \in Datagrams
      BY ElementOfSeq, LenProperties DEF TypeOK
    <2>2. \A i \in DOMAIN requests : requests[i].socket \in 0 .. socket
      BY <2>1 DEF Datagrams
    <2>3. QED
      BY <1>1, <2>2 DEF Mine
  <1>3. /\ HellosFirst(requests, socket + 1, <<>>)
        /\ OnlyHellos(requests, socket + 1, <<>>)
        /\ AtMostOne(requests, socket + 1, <<>>, 0)
    BY <1>2 DEF HellosFirst, OnlyHellos, AtMostOne, Asks
  <1>4. QED
    BY <1>1, <1>3 DEF Orderly, Single

\* The next call of the same client finds nothing of the earlier ones, unless
\* they left something to spare.
LEMMA OrderAsk ==
    ASSUME TypeOK, Orderly, Single, NEW what \in Methods, Ask(what)
    PROVE  Orderly' /\ Single'
  <1>1. /\ UNCHANGED <<requests, replies, faults, socket>>
        /\ attempt' = 0 /\ pc' = what /\ what \notin {"hello", "name", "ended"}
        /\ spare' = (spare \/ repeated)
    BY DEF Ask, wireVars, Methods, Controls
  <1>2. attempt = 0 /\ ~Closed
    BY DEF Ask, Single, Closed
  <1>3. ~spare' => AtMostOne(requests, socket, replies, attempt)
    BY <1>1, <1>2, Zenon DEF Single
  <1>4. QED
    BY <1>1, <1>2, <1>3 DEF Orderly, Single

\* A send: the datagram goes last, the oldest answers may be discarded.
LEMMA OrderAppend ==
    ASSUME NEW q \in Seq(Datagrams), NEW p \in Seq(Texts), NEW s,
           NEW d \in Datagrams, d.socket = s, NEW m \in 1 .. Len(p) + 1,
           HellosFirst(q, s, p),
           d.kind = "hello" => OnlyHellos(q, s, p),
           NEW q2, q2 = Append(q, d),
           NEW p2, p2 = SubSeq(p, m, Len(p))
    PROVE  /\ HellosFirst(q2, s, p2)
           /\ d.kind = "hello" => OnlyHellos(q2, s, p2)
           /\ d.kind # "hello" /\ NoHellos(q, s, p) => NoHellos(q2, s, p2)
  <1> DEFINE new == Len(q) + 1
             n == m - 1
  <1>1. /\ Len(q) \in Nat
        /\ DOMAIN q = 1 .. Len(q)
        /\ DOMAIN q2 = 1 .. new
        /\ \A i \in 1 .. Len(q) : q2[i] = q[i]
        /\ q2[new] = d
    BY AppendIndices
  <1>2. /\ \A i \in DOMAIN q2 : i \in DOMAIN q \/ i = new
        /\ \A i \in DOMAIN q : i < new
        /\ \A i \in DOMAIN q : Mine(q2, s, i) <=> Mine(q, s, i)
        /\ \A i \in DOMAIN q : Asks(q2, s, i) <=> Asks(q, s, i)
        /\ Mine(q2, s, new)
        /\ Asks(q2, s, new) <=> d.kind = "hello"
    BY <1>1 DEF Mine, Asks
  <1>3. /\ \A j \in DOMAIN p2 : n + j \in DOMAIN p /\ (Greets(p2, j) <=> Greets(p, n + j))
        /\ \A i, j \in DOMAIN p2 : i < j => n + i < n + j
    <2>1. /\ Len(p) \in Nat
          /\ DOMAIN p = 1 .. Len(p)
          /\ DOMAIN p2 = 1 .. Len(p) - n
          /\ \A j \in 1 .. Len(p) - n : p2[j] = p[n + j]
      <3>1. Len(p) \in Nat
        BY LenProperties
      <3>2. n \in 0 .. Len(p) /\ n + 1 = m
        BY <3>1
      <3>3. p2 = SubSeq(p, n + 1, Len(p))
        BY <3>2
      <3> HIDE DEF n
      <3>4. QED
        BY <3>2, <3>3, SuffixIndices
    <2>2. \A j \in DOMAIN p2 : n + j \in DOMAIN p
      BY <2>1
    <2>3. QED
      BY <2>1, <2>2 DEF Greets
  <1>4. HellosFirst(q2, s, p2)
    <2>1. ASSUME NEW i \in DOMAIN q2, NEW j \in DOMAIN q2,
                 i < j, Mine(q2, s, i), Asks(q2, s, j)
          PROVE  Asks(q2, s, i)
      <3>1. i \in DOMAIN q
        BY <1>1, <2>1
      <3>2. CASE j \in DOMAIN q
        BY <1>2, <2>1, <3>1, <3>2 DEF HellosFirst
      <3>3. CASE j = new
        BY <1>2, <2>1, <3>1, <3>3 DEF OnlyHellos
      <3>4. QED
        BY <1>2, <3>2, <3>3
    <2>2. ASSUME NEW i \in DOMAIN p2, NEW j \in DOMAIN p2, i < j, Greets(p2, j)
          PROVE  Greets(p2, i)
      <3>1. n + i \in DOMAIN p /\ n + j \in DOMAIN p /\ n + i < n + j
        BY <1>3, <2>2
      <3>2. QED
        BY <1>3, <2>2, <3>1 DEF HellosFirst
    <2>3. ASSUME NEW j \in DOMAIN p2, ~Greets(p2, j), NEW i \in DOMAIN q2
          PROVE  ~Asks(q2, s, i)
      <3>1. n + j \in DOMAIN p /\ ~Greets(p, n + j)
        BY <1>3, <2>3
      <3>2. d.kind # "hello" /\ \A k \in DOMAIN q : ~Asks(q, s, k)
        BY <3>1 DEF HellosFirst, OnlyHellos
      <3>3. QED
        BY <1>2, <3>2
    <2>4. QED
      BY <2>1, <2>2, <2>3 DEF HellosFirst
  <1>5. d.kind = "hello" => OnlyHellos(q2, s, p2)
    BY <1>2, <1>3 DEF OnlyHellos
  <1>6. d.kind # "hello" /\ NoHellos(q, s, p) => NoHellos(q2, s, p2)
    BY <1>2, <1>3 DEF NoHellos
  <1>7. QED
    BY <1>2, <1>4, <1>5, <1>6

LEMMA OrderSend ==
    ASSUME TypeOK, Orderly, Single, Send
    PROVE  Orderly' /\ Single'
  <1>1. pc # "ended" /\ UNCHANGED <<faults, spare, call, verdict>>
    BY DEF Send
  <1>2. /\ ~repeated /\ ~spare => AtMostOne(requests, socket, replies, attempt)
        /\ faults = 0 => /\ HellosFirst(requests, socket, replies)
                         /\ pc = "hello" => OnlyHellos(requests, socket, replies)
                         /\ pc = "name" => NoHellos(requests, socket, replies)
    BY <1>1 DEF Orderly, Single, Closed
  <1>3. /\ requests \in Seq(Datagrams) /\ replies \in Seq(Texts)
        /\ [kind |-> pc, socket |-> socket] \in Datagrams
        /\ requests' = Append(requests, [kind |-> pc, socket |-> socket])
        /\ UNCHANGED <<pc, socket>>
        /\ attempt \in Nat /\ attempt' = attempt + 1
        /\ repeated' = (repeated \/ attempt > 0)
    BY CallsAssumption DEF Send, TypeOK, Datagrams
  <1>4. PICK m \in 1 .. Len(replies) + 1 :
            /\ replies' = SubSeq(replies, m, Len(replies))
            /\ replies = <<>> => replies' = <<>>
    <2>1. CASE attempt = 0
      <3>1. PICK n \in 0 .. Len(replies) :
                replies' = SubSeq(replies, n + 1, Len(replies))
        BY <2>1 DEF Send
      <3>2. n + 1 \in 1 .. Len(replies) + 1
        BY <1>3, LenProperties
      <3>3. replies = <<>> => replies' = <<>>
        BY <3>1
      <3>4. QED
        BY <3>1, <3>2, <3>3
    <2>2. CASE attempt # 0
      <3>1. /\ replies' = SubSeq(replies, 1, Len(replies))
            /\ 1 \in 1 .. Len(replies) + 1
            /\ replies' = replies
        BY <1>3, <2>2, SubSeqFull, LenProperties DEF Send
      <3>2. QED
        BY <3>1
    <2>3. QED
      BY <2>1, <2>2
  <1>5. ASSUME faults = 0
        PROVE  Orderly'
    <2>1. HellosFirst(requests, socket, replies)
      BY <1>2, <1>5
    <2>2. pc = "hello" => OnlyHellos(requests, socket, replies)
      BY <1>2, <1>5
    <2>3. PICK d \in Datagrams : /\ d.socket = socket /\ d.kind = pc
                                /\ requests' = Append(requests, d)
      BY <1>3
    <2>4. ASSUME NEW q2, q2 = Append(requests, d),
                 NEW p2, p2 = SubSeq(replies, m, Len(replies))
          PROVE  /\ HellosFirst(q2, socket, p2)
                 /\ d.kind = "hello" => OnlyHellos(q2, socket, p2)
                 /\ d.kind # "hello" /\ NoHellos(requests, socket, replies) =>
                        NoHellos(q2, socket, p2)
      <3>1. /\ requests \in Seq(Datagrams) /\ replies \in Seq(Texts)
            /\ d \in Datagrams /\ m \in 1 .. Len(replies) + 1
        BY <1>3
      <3>2. HellosFirst(requests, socket, replies)
        BY <2>1
      <3>3. d.kind = "hello" => OnlyHellos(requests, socket, replies)
        BY <2>2, <2>3
      <3>4. d.socket = socket
        BY <2>3
      <3>5. QED
        BY ONLY <2>4, <3>1, <3>2, <3>3, <3>4, OrderAppend
    <2>5. QED
      BY <1>2, <1>3, <1>4, <1>5, <2>3, <2>4 DEF Orderly
  <1>6. ASSUME faults # 0
        PROVE  Orderly'
    BY <1>1, <1>6 DEF Orderly
  <1>7. ASSUME ~repeated', ~spare'
        PROVE  AtMostOne(requests', socket, replies', attempt')
    <2>1. ~repeated /\ ~spare /\ ~(attempt > 0)
      BY <1>1, <1>3, <1>7, Zenon
    <2>2. attempt = 0 /\ attempt' = 1
      BY <1>3, <2>1
    <2>3. replies = <<>> /\ \A i \in DOMAIN requests : ~Mine(requests, socket, i)
      BY <1>2, <2>1, <2>2 DEF AtMostOne
    <2>4. replies' = <<>>
      BY <1>4, <2>3
    <2>5. \A i \in DOMAIN requests' : Mine(requests', socket, i) => i = Len(requests) + 1
      <3>1. /\ Len(requests) \in Nat
            /\ DOMAIN requests = 1 .. Len(requests)
            /\ DOMAIN requests' = 1 .. Len(requests) + 1
            /\ \A i \in 1 .. Len(requests) : requests'[i] = requests[i]
        BY <1>3, AppendIndices
      <3>2. \A i \in DOMAIN requests' : i \in DOMAIN requests \/ i = Len(requests) + 1
        BY <3>1
      <3>3. \A i \in DOMAIN requests : requests'[i] = requests[i]
        BY <3>1
      <3>4. QED
        BY <2>3, <3>2, <3>3 DEF Mine
    <2>6. QED
      BY <2>2, <2>4, <2>5 DEF AtMostOne
  <1>8. Single'
    BY <1>1, <1>3, <1>7 DEF Single
  <1>9. QED
    BY <1>5, <1>6, <1>8

\* The printer takes the head of the queue and answers it if it is of s.
LEMMA OrderAnswered ==
    ASSUME NEW S, NEW T, NEW q \in Seq(S), q # <<>>, NEW p \in Seq(T), NEW s,
           NEW reply \in T, q[1].kind = "hello" <=> reply.kind \in HelloReplies,
           NEW q2, q2 = Tail(q),
           NEW p2, p2 = IF Mine(q, s, 1) THEN Append(p, reply) ELSE p
    PROVE  /\ HellosFirst(q, s, p) => HellosFirst(q2, s, p2)
           /\ OnlyHellos(q, s, p) => OnlyHellos(q2, s, p2)
           /\ NoHellos(q, s, p) => NoHellos(q2, s, p2)
           /\ \A n \in Nat : AtMostOne(q, s, p, n) => AtMostOne(q2, s, p2, n)
  <1>1. /\ 1 \in DOMAIN q
        /\ \A i \in DOMAIN q2 :
               /\ i + 1 \in DOMAIN q
               /\ 1 < i + 1
               /\ 1 # i + 1
               /\ Mine(q2, s, i) <=> Mine(q, s, i + 1)
               /\ Asks(q2, s, i) <=> Asks(q, s, i + 1)
        /\ \A i, j \in DOMAIN q2 : /\ i < j => i + 1 < j + 1
                                   /\ i + 1 = j + 1 => i = j
    <2>1. /\ Len(q) \in Nat \ {0}
          /\ DOMAIN q = 1 .. Len(q)
          /\ DOMAIN q2 = 1 .. Len(q) - 1
          /\ \A i \in 1 .. Len(q) - 1 : q2[i] = q[i + 1]
      BY TailIndices
    <2>2. \A i \in DOMAIN q2 : q2[i] = q[i + 1]
      BY <2>1
    <2>3. QED
      BY <2>1, <2>2 DEF Mine, Asks
  <1> DEFINE new == Len(p) + 1
  <1>2. /\ \A j \in DOMAIN p2 :
               \/ j \in DOMAIN p /\ (Greets(p2, j) <=> Greets(p, j))
               \/ j = new /\ Mine(q, s, 1) /\ (Greets(p2, j) <=> Asks(q, s, 1))
        /\ \A j \in DOMAIN p : j < new
        /\ ~(new < new)
        /\ p = <<>> => Len(p2) <= 1 /\ DOMAIN p = {}
        /\ ~Mine(q, s, 1) => p2 = p
    <2>1. CASE Mine(q, s, 1)
      <3>1. /\ Len(p) \in Nat
            /\ DOMAIN p = 1 .. Len(p)
            /\ DOMAIN p2 = 1 .. new
            /\ Len(p2) = new
            /\ \A j \in 1 .. Len(p) : p2[j] = p[j]
            /\ p2[new] = reply
        BY <2>1, AppendIndices
      <3>2. Greets(p2, new) <=> Asks(q, s, 1)
        BY <2>1, <3>1 DEF Greets, Asks
      <3>3. p = <<>> => Len(p) = 0
        BY EmptySeq
      <3>4. /\ \A j \in DOMAIN p2 : j \in DOMAIN p \/ j = new
            /\ \A j \in DOMAIN p : j < new /\ p2[j] = p[j]
            /\ ~(new < new)
            /\ Len(p) = 0 => Len(p2) <= 1 /\ DOMAIN p = {}
        BY <3>1
      <3>5. \A j \in DOMAIN p : Greets(p2, j) <=> Greets(p, j)
        BY <3>4 DEF Greets
      <3>6. QED
        BY <2>1, <3>2, <3>3, <3>4, <3>5
    <2>2. CASE ~Mine(q, s, 1)
      <3>1. Len(p) \in Nat /\ DOMAIN p = 1 .. Len(p)
        BY LenProperties
      <3>2. p = <<>> => Len(p) = 0
        BY EmptySeq
      <3>3. QED
        BY <2>2, <3>1, <3>2
    <2>3. QED
      BY <2>1, <2>2
  <1>3. ASSUME HellosFirst(q, s, p)
        PROVE  HellosFirst(q2, s, p2)
    <2>1. ASSUME NEW i \in DOMAIN q2, NEW j \in DOMAIN q2,
                 i < j, Mine(q2, s, i), Asks(q2, s, j)
          PROVE  Asks(q2, s, i)
      BY <1>1, <1>3, <2>1 DEF HellosFirst
    <2>2. ASSUME NEW i \in DOMAIN p2, NEW j \in DOMAIN p2, i < j, Greets(p2, j)
          PROVE  Greets(p2, i)
      <3>1. CASE j \in DOMAIN p
        <4>1. i \in DOMAIN p
          BY <1>2, <2>2, <3>1, LenProperties
        <4>2. i < new /\ j < new
          BY <1>2, <3>1, <4>1
        <4>3. (Greets(p2, i) <=> Greets(p, i)) /\ (Greets(p2, j) <=> Greets(p, j))
          BY <1>2, <4>2
        <4>4. QED
          BY <1>3, <2>2, <3>1, <4>1, <4>3 DEF HellosFirst
      <3>2. CASE j \notin DOMAIN p
        <4>1. j = new /\ Asks(q, s, 1)
          BY <1>2, <2>2, <3>2
        <4>2. i \in DOMAIN p /\ (Greets(p2, i) <=> Greets(p, i))
          BY <1>2, <2>2, <4>1
        <4>3. QED
          BY <1>1, <1>3, <4>1, <4>2 DEF HellosFirst
      <3>3. QED
        BY <3>1, <3>2
    <2>3. ASSUME NEW j \in DOMAIN p2, ~Greets(p2, j), NEW i \in DOMAIN q2
          PROVE  ~Asks(q2, s, i)
      <3>1. CASE j \in DOMAIN p /\ ~Greets(p, j)
        BY <1>1, <1>3, <3>1 DEF HellosFirst
      <3>2. CASE Mine(q, s, 1) /\ ~Asks(q, s, 1)
        BY <1>1, <1>3, <3>2 DEF HellosFirst
      <3>3. QED
        BY <1>2, <2>3, <3>1, <3>2
    <2>4. QED
      BY <2>1, <2>2, <2>3 DEF HellosFirst
  <1>4. OnlyHellos(q, s, p) => OnlyHellos(q2, s, p2)
    BY <1>1, <1>2 DEF OnlyHellos
  <1>5. NoHellos(q, s, p) => NoHellos(q2, s, p2)
    BY <1>1, <1>2 DEF NoHellos
  <1>6. ASSUME NEW n \in Nat, AtMostOne(q, s, p, n)
        PROVE  AtMostOne(q2, s, p2, n)
    <2>1. n = 0 => p2 = <<>> /\ \A i \in DOMAIN q2 : ~Mine(q2, s, i)
      BY <1>1, <1>2, <1>6 DEF AtMostOne
    <2>2. \A i, j \in DOMAIN q2 : Mine(q2, s, i) /\ Mine(q2, s, j) => i = j
      BY <1>1, <1>6 DEF AtMostOne
    <2>3. (\E i \in DOMAIN q2 : Mine(q2, s, i)) => p2 = <<>>
      BY <1>1, <1>2, <1>6 DEF AtMostOne
    <2>4. Len(p2) <= 1
      BY <1>1, <1>2, <1>6 DEF AtMostOne
    <2>5. QED
      BY <1>6, <2>1, <2>2, <2>3, <2>4 DEF AtMostOne
  <1>7. QED
    BY <1>3, <1>4, <1>5, <1>6

\* The client takes the first answer.
LEMMA OrderTaken ==
    ASSUME NEW S, NEW T, NEW q \in Seq(S), NEW p \in Seq(T), p # <<>>, NEW s,
           NEW p2, p2 = Tail(p)
    PROVE  /\ HellosFirst(q, s, p) => HellosFirst(q, s, p2)
           /\ HellosFirst(q, s, p) /\ ~Greets(p, 1) => NoHellos(q, s, p2)
           /\ NoHellos(q, s, p) => NoHellos(q, s, p2) /\ ~Greets(p, 1)
           /\ \A n \in Nat : AtMostOne(q, s, p, n) => AtMostOne(q, s, p2, 0)
  <1>1. /\ Len(p) \in Nat \ {0}
        /\ DOMAIN p = 1 .. Len(p)
        /\ DOMAIN p2 = 1 .. Len(p) - 1
        /\ \A j \in 1 .. Len(p) - 1 : p2[j] = p[j + 1]
    BY TailIndices
  <1>2. \A j \in DOMAIN p2 : p2[j] = p[j + 1]
    BY <1>1
  <1>3. /\ 1 \in DOMAIN p
        /\ \A j \in DOMAIN p2 : /\ j + 1 \in DOMAIN p
                                /\ 1 < j + 1
                                /\ Greets(p2, j) <=> Greets(p, j + 1)
        /\ \A i, j \in DOMAIN p2 : i < j => i + 1 < j + 1
        /\ Len(p) <= 1 => DOMAIN p2 = {}
    BY <1>1, <1>2 DEF Greets
  <1>4. HellosFirst(q, s, p) => HellosFirst(q, s, p2)
    BY <1>3 DEF HellosFirst
  <1>5. HellosFirst(q, s, p) /\ ~Greets(p, 1) => NoHellos(q, s, p2)
    BY <1>3 DEF HellosFirst, NoHellos
  <1>6. NoHellos(q, s, p) => NoHellos(q, s, p2) /\ ~Greets(p, 1)
    BY <1>3 DEF NoHellos
  <1>7. ASSUME NEW n \in Nat, AtMostOne(q, s, p, n)
        PROVE  AtMostOne(q, s, p2, 0)
    <2>1. Len(p) = 1
      BY <1>1, <1>7 DEF AtMostOne
    <2>2. p2 = <<>> /\ Len(p2) <= 1
      BY <2>1, HeadTailProperties, EmptySeq
    <2>3. \A i \in DOMAIN q : ~Mine(q, s, i)
      BY <1>7 DEF AtMostOne
    <2>4. QED
      BY <2>2, <2>3 DEF AtMostOne
  <1>8. QED
    BY <1>4, <1>5, <1>6, <1>7

LEMMA OrderServe ==
    ASSUME TypeOK, Orderly, Single, NEW kind, NEW reply \in Texts,
           Serve(kind, reply), kind = "hello" <=> reply.kind \in HelloReplies
    PROVE  Orderly' /\ Single'
  <1>1. /\ requests \in Seq(Datagrams) /\ requests # <<>>
        /\ replies \in Seq(Texts)
        /\ Head(requests) = requests[1]
        /\ attempt \in Nat
    BY CallsAssumption, TailIndices DEF Serve, TypeOK
  <1>2. /\ requests[1].kind = "hello" <=> reply.kind \in HelloReplies
        /\ requests' = Tail(requests)
        /\ replies' = IF Mine(requests, socket, 1) THEN Append(replies, reply)
                      ELSE replies
        /\ UNCHANGED <<faults, pc, socket, attempt, repeated, spare, call, verdict>>
    BY <1>1 DEF Serve, callVars, Mine
  <1>3. \A q2, p2 :
            /\ q2 = Tail(requests)
            /\ p2 = IF Mine(requests, socket, 1) THEN Append(replies, reply)
                    ELSE replies
            => /\ HellosFirst(requests, socket, replies) => HellosFirst(q2, socket, p2)
               /\ OnlyHellos(requests, socket, replies) => OnlyHellos(q2, socket, p2)
               /\ NoHellos(requests, socket, replies) => NoHellos(q2, socket, p2)
               /\ \A n \in Nat : AtMostOne(requests, socket, replies, n) =>
                                     AtMostOne(q2, socket, p2, n)
    BY <1>1, <1>2, OrderAnswered
  <1>4. /\ HellosFirst(requests, socket, replies) => HellosFirst(requests', socket, replies')
        /\ OnlyHellos(requests, socket, replies) => OnlyHellos(requests', socket, replies')
        /\ NoHellos(requests, socket, replies) => NoHellos(requests', socket, replies')
        /\ AtMostOne(requests, socket, replies, attempt) =>
               AtMostOne(requests', socket, replies', attempt)
    BY <1>1, <1>2, <1>3, Zenon
  <1>5. Closed' <=> Closed
    BY <1>2 DEF Closed
  <1>6. Orderly' /\ Single'
    BY <1>2, <1>4, <1>5, Zenon DEF Orderly, Single
  <1>7. QED
    BY <1>6

LEMMA OrderPrinter ==
    ASSUME TypeOK, Orderly, Single, Printer
    PROVE  Orderly' /\ Single'
  <1>1. CASE PanelOrEnd
    BY <1>1, Zenon DEF PanelOrEnd, wireVars, callVars, Orderly, Single, Closed
  <1>2. CASE AnswerHello
    <2>1. Plain(greeting) \in Texts /\ Plain(greeting).kind \in HelloReplies
      BY DEF Plain, Text, Texts, TypeOK
    <2>2. QED
      BY <1>2, <2>1, OrderServe DEF AnswerHello
  <1>3. ASSUME NEW kind \in Requests \ {"hello"}, NEW reply \in Texts,
               reply.kind \in {"status", "name", "ok", "error", "version",
                              "other"},
               Serve(kind, reply)
        PROVE  Orderly' /\ Single'
    BY <1>3, OrderServe, CallsAssumption
  <1>4. CASE AnswerStatus
    <2>1. PICK form \in StatusForms : Serve("status", Text("status", form, job))
      BY <1>4 DEF AnswerStatus
    <2>2. /\ Text("status", form, job) \in Texts
          /\ Text("status", form, job).kind = "status"
      BY DEF Text, Texts, TypeOK
    <2>3. QED
      BY <1>3, <2>1, <2>2 DEF Requests
  <1>5. CASE AnswerName
    <2>1. PICK kind \in NameReplies : Serve("name", Text(kind, "plain", last))
      BY <1>5 DEF AnswerName
    <2>2. /\ Text(kind, "plain", last) \in Texts
          /\ Text(kind, "plain", last).kind \in {"name", "ok", "error"}
      BY CallsAssumption DEF Text, Texts, TypeOK
    <2>3. QED
      BY <1>3, <2>1, <2>2 DEF Requests
  <1>6. CASE AnswerFirmware
    <2>1. Plain("version") \in Texts /\ Plain("version").kind = "version"
      BY DEF Plain, Text, Texts
    <2>2. QED
      BY <1>3, <1>6, <2>1 DEF AnswerFirmware, Requests
  <1>7. ASSUME NEW control \in Controls, Obey(control) \/ Refuse(control)
        PROVE  Orderly' /\ Single'
    <2>1. PICK kind \in {"ok"} \cup Refusals : Serve(control, Plain(kind))
      BY <1>7 DEF Obey, Refuse
    <2>2. Plain(kind) \in Texts /\ Plain(kind).kind \in {"ok", "error", "other"}
      BY CallsAssumption DEF Plain, Text, Texts
    <2>3. control \in Requests \ {"hello"}
      BY <1>7 DEF Requests, Controls
    <2>4. QED
      BY <1>3, <2>1, <2>2, <2>3
  <1>8. QED
    BY <1>1, <1>2, <1>4, <1>5, <1>6, <1>7 DEF Printer

\* An answer to the status request shows that no handshake is left, and the
\* one answer there may be leaves nothing behind.
LEMMA OrderClient ==
    ASSUME TypeOK, Orderly, Single, Client
    PROVE  Orderly' /\ Single'
  <1>1. CASE Send
    BY <1>1, OrderSend
  <1>2. ASSUME Receive, pc # "ended", pc' \notin {"hello"},
               pc' = "name" => /\ pc = "status" /\ call = "poll"
                               /\ Head(replies).kind = "status"
        PROVE  Orderly' /\ Single'
    <2>1. /\ requests \in Seq(Datagrams) /\ replies \in Seq(Texts)
          /\ replies # <<>> /\ Head(replies) = replies[1]
          /\ attempt \in Nat
          /\ replies' = Tail(replies)
          /\ attempt' = 0
          /\ UNCHANGED <<requests, faults, socket, repeated, spare, call>>
      BY <1>2, CallsAssumption, TailIndices DEF Receive, TypeOK, historyVars
    <2>2. \A p2 : p2 = Tail(replies) =>
              /\ HellosFirst(requests, socket, replies) => HellosFirst(requests, socket, p2)
              /\ HellosFirst(requests, socket, replies) /\ ~Greets(replies, 1) =>
                     NoHellos(requests, socket, p2)
              /\ \A n \in Nat : AtMostOne(requests, socket, replies, n) =>
                                    AtMostOne(requests, socket, p2, 0)
      BY <2>1, OrderTaken
    <2>3. Head(replies).kind = "status" => ~Greets(replies, 1)
      BY <2>1, CallsAssumption DEF Greets
    <2>4. Orderly'
      <3>1. faults = 0 => HellosFirst(requests, socket, replies)
        BY DEF Orderly
      <3>2. faults = 0 => /\ HellosFirst(requests, socket, replies')
                          /\ pc' = "name" => NoHellos(requests, socket, replies')
        BY <1>2, <2>1, <2>2, <2>3, <3>1, Zenon
      <3>3. QED
        BY <1>2, <2>1, <3>2 DEF Orderly
    <2>5. Single'
      <3>1. ~repeated /\ ~spare => AtMostOne(requests, socket, replies, attempt)
        BY <1>2 DEF Single, Closed
      <3>2. ~repeated /\ ~spare => AtMostOne(requests, socket, replies', 0)
        BY <2>1, <2>2, <3>1, Zenon
      <3>3. QED
        BY <1>2, <2>1, <3>2 DEF Single
    <2>6. QED
      BY <2>4, <2>5
  <1>3. CASE HelloReply
    <2>1. pc' # "hello" /\ pc' # "name"
      BY <1>3 DEF HelloReply, End, TypeOK
    <2>2. QED
      BY <1>2, <1>3, <2>1 DEF HelloReply
  <1>4. CASE StatusReply
    <2> DEFINE idle == IsIdle(Head(replies))
    <2>1. /\ pc' # "name" => pc' = "ended"
          /\ pc' = "name" => idle = "false" /\ call = "poll"
      <3>1. CASE pc' = "name"
        BY <1>4, <3>1 DEF StatusReply, End, AsksName
      <3>2. CASE pc' # "name"
        BY <1>4, <3>2 DEF StatusReply, End
      <3>3. QED
        BY <3>1, <3>2
    <2>2. idle = "false" => Head(replies).kind = "status"
      BY DEF IsIdle
    <2>3. QED
      BY <1>2, <1>4, <2>1, <2>2 DEF StatusReply
  <1>5. CASE NameReply \/ FirmwareReply \/ ControlReply
    BY <1>2, <1>5 DEF NameReply, FirmwareReply, ControlReply, End, Controls
  <1>6. CASE GiveUp
    <2>1. /\ pc # "ended" /\ pc' = "ended" /\ attempt' = 0
          /\ UNCHANGED <<requests, replies, faults, socket, call>>
          /\ verdict' = Unanswered(pc)
      BY <1>6 DEF GiveUp, WaitEnds, End, wireVars
    <2>2. Orderly'
      BY <2>1 DEF Orderly
    <2>3. Closed'
      BY <2>1 DEF Closed, Unanswered, Single
    <2>4. QED
      BY <2>1, <2>2, <2>3 DEF Single
  <1>7. QED
    BY <1>1, <1>3, <1>4, <1>5, <1>6 DEF Client

\* Losses and changes of order make nothing more.
LEMMA SingleFault ==
    ASSUME TypeOK, Single, Network
    PROVE  Single'
  <1>1. /\ UNCHANGED <<pc, attempt, socket, spare, call, verdict>>
        /\ repeated' = (repeated \/ Len(replies') > Len(replies))
        /\ Closed' <=> Closed
    BY DEF Network, callVars, Closed
  <1>2. requests \in Seq(Datagrams) /\ replies \in Seq(Texts)
    BY DEF TypeOK
  <1> DEFINE Kept == AtMostOne(requests, socket, replies, attempt) =>
                         AtMostOne(requests', socket, replies', attempt)
  <1>3. SUFFICES repeated' \/ Kept
    BY <1>1, Zenon DEF Single
  <1>4. CASE LoseRequest
    <2>1. /\ requests # <<>> /\ requests' = Tail(requests) /\ replies' = replies
      BY <1>4 DEF LoseRequest
    <2>2. /\ Len(requests) \in Nat \ {0}
          /\ DOMAIN requests = 1 .. Len(requests)
          /\ DOMAIN requests' = 1 .. Len(requests) - 1
          /\ \A i \in 1 .. Len(requests) - 1 : requests'[i] = requests[i + 1]
      BY <1>2, <2>1, TailIndices
    <2>3. \A i \in DOMAIN requests' : i + 1 \in DOMAIN requests
                                      /\ requests'[i] = requests[i + 1]
      BY <2>2
    <2>4. \A i, j \in DOMAIN requests' : i + 1 = j + 1 => i = j
      BY <2>2
    <2>5. QED
      BY <2>1, <2>3, <2>4 DEF AtMostOne, Mine
  <1>5. CASE LoseReply
    <2>1. /\ requests' = requests /\ replies # <<>> /\ replies' = Tail(replies)
      BY <1>5 DEF LoseReply
    <2>2. Len(replies) \in Nat \ {0} /\ Len(replies') = Len(replies) - 1
      BY <1>2, <2>1, TailIndices
    <2>3. Len(replies) <= 1 => replies' = <<>> /\ Len(replies') <= 1
      BY <1>2, <2>1, <2>2, HeadTailProperties, EmptySeq
    <2>4. QED
      BY <2>1, <2>3 DEF AtMostOne
  <1>6. CASE DuplicateReply
    <2>1. replies # <<>> /\ replies' = Append(replies, Head(replies))
      BY <1>6 DEF DuplicateReply
    <2>2. Len(replies') = Len(replies) + 1 /\ Len(replies) \in Nat
      BY <1>2, <2>1, HeadTailProperties, AppendProperties
    <2>3. Len(replies') > Len(replies)
      BY <2>2
    <2>4. QED
      BY <1>1, <2>3
  <1>7. CASE ReorderRequests
    <2>1. PICK i \in 1 .. Len(requests) - 1 : requests' = Swapped(requests, i)
      BY <1>7 DEF ReorderRequests
    <2>2. replies' = replies
      BY <1>7 DEF ReorderRequests
    <2> DEFINE at(j) == IF j = i THEN i + 1 ELSE IF j = i + 1 THEN i ELSE j
    <2>3. /\ Len(requests) \in Nat
          /\ DOMAIN requests = 1 .. Len(requests)
          /\ DOMAIN Swapped(requests, i) = 1 .. Len(requests)
          /\ \A j \in 1 .. Len(requests) : Swapped(requests, i)[j] = requests[at(j)]
      BY <1>2, SwappedIndices
    <2>4. \A j \in DOMAIN requests' : /\ at(j) \in DOMAIN requests
                                      /\ requests'[j] = requests[at(j)]
      BY <2>1, <2>3
    <2>5. \A j, k \in DOMAIN requests' : at(j) = at(k) => j = k
      BY <2>1, <2>3
    <2> HIDE DEF at
    <2>6. QED
      BY <2>2, <2>4, <2>5 DEF AtMostOne, Mine
  <1>8. CASE ReorderReplies
    <2>1. PICK i \in 1 .. Len(replies) - 1 : replies' = Swapped(replies, i)
      BY <1>8 DEF ReorderReplies
    <2>2. Len(replies) \in Nat
      BY <1>2, LenProperties
    <2>3. ~(Len(replies) <= 1)
      BY <2>1, <2>2
    <2>4. QED
      BY <2>3 DEF AtMostOne
  <1>9. CASE CorruptBlock
    <2>1. PICK i \in DOMAIN requests : requests[i].kind = "block"
      BY <1>9 DEF CorruptBlock
    <2>2. requests[i] \in Datagrams
      BY <1>2, <2>1, ElementOfSeq, LenProperties
    <2>3. QED
      BY <2>1, <2>2 DEF Datagrams, Requests, Controls
  <1>10. QED
    BY <1>4, <1>5, <1>6, <1>7, <1>8, <1>9 DEF Network, Fault

LEMMA OrderInit == Init => Orderly /\ Single
  <1> SUFFICES ASSUME Init PROVE Orderly /\ Single
    OBVIOUS
  <1>1. /\ requests = <<>> /\ replies = <<>> /\ pc = "ended" /\ attempt = 0
        /\ call = "poll"
    BY DEF Init, WireInit
  <1>2. DOMAIN requests = {} /\ DOMAIN replies = {}
    BY <1>1
  <1>3. QED
    BY <1>1, <1>2 DEF Orderly, HellosFirst, Single, Closed

LEMMA OrderNext ==
    ASSUME TypeOK, Orderly, Single, [Next]_vars
    PROVE  Orderly' /\ Single'
  <1>1. CASE UNCHANGED vars
    BY <1>1, Zenon DEF vars, wireVars, callVars, historyVars, Orderly, Single,
       Closed
  <1>2. CASE Network
    <2>1. faults' = faults + 1 /\ faults \in Nat
      BY <1>2, WireAssumption DEF Network, Fault, LoseRequest, LoseReply,
         DuplicateReply, ReorderRequests, ReorderReplies, CorruptBlock, Commit,
         TypeOK
    <2>2. faults' # 0
      BY <2>1
    <2>3. QED
      BY <1>2, <2>2, SingleFault DEF Orderly
  <1>3. CASE Terminated
    BY <1>1, <1>3 DEF Terminated
  <1>4. QED
    BY <1>1, <1>2, <1>3, OrderBegin, OrderAsk, OrderClient, OrderPrinter DEF Next

(***************************************************************************)
(* What the replies of this client say                                     *)
(***************************************************************************)

\* A print has been under way since the client was opened.
Printed == \E file \in Files : file \in seen

\* Only a poll that has seen a print asks for a name; and where no earlier call
\* left anything, a control call has nothing but its command on the wire.  Of
\* other clients' requests nothing is known.
FreshRequests ==
    {r \in Datagrams : r.socket = socket =>
        /\ call \in Controls /\ ~spare => r.kind = call
        /\ r.kind = "name" => Printed}

\* A reply speaks of a job since the client was opened; and where no earlier
\* call left anything, one that can pass for the confirmation of a control
\* call says that the call has been obeyed.
FreshReplies ==
    {r \in Texts :
        /\ r.kind \in {"status", "name"} => r.file \in seen
        /\ call \in Controls /\ ~spare /\ StartsOk(r) => call \in obeyed}

History ==
    /\ job \in seen
    /\ job \in Files => last = job
    /\ Printed => last \in seen

Stage ==
    /\ pc = "name" => reading.state = "Printing" /\ call = "poll"
    /\ pc \in Controls => pc = call
    /\ call \in Controls => pc \in {call, "ended"}
    /\ pc # "ended" => verdict = "none"
    /\ reading.file # Nothing => call = "poll" /\ pc = "ended"

Fresh ==
    /\ requests \in Seq(FreshRequests)
    /\ replies \in Seq(FreshReplies)
    /\ History
    /\ Stage
    /\ StateIsRecent
    /\ reading.file \in Files => reading.file \in seen

\* What is known of the wire stays known while the call goes on.
LEMMA FreshGrows ==
    ASSUME TypeOK, seen \subseteq seen', obeyed \subseteq obeyed',
           UNCHANGED <<socket, call, spare>>
    PROVE  /\ FreshRequests \subseteq FreshRequests'
           /\ FreshReplies \subseteq FreshReplies'
  BY DEF FreshRequests, FreshReplies, Printed, Datagrams, Texts, StartsOk

LEMMA FreshInit == Init => Fresh
  <1> SUFFICES ASSUME Init PROVE Fresh
    OBVIOUS
  <1>1. requests \in Seq(FreshRequests) /\ replies \in Seq(FreshReplies)
    BY EmptySeq DEF Init, WireInit
  <1>2. History
    BY DEF Init, History, Printed
  <1>3. Stage
    BY DEF Init, Stage, Controls
  <1>4. StateIsRecent /\ reading.file \notin Files
    BY CallsAssumption DEF Init, Unread, StateIsRecent
  <1>5. QED
    BY <1>1, <1>2, <1>3, <1>4 DEF Fresh

LEMMA FreshBegin ==
    ASSUME TypeOK, Fresh, NEW what \in {"poll", "connect"}, Begin(what)
    PROVE  Fresh'
  <1>1. requests' \in Seq(FreshRequests')
    <2>1. socket' = socket + 1 /\ socket \in Nat
      BY DEF Begin, FreshSocket, TypeOK
    <2>2. Datagrams \subseteq FreshRequests'
      BY <2>1 DEF Datagrams, FreshRequests
    <2>3. requests' \in Seq(Datagrams)
      BY DEF Begin, TypeOK
    <2>4. QED
      BY <2>2, <2>3, SeqMonotonic
  <1>2. replies' \in Seq(FreshReplies')
    BY EmptySeq DEF Begin, FreshSocket
  <1>3. History'
    BY DEF Begin, printVars, Fresh, History, Printed
  <1>4. Stage'
    BY DEF Begin, Stage, Controls, Unread
  <1>5. StateIsRecent' /\ reading'.file \notin Files
    BY CallsAssumption DEF Begin, Unread, StateIsRecent
  <1>6. QED
    BY <1>1, <1>2, <1>3, <1>4, <1>5 DEF Fresh

\* A sequence over a set is one over any set its elements are in.
LEMMA SeqOver ==
    ASSUME NEW S, NEW T, NEW q \in Seq(S), \A i \in DOMAIN q : q[i] \in T
    PROVE  q \in Seq(T)
  <1>1. Len(q) \in Nat /\ q \in [1 .. Len(q) -> S]
    BY LenProperties
  <1>2. q \in [1 .. Len(q) -> T]
    BY <1>1
  <1>3. QED
    BY <1>1, <1>2, SeqDef

\* The next call of a client that has left nothing finds the wire empty of it;
\* of one that may have, nothing is claimed.
LEMMA FreshAsk ==
    ASSUME TypeOK, Single, Fresh, NEW what \in Methods, Ask(what)
    PROVE  Fresh'
  <1>1. /\ UNCHANGED <<requests, replies, socket, seen, reading, job, last>>
        /\ spare' = (spare \/ repeated) /\ call' = what /\ pc' = what
        /\ attempt = 0 /\ ~Closed /\ verdict' = "none" /\ call # "poll"
    BY DEF Ask, Single, Closed, wireVars, printVars
  <1>2. Datagrams' = Datagrams /\ Texts' = Texts /\ Printed' = Printed
    BY <1>1 DEF Datagrams, Texts, Printed, Ask
  <1>3. ASSUME spare'
        PROVE  requests' \in Seq(FreshRequests') /\ replies' \in Seq(FreshReplies')
    <2>1. FreshRequests \subseteq FreshRequests' /\ FreshReplies \subseteq FreshReplies'
      BY <1>1, <1>2, <1>3 DEF FreshRequests, FreshReplies
    <2>2. requests' \in Seq(FreshRequests') /\ replies' \in Seq(FreshReplies')
      BY <1>1, <2>1, SeqMonotonic DEF Fresh
    <2>3. QED
      BY <2>2
  <1>4. ASSUME ~spare'
        PROVE  requests' \in Seq(FreshRequests') /\ replies' \in Seq(FreshReplies')
    <2>1. AtMostOne(requests, socket, replies, 0)
      BY <1>1, <1>4, Zenon DEF Single
    <2>2. replies = <<>> /\ \A i \in DOMAIN requests : requests[i].socket # socket
      BY <2>1 DEF AtMostOne, Mine
    <2>3. \A i \in DOMAIN requests : requests[i] \in Datagrams
      BY ElementOfSeq, LenProperties DEF TypeOK
    <2>4. \A i \in DOMAIN requests : requests[i] \in FreshRequests'
      BY <1>1, <1>2, <2>2, <2>3 DEF FreshRequests
    <2>5. requests \in Seq(FreshRequests')
      <3>1. requests \in Seq(Datagrams)
        BY DEF TypeOK
      <3>2. QED
        BY <2>4, <3>1, SeqOver
    <2>6. replies' \in Seq(FreshReplies')
      BY <1>1, <2>2, EmptySeq
    <2>7. QED
      BY <1>1, <2>5, <2>6
  <1>5. requests' \in Seq(FreshRequests') /\ replies' \in Seq(FreshReplies')
    BY <1>3, <1>4
  <1>6. History' /\ StateIsRecent' /\ (reading'.file \in Files => reading'.file \in seen')
    BY <1>1 DEF Fresh, History, Printed, StateIsRecent
  <1>7. Stage'
    <2>1. what # "name" /\ what # "ended" /\ reading.file = Nothing
      BY <1>1 DEF Methods, Controls, Fresh, Stage
    <2>2. QED
      BY <1>1, <2>1 DEF Stage
  <1>8. QED
    BY <1>5, <1>6, <1>7 DEF Fresh

LEMMA FreshSend ==
    ASSUME TypeOK, Fresh, Send
    PROVE  Fresh'
  <1>1. [kind |-> pc, socket |-> socket] \in FreshRequests
    <2>1. [kind |-> pc, socket |-> socket] \in Datagrams
      BY DEF Send, TypeOK, Datagrams
    <2>2. call \in Controls => pc = call
      BY DEF Send, Fresh, Stage
    <2>3. pc = "name" => Printed
      BY DEF Fresh, Stage, StateIsRecent, Printed
    <2>4. QED
      BY <2>1, <2>2, <2>3 DEF FreshRequests
  <1>2. requests' \in Seq(FreshRequests) /\ replies' \in Seq(FreshReplies)
    BY <1>1, SendOver DEF Fresh
  <1>3. FreshRequests \subseteq FreshRequests' /\ FreshReplies \subseteq FreshReplies'
    BY FreshGrows DEF Send, printVars
  <1>4. requests' \in Seq(FreshRequests') /\ replies' \in Seq(FreshReplies')
    BY <1>2, <1>3, SeqMonotonic
  <1>5. History' /\ Stage' /\ StateIsRecent'
    BY DEF Send, printVars, Fresh, History, Printed, Stage, StateIsRecent
  <1>6. QED
    BY <1>4, <1>5 DEF Send, Fresh

\* A reply taken from the queue is a fresh one.
LEMMA FreshReceive ==
    ASSUME TypeOK, Fresh, Receive
    PROVE  /\ Head(replies) \in FreshReplies
           /\ requests' \in Seq(FreshRequests')
           /\ replies' \in Seq(FreshReplies')
           /\ History'
  <1>1. Head(replies) \in FreshReplies /\ replies' \in Seq(FreshReplies)
    BY ReceiveOver DEF Fresh
  <1>2. FreshRequests' = FreshRequests /\ FreshReplies' = FreshReplies
    BY DEF Receive, historyVars, printVars, FreshRequests, FreshReplies,
       Printed, Datagrams, Texts, StartsOk
  <1>3. History'
    BY DEF Receive, historyVars, printVars, Fresh, History, Printed
  <1>4. QED
    BY <1>1, <1>2, <1>3 DEF Receive, Fresh

LEMMA FreshClient ==
    ASSUME TypeOK, Fresh, Client
    PROVE  Fresh'
  <1>1. CASE Send
    BY <1>1, FreshSend
  <1>2. CASE HelloReply
    <2>1. Stage'
      BY <1>2 DEF HelloReply, Receive, End, TypeOK, Fresh, Stage, Calls,
         Controls, Methods
    <2>2. StateIsRecent' /\ (reading'.file \in Files => reading'.file \in seen')
      BY <1>2 DEF HelloReply, Receive, historyVars, Fresh, StateIsRecent
    <2>3. QED
      BY <1>2, <2>1, <2>2, FreshReceive DEF HelloReply, Fresh
  <1>3. CASE StatusReply
    <2> DEFINE reply == Head(replies)
               idle == IsIdle(reply)
    <2>1. Receive /\ reply \in FreshReplies
      BY <1>3, FreshReceive DEF StatusReply
    <2>2. idle = "true" => Nothing \in seen
      BY <2>1 DEF IsIdle, FreshReplies
    <2>3. idle = "false" => seen \cap Files # {}
      BY <2>1 DEF IsIdle, FreshReplies, Texts
    <2>4. reading'.state = reading.state \/ reading'.state = PrinterState(idle)
      BY <1>3 DEF StatusReply, TypeOK
    <2>5. StateIsRecent'
      BY <2>1, <2>2, <2>3, <2>4 DEF PrinterState, Receive, historyVars, Fresh,
         StateIsRecent
    <2>6. reading'.file = Nothing
      <3>1. reading.file = Nothing
        BY <1>3 DEF StatusReply, Fresh, Stage
      <3>2. QED
        BY <1>3, <3>1 DEF StatusReply, TypeOK
    <2>7. Stage'
      <3>1. call \notin Controls /\ pc # "ended"
        BY <1>3 DEF StatusReply, Fresh, Stage, Controls
      <3>2. CASE pc' = "name"
        <4>1. ~IsError(reply) /\ idle = "false"
          BY <1>3, <3>2 DEF StatusReply, End, AsksName
        <4>2. reading'.state = "Printing"
          BY <1>3, <4>1 DEF StatusReply, PrinterState, TypeOK
        <4>3. verdict' = verdict
          BY <1>3, <3>2 DEF StatusReply, End
        <4>4. call = "poll"
          BY <1>3, <3>2 DEF StatusReply, End, AsksName
        <4>5. QED
          BY <1>3, <2>1, <2>6, <3>1, <3>2, <4>2, <4>3, <4>4 DEF StatusReply,
             Receive, Fresh, Stage, Controls
      <3>3. CASE pc' # "name"
        <4>1. pc' = "ended"
          BY <1>3, <3>3 DEF StatusReply, End
        <4>2. QED
          BY <2>1, <2>6, <3>1, <4>1 DEF Receive, Stage, Controls
      <3>4. QED
        BY <3>2, <3>3
    <2>8. reading'.file \notin Files
      BY <2>6, CallsAssumption
    <2>9. QED
      BY <2>1, <2>5, <2>7, <2>8, FreshReceive DEF Fresh
  <1>4. CASE NameReply
    <2> DEFINE reply == Head(replies)
    <2>1. Receive /\ reply \in FreshReplies /\ pc' = "ended"
      BY <1>4, FreshReceive DEF NameReply, End
    <2>2. reading'.file \in Files => reading'.file \in seen
      <3>1. CASE IsError(reply)
        BY <1>4, <3>1 DEF NameReply, Fresh
      <3>2. CASE ~IsError(reply)
        <4>1. reading'.file = Quoted(reply)
          BY <1>4, <3>2 DEF NameReply, TypeOK
        <4>2. Quoted(reply) \in Files => reply.kind = "name" /\ Quoted(reply) = reply.file
          BY CallsAssumption DEF Quoted
        <4>3. QED
          BY <2>1, <4>1, <4>2 DEF FreshReplies
      <3>3. QED
        BY <3>1, <3>2
    <2>3. reading'.state = reading.state
      BY <1>4 DEF NameReply, TypeOK
    <2>4. StateIsRecent' /\ Stage'
      <3>1. StateIsRecent'
        BY <2>1, <2>3 DEF Receive, historyVars, Fresh, StateIsRecent
      <3>2. call = "poll"
        BY <1>4 DEF NameReply, Fresh, Stage
      <3>3. Stage'
        BY <2>1, <3>2 DEF Stage, Controls, Receive
      <3>4. QED
        BY <3>1, <3>3
    <2>5. QED
      BY <2>1, <2>2, <2>4, FreshReceive DEF Receive, historyVars, Fresh
  <1>5. CASE FirmwareReply \/ ControlReply
    <2>1. Receive /\ pc' = "ended" /\ UNCHANGED reading
      BY <1>5 DEF FirmwareReply, ControlReply, End
    <2>2. Stage'
      <3>1. pc # "ended" /\ reading.file = Nothing
        BY <1>5 DEF FirmwareReply, ControlReply, Controls, Fresh, Stage
      <3>2. QED
        BY <2>1, <3>1 DEF Stage, Controls
    <2>3. StateIsRecent' /\ (reading'.file \in Files => reading'.file \in seen')
      BY <2>1 DEF Receive, historyVars, Fresh, StateIsRecent
    <2>4. QED
      BY <2>1, <2>2, <2>3, FreshReceive DEF Fresh
  <1>6. CASE GiveUp
    <2>1. FreshRequests' = FreshRequests /\ FreshReplies' = FreshReplies
      BY <1>6 DEF GiveUp, wireVars, printVars, historyVars, FreshRequests,
         FreshReplies, Printed, Datagrams, Texts, StartsOk
    <2>2. Stage'
      BY <1>6 DEF GiveUp, WaitEnds, End, Fresh, Stage, Controls
    <2>3. QED
      BY <1>6, <2>1, <2>2 DEF GiveUp, wireVars, printVars, historyVars, Fresh,
         History, Printed, StateIsRecent
  <1>7. QED
    BY <1>1, <1>2, <1>3, <1>4, <1>5, <1>6 DEF Client

\* The printer's answers: what it does is added to the history first, so its
\* answer speaks of the history.
LEMMA FreshServe ==
    ASSUME TypeOK, Fresh, NEW kind, NEW reply \in Texts, Serve(kind, reply),
           seen \subseteq seen', obeyed \subseteq obeyed', History',
           \A r \in FreshRequests :
               r.kind = kind /\ r.socket = socket => reply \in FreshReplies'
    PROVE  Fresh'
  <1>1. FreshRequests \subseteq FreshRequests' /\ FreshReplies \subseteq FreshReplies'
    BY FreshGrows DEF Serve, callVars
  <1>2. requests \in Seq(FreshRequests) /\ replies \in Seq(FreshReplies')
    BY <1>1, SeqMonotonic DEF Fresh
  <1>3. requests' \in Seq(FreshRequests) /\ replies' \in Seq(FreshReplies')
    BY <1>2, ServeOver
  <1>4. requests' \in Seq(FreshRequests')
    BY <1>1, <1>3, SeqMonotonic
  <1>5. Stage' /\ StateIsRecent' /\ (reading'.file \in Files => reading'.file \in seen')
    BY DEF Serve, callVars, Fresh, Stage, StateIsRecent
  <1>6. QED
    BY <1>3, <1>4, <1>5 DEF Fresh

\* Works keeps the history true.
LEMMA HistoryWorks ==
    ASSUME TypeOK, History, NEW newJob \in Files \cup {Nothing}, Works(newJob)
    PROVE  History' /\ seen \subseteq seen'
  BY CallsAssumption DEF History, Printed, Works, TypeOK

LEMMA FreshPrinter ==
    ASSUME TypeOK, Fresh, Printer
    PROVE  Fresh'
  <1>1. CASE PanelOrEnd
    <2>1. PICK newJob \in Files \cup {Nothing} : Works(newJob)
      BY <1>1 DEF PanelOrEnd
    <2>2. History' /\ seen \subseteq seen'
      BY <2>1, HistoryWorks DEF Fresh
    <2>3. FreshRequests \subseteq FreshRequests' /\ FreshReplies \subseteq FreshReplies'
      BY <1>1, <2>2, FreshGrows DEF PanelOrEnd, callVars
    <2>4. requests' \in Seq(FreshRequests') /\ replies' \in Seq(FreshReplies')
      BY <1>1, <2>3, SeqMonotonic DEF PanelOrEnd, wireVars, Fresh
    <2>5. Stage' /\ StateIsRecent' /\ (reading'.file \in Files => reading'.file \in seen')
      BY <1>1, <2>2 DEF PanelOrEnd, callVars, Fresh, Stage, StateIsRecent
    <2>6. QED
      BY <2>2, <2>4, <2>5 DEF Fresh
  <1>2. ASSUME NEW kind, NEW reply \in Texts, Serve(kind, reply),
               UNCHANGED <<job, last, seen, obeyed>>,
               \A r \in FreshRequests :
                   r.kind = kind /\ r.socket = socket => reply \in FreshReplies
        PROVE  Fresh'
    <2>1. FreshReplies' = FreshReplies
      BY <1>2 DEF Serve, callVars, FreshReplies, Texts, StartsOk
    <2>2. History'
      BY <1>2 DEF Fresh, History, Printed
    <2>3. QED
      BY <1>2, <2>1, <2>2, FreshServe
  <1>3. CASE AnswerHello
    <2>1. Plain(greeting) \in Texts
      BY DEF Plain, Text, Texts, TypeOK
    <2>2. ASSUME NEW r \in FreshRequests, r.kind = "hello", r.socket = socket
          PROVE  Plain(greeting) \in FreshReplies
      <3>1. ~(call \in Controls /\ ~spare)
        BY <2>2 DEF FreshRequests, Controls
      <3>2. Plain(greeting).kind \notin {"status", "name"}
        BY CallsAssumption DEF Plain, Text, TypeOK
      <3>3. QED
        BY <2>1, <3>1, <3>2 DEF FreshReplies
    <2>3. QED
      BY <1>2, <1>3, <2>1, <2>2 DEF AnswerHello
  <1>4. CASE AnswerStatus
    <2>1. PICK form \in StatusForms : Serve("status", Text("status", form, job))
      BY <1>4 DEF AnswerStatus
    <2>2. Text("status", form, job) \in Texts
      BY DEF Text, Texts, TypeOK
    <2>3. ASSUME NEW r \in FreshRequests, r.kind = "status", r.socket = socket
          PROVE  Text("status", form, job) \in FreshReplies
      <3>1. ~(call \in Controls /\ ~spare)
        BY <2>3 DEF FreshRequests, Controls
      <3>2. QED
        BY <2>2, <3>1 DEF FreshReplies, Text, Fresh, History
    <2>4. QED
      BY <1>2, <1>4, <2>1, <2>2, <2>3 DEF AnswerStatus
  <1>5. CASE AnswerName
    <2>1. PICK kind \in NameReplies : Serve("name", Text(kind, "plain", last))
      BY <1>5 DEF AnswerName
    <2>2. Text(kind, "plain", last) \in Texts
      BY CallsAssumption DEF Text, Texts, TypeOK
    <2>3. ASSUME NEW r \in FreshRequests, r.kind = "name", r.socket = socket
          PROVE  Text(kind, "plain", last) \in FreshReplies
      <3>1. Printed /\ ~(call \in Controls /\ ~spare)
        BY <2>3 DEF FreshRequests, Controls
      <3>2. last \in seen
        BY <3>1 DEF Fresh, History
      <3>3. QED
        BY <2>2, <3>1, <3>2 DEF FreshReplies, Text
    <2>4. QED
      BY <1>2, <1>5, <2>1, <2>2, <2>3 DEF AnswerName
  <1>6. CASE AnswerFirmware
    <2>1. Plain("version") \in Texts
      BY DEF Plain, Text, Texts
    <2>2. ASSUME NEW r \in FreshRequests, r.kind = "firmware", r.socket = socket
          PROVE  Plain("version") \in FreshReplies
      <3>1. ~(call \in Controls /\ ~spare)
        BY <2>2 DEF FreshRequests, Controls
      <3>2. QED
        BY <2>1, <3>1 DEF FreshReplies, Plain, Text
    <2>3. QED
      BY <1>2, <1>6, <2>1, <2>2 DEF AnswerFirmware
  <1>7. ASSUME NEW control \in Controls, Obey(control)
        PROVE  Fresh'
    <2>1. Plain("ok") \in Texts
      BY DEF Plain, Text, Texts
    <2>2. History' /\ seen \subseteq seen'
      <3>1. CASE control = "cancel"
        BY <1>7, <3>1, HistoryWorks DEF Obey, Fresh
      <3>2. CASE control = "start"
        <4>1. PICK file \in Files : Works(file)
          BY <1>7, <3>2 DEF Obey
        <4>2. QED
          BY <4>1, HistoryWorks DEF Fresh
      <3>3. CASE control \notin {"cancel", "start"}
        BY <1>7, <3>3 DEF Obey, Fresh, History, Printed
      <3>4. QED
        BY <3>1, <3>2, <3>3
    <2>3. ASSUME NEW r \in FreshRequests, r.kind = control, r.socket = socket
          PROVE  Plain("ok") \in FreshReplies'
      <3>1. call \in Controls /\ ~spare => control = call
        BY <1>7, <2>3 DEF FreshRequests, Controls
      <3>2. call' = call /\ spare' = spare /\ control \in obeyed'
        BY <1>7 DEF Obey, Serve, callVars
      <3>3. Plain("ok") \in Texts'
        BY DEF Plain, Text, Texts
      <3>4. QED
        BY <3>1, <3>2, <3>3 DEF FreshReplies, Plain, Text
    <2>4. Serve(control, Plain("ok")) /\ obeyed \subseteq obeyed'
      BY <1>7 DEF Obey
    <2>5. QED
      BY <2>1, <2>2, <2>3, <2>4, FreshServe
  <1>8. ASSUME NEW control \in Controls, Refuse(control)
        PROVE  Fresh'
    <2>1. PICK kind \in Refusals : Serve(control, Plain(kind))
      BY <1>8 DEF Refuse
    <2>2. Plain(kind) \in FreshReplies
      BY CallsAssumption DEF Plain, Text, FreshReplies, Texts, StartsOk
    <2>3. QED
      BY <1>2, <1>8, <2>1, <2>2 DEF Refuse, FreshReplies
  <1>9. QED
    BY <1>1, <1>3, <1>4, <1>5, <1>6, <1>7, <1>8 DEF Printer

LEMMA FreshNext ==
    ASSUME TypeOK, Single, Fresh, [Next]_vars
    PROVE  Fresh'
  <1>1. CASE UNCHANGED vars
    BY <1>1 DEF vars, wireVars, printVars, callVars, historyVars, Fresh,
       FreshRequests, FreshReplies, Printed, History, Stage, StateIsRecent,
       Datagrams, Texts, StartsOk
  <1>2. CASE Network
    <2>1. \A r \in FreshRequests : r.kind # "block"
      BY DEF FreshRequests, Datagrams, Requests, Controls
    <2>2. requests' \in Seq(FreshRequests) /\ replies' \in Seq(FreshReplies)
      BY <1>2, <2>1, FaultOver DEF Fresh, Network
    <2>3. FreshRequests' = FreshRequests /\ FreshReplies' = FreshReplies
      BY <1>2 DEF Network, printVars, callVars, FreshRequests, FreshReplies,
         Printed, Datagrams, Texts, StartsOk
    <2>4. QED
      BY <1>2, <2>2, <2>3 DEF Network, printVars, callVars, Fresh, Printed,
         History, Stage, StateIsRecent
  <1>3. CASE Terminated
    BY <1>1, <1>3 DEF Terminated
  <1>4. QED
    BY <1>1, <1>2, <1>3, FreshBegin, FreshAsk, FreshClient, FreshPrinter
       DEF Next, Calls

LEMMA FreshAlways == Spec => [](TypeOK /\ Orderly /\ Single /\ Fresh)
  <1>1. Init => TypeOK /\ Orderly /\ Single /\ Fresh
    BY TypeInit, OrderInit, FreshInit
  <1>2. TypeOK /\ Orderly /\ Single /\ Fresh /\ [Next]_vars =>
            (TypeOK /\ Orderly /\ Single /\ Fresh)'
    BY TypeNext, OrderNext, FreshNext
  <1>3. QED
    BY <1>1, <1>2, PTL DEF Spec

\* For every printer and network: a state that is reported was the printer's
\* since the client was opened.
THEOREM RecentState == Spec => []StateIsRecent
  <1>1. Fresh => StateIsRecent
    BY DEF Fresh
  <1>2. QED
    BY <1>1, FreshAlways, PTL

\* For every printer and network: nothing that happens to the name query
\* takes the status of the print away.
THEOREM StatusIsKept == Spec => StatusSurvivesName
  <1>1. ASSUME TypeOK, Fresh, [Next]_vars, pc = "name", pc' # "name"
        PROVE  verdict' = "read" /\ reading'.state = "Printing"
    <2>1. reading.state = "Printing"
      BY <1>1 DEF Fresh, Stage
    <2>2. pc # "ended" /\ pc # "hello" /\ pc # "status" /\ pc # "firmware"
          /\ pc \notin Controls
      BY <1>1 DEF Controls
    <2>3. \A kind, reply : ~Serve(kind, reply)
      BY <1>1 DEF Serve, callVars
    <2>4. CASE NameReply
      BY <1>1, <2>1, <2>4 DEF NameReply, End, TypeOK
    <2>5. CASE GiveUp
      BY <1>1, <2>1, <2>5 DEF GiveUp, End, Unanswered
    <2>6. QED
      BY <1>1, <2>2, <2>3, <2>4, <2>5 DEF Next, vars, Begin, Ask, Client, Send,
         HelloReply, StatusReply, FirmwareReply, ControlReply, Printer,
         PanelOrEnd, AnswerHello, AnswerStatus, AnswerName, AnswerFirmware,
         Obey, Refuse, Network, Terminated, callVars
  <1>2. QED
    BY <1>1, FreshAlways, PTL DEF Spec, StatusSurvivesName

(***************************************************************************)
(* What is made of them                                                    *)
(***************************************************************************)

Told ==
    /\ reading.file = Encoding => faults > 0
    /\ ConfirmedIsObeyed

\* Nothing is told, and faults are never taken back.
LEMMA ToldKept ==
    ASSUME Told, faults > 0 => faults' > 0, UNCHANGED <<reading, verdict>>,
           UNCHANGED <<call, spare>>, obeyed \subseteq obeyed'
    PROVE  Told'
  <1>1. reading'.file = Encoding => faults' > 0
    BY DEF Told
  <1>2. ConfirmedIsObeyed'
    BY DEF Told, ConfirmedIsObeyed
  <1>3. QED
    BY <1>1, <1>2 DEF Told

LEMMA ToldClient ==
    ASSUME TypeOK, Fresh, Orderly, Told, Client
    PROVE  Told'
  <1>1. UNCHANGED <<faults, call, spare, obeyed>>
    BY DEF Client, Send, HelloReply, StatusReply, NameReply, FirmwareReply,
       ControlReply, GiveUp, Receive, wireVars, printVars, historyVars
  <1>2. pc # "ended" => verdict = "none" /\ reading.file = Nothing
    BY DEF Fresh, Stage
  <1>3. ASSUME reading'.file # Encoding, verdict' # "confirmed"
        PROVE  Told'
    BY <1>3 DEF Told, ConfirmedIsObeyed
  <1>4. ASSUME Receive
        PROVE  /\ Head(replies) \in FreshReplies
               /\ faults = 0 /\ pc = "name" => Head(replies).kind \notin HelloReplies
    <2>1. Head(replies) \in FreshReplies
      BY <1>4, FreshReceive
    <2>2. replies \in Seq(Texts) /\ replies # <<>> /\ requests \in Seq(Datagrams)
          /\ Head(replies) = replies[1]
      BY <1>4, TailIndices DEF Receive, TypeOK
    <2>3. ASSUME NoHellos(requests, socket, replies)
          PROVE  ~Greets(replies, 1)
      BY <2>2, <2>3, TailIndices DEF NoHellos
    <2>4. faults = 0 /\ pc = "name" => NoHellos(requests, socket, replies)
      BY DEF Orderly
    <2>5. QED
      BY <2>1, <2>2, <2>3, <2>4 DEF Greets
  <1>5. CASE Send
    BY <1>2, <1>3, <1>5, CallsAssumption DEF Send
  <1>6. CASE HelloReply
    BY <1>2, <1>3, <1>6, CallsAssumption DEF HelloReply, End
  <1>7. CASE StatusReply
    <2>1. pc = "status" /\ reading'.file = reading.file
      BY <1>7 DEF StatusReply, TypeOK
    <2>2. verdict' # "confirmed"
      BY <1>2, <1>7, <2>1 DEF StatusReply, End
    <2>3. QED
      BY <1>2, <1>3, <2>1, <2>2, CallsAssumption
  <1>8. CASE NameReply
    <2>1. Receive /\ pc = "name" /\ verdict' = "read"
      BY <1>8 DEF NameReply, End
    <2>2. ASSUME reading'.file = Encoding PROVE faults > 0
      <3>1. ~IsError(Head(replies))
        BY <1>2, <1>8, <2>1, <2>2, CallsAssumption DEF NameReply
      <3>2. Quoted(Head(replies)) = Encoding
        BY <1>8, <2>2, <3>1 DEF NameReply, TypeOK
      <3>3. Head(replies) \in Texts
        BY <1>4, <2>1 DEF FreshReplies
      <3>4. Head(replies).file # Encoding
        BY <3>3, CallsAssumption DEF Texts
      <3>5. Head(replies).kind \in HelloReplies
        BY <3>2, <3>4, CallsAssumption DEF Quoted
      <3>6. faults # 0
        BY <1>4, <2>1, <3>5, Zenon
      <3>7. QED
        BY <3>6 DEF TypeOK
    <2>3. QED
      BY <1>1, <2>1, <2>2 DEF Told, ConfirmedIsObeyed
  <1>9. CASE FirmwareReply
    BY <1>2, <1>3, <1>9, CallsAssumption DEF FirmwareReply, End
  <1>10. CASE ControlReply
    <2>1. Receive /\ pc \in Controls /\ pc # "ended" /\ UNCHANGED reading
      BY <1>10 DEF ControlReply, Controls
    <2>2. reading'.file # Encoding
      BY <1>2, <2>1, CallsAssumption
    <2>3. call \in Controls
      BY <2>1 DEF Fresh, Stage
    <2>4. ASSUME verdict' = "confirmed"
          PROVE  call \in obeyed \/ spare
      <3>1. StartsOk(Head(replies))
        BY <1>2, <1>10, <2>1, <2>4 DEF ControlReply, End, Confirms
      <3>2. QED
        BY <1>4, <2>1, <2>3, <3>1 DEF FreshReplies
    <2>5. ConfirmedIsObeyed'
      BY <1>1, <2>4 DEF ConfirmedIsObeyed
    <2>6. QED
      BY <2>2, <2>5 DEF Told
  <1>11. CASE GiveUp
    <2>1. pc # "ended" /\ UNCHANGED reading
      BY <1>11 DEF GiveUp, WaitEnds
    <2>2. verdict' # "confirmed"
      BY <1>11 DEF GiveUp, End, Unanswered
    <2>3. QED
      BY <1>2, <1>3, <2>1, <2>2, CallsAssumption
  <1>12. QED
    BY <1>5, <1>6, <1>7, <1>8, <1>9, <1>10, <1>11 DEF Client

LEMMA ToldNext ==
    ASSUME TypeOK, Fresh, Orderly, Told, [Next]_vars
    PROVE  Told'
  <1>1. CASE UNCHANGED vars
    BY <1>1 DEF vars, wireVars, callVars, historyVars, Told, ConfirmedIsObeyed
  <1>2. CASE Network
    <2>1. faults > 0 => faults' > 0
      BY <1>2, WireAssumption DEF Network, Fault, LoseRequest, LoseReply,
         DuplicateReply, ReorderRequests, ReorderReplies, CorruptBlock, Commit,
         TypeOK
    <2>2. QED
      BY <1>2, <2>1, ToldKept DEF Network, callVars
  <1>3. CASE Terminated
    BY <1>1, <1>3 DEF Terminated
  <1>4. ASSUME NEW what \in Calls, Begin(what)
        PROVE  Told'
    <2>1. reading'.file # Encoding /\ verdict' # "confirmed"
      BY <1>4, CallsAssumption DEF Begin, Unread
    <2>2. QED
      BY <2>1 DEF Told, ConfirmedIsObeyed
  <1>5. ASSUME NEW what \in Methods, Ask(what)
        PROVE  Told'
    <2>1. /\ reading' = reading /\ faults' = faults /\ verdict' # "confirmed"
      BY <1>5 DEF Ask, wireVars
    <2>2. QED
      BY <2>1 DEF Told, ConfirmedIsObeyed
  <1>6. CASE Printer
    <2>1. /\ UNCHANGED <<faults, reading, verdict, call, spare>>
          /\ obeyed \subseteq obeyed'
      <3>1. ASSUME NEW kind, NEW reply, Serve(kind, reply), obeyed \subseteq obeyed'
            PROVE  /\ UNCHANGED <<faults, reading, verdict, call, spare>>
                   /\ obeyed \subseteq obeyed'
        BY <3>1 DEF Serve, callVars
      <3>2. CASE PanelOrEnd
        BY <3>2 DEF PanelOrEnd, wireVars, callVars
      <3>3. CASE AnswerHello \/ AnswerStatus \/ AnswerName \/ AnswerFirmware
        BY <3>1, <3>3 DEF AnswerHello, AnswerStatus, AnswerName, AnswerFirmware
      <3>4. ASSUME NEW control \in Controls, Obey(control) \/ Refuse(control)
            PROVE  /\ UNCHANGED <<faults, reading, verdict, call, spare>>
                   /\ obeyed \subseteq obeyed'
        BY <3>1, <3>4 DEF Obey, Refuse
      <3>5. QED
        BY <1>6, <3>2, <3>3, <3>4 DEF Printer
    <2>2. QED
      BY <2>1, ToldKept
  <1>7. QED
    BY <1>1, <1>2, <1>3, <1>4, <1>5, <1>6, ToldClient DEF Next, Calls

LEMMA ToldAlways == Spec => [](Fresh /\ Told)
  <1>1. Init => Told
    BY CallsAssumption DEF Init, Unread, Told, ConfirmedIsObeyed
  <1>2. TypeOK /\ Orderly /\ Fresh /\ Told /\ [Next]_vars => Told'
    BY ToldNext
  <1>3. QED
    BY <1>1, <1>2, FreshAlways, PTL DEF Spec

\* For every printer and network: a file name that is reported is that of a
\* print since the poll began, unless the network reordered or repeated.
THEOREM RecentName == Spec => []NameIsRecent
  <1>1. Fresh /\ Told => NameIsRecent
    BY DEF Fresh, Told, NameIsRecent
  <1>2. QED
    BY <1>1, ToldAlways, PTL

\* For every printer, network and sequence of calls: what is confirmed has been
\* obeyed, unless an earlier call of the same client left an answer to spare.
THEOREM ConfirmationsHold == Spec => []ConfirmedIsObeyed
  <1>1. Told => ConfirmedIsObeyed
    BY DEF Told
  <1>2. QED
    BY <1>1, ToldAlways, PTL
=============================================================================
