------------------------- MODULE UploadSystemProof --------------------------
(***************************************************************************)
(* UploadSystem for all values of the constants: every variable keeps to   *)
(* its type, each part of the inductive invariant is kept by every step,   *)
(* and the properties the runs check follow from the parts.                *)
(***************************************************************************)
EXTENDS UploadSystem, SequenceTheorems, TLAPS

-----------------------------------------------------------------------------
(***************************************************************************)
(* Types.  One lemma per part of the system, one step per action.          *)
(***************************************************************************)

\* The message at the head of a request queue is one of the kinds sent.
LEMMA HeadRequest ==
    ASSUME requests \in Seq(Requests), requests # <<>>
    PROVE  /\ Head(requests) \in Requests
           /\ Tail(requests) \in Seq(Requests)
  BY HeadTailProperties

LEMMA HeadReply ==
    ASSUME replies \in Seq(Replies), replies # <<>>
    PROVE  /\ Head(replies) \in Replies
           /\ Tail(replies) \in Seq(Replies)
  BY HeadTailProperties

\* A request of kind "block" carries an offset and data.
LEMMA BlockShape ==
    ASSUME NEW r \in Requests, r.kind = "block"
    PROVE  r \in [kind : {"block"}, offset : 0 .. Total - 1, data : Seq(Int),
                  sound : BOOLEAN]
  BY DEF Requests, CommandKinds

LEMMA SplicedFields ==
    ASSUME NEW old \in [kind : {"block"}, offset : 0 .. Total - 1,
                        data : Seq(Int), sound : BOOLEAN],
           NEW at \in 0 .. Total - 1, NEW bytes \in Seq(Int), NEW new,
           new = [old EXCEPT !.offset = at, !.data = bytes]
    PROVE  new \in Requests /\ new.kind = "block" /\ new.data = bytes
  <1>1. /\ new.kind = "block" /\ new.data = bytes
        /\ new.offset = at /\ new.sound = old.sound
    OBVIOUS
  <1>2. new \in [kind : {"block"}, offset : 0 .. Total - 1, data : Seq(Int),
                 sound : BOOLEAN]
    BY <1>1
  <1>3. QED
    BY <1>1, <1>2 DEF Requests

\* A spliced block keeps its kind and its length, and nothing of its bytes.
LEMMA SplicedOne ==
    ASSUME requests \in Seq(Requests), SpliceBlock
    PROVE  \E i \in DOMAIN requests, new \in Requests :
               /\ requests[i].kind = "block"
               /\ new.kind = "block"
               /\ new.data \in Seq(Int)
               /\ Len(new.data) = Len(requests[i].data)
               /\ \A k \in DOMAIN new.data : new.data[k] = SplicedByte
               /\ requests' = [requests EXCEPT ![i] = new]
               /\ requests' \in Seq(Requests)
               /\ Len(requests') = Len(requests)
               /\ DOMAIN requests' = DOMAIN requests
               /\ requests'[i] = new
               /\ \A j \in DOMAIN requests : j # i => requests'[j] = requests[j]
  <1>1. PICK i \in DOMAIN requests, at \in 0 .. Total - 1 :
            /\ requests[i].kind = "block"
            /\ requests' = [requests EXCEPT ![i] = Spliced(requests[i], at)]
    BY DEF SpliceBlock
  <1> DEFINE old == requests[i]
             bytes == [k \in DOMAIN old.data |-> SplicedByte]
             new == Spliced(old, at)
  <1>2. i \in 1 .. Len(requests) /\ old \in Requests
    BY ElementOfSeq, LenProperties
  <1>3. old \in [kind : {"block"}, offset : 0 .. Total - 1, data : Seq(Int),
                 sound : BOOLEAN]
    BY <1>1, <1>2, BlockShape
  <1>4. bytes \in Seq(Int) /\ Len(bytes) = Len(old.data)
    <2>1. /\ old.data \in Seq(Int) /\ Len(old.data) \in Nat
          /\ DOMAIN old.data = 1 .. Len(old.data)
      BY <1>3, LenProperties
    <2>2. bytes = [k \in 1 .. Len(old.data) |-> SplicedByte]
      BY <2>1
    <2>3. QED
      BY <2>1, <2>2 DEF SplicedByte
  <1>5. new = [old EXCEPT !.offset = at, !.data = bytes]
    BY DEF Spliced
  <1> HIDE DEF old, new, bytes
  <1>6. new \in Requests /\ new.kind = "block" /\ new.data = bytes
    BY <1>3, <1>4, <1>5, SplicedFields
  <1>7. /\ [requests EXCEPT ![i] = new] \in Seq(Requests)
        /\ Len([requests EXCEPT ![i] = new]) = Len(requests)
    BY <1>2, <1>6, ExceptSeq
  <1>8. requests' = [requests EXCEPT ![i] = new]
    BY <1>1 DEF old, new
  <1>9. \A k \in DOMAIN new.data : new.data[k] = SplicedByte
    BY <1>6 DEF bytes
  <1>10. /\ DOMAIN requests' = DOMAIN requests
         /\ requests'[i] = new
         /\ \A j \in DOMAIN requests : j # i => requests'[j] = requests[j]
    BY <1>8
  <1>11. old.kind = "block" /\ Len(new.data) = Len(old.data)
    BY <1>3, <1>4, <1>6
  <1>12. QED
    BY <1>4, <1>6, <1>7, <1>8, <1>9, <1>10, <1>11 DEF old

\* Exchanging two neighbours of a sequence over S gives a sequence over S.
LEMMA SwappedType ==
    ASSUME NEW S, NEW q \in Seq(S), NEW i \in 1 .. Len(q) - 1
    PROVE  /\ Swapped(q, i) \in Seq(S)
           /\ Len(Swapped(q, i)) = Len(q)
  <1>1. i \in 1 .. Len(q) /\ i + 1 \in 1 .. Len(q)
    BY LenProperties
  <1>2. q[i] \in S /\ q[i + 1] \in S
    BY <1>1, ElementOfSeq
  <1>3. [q EXCEPT ![i] = q[i + 1]] \in Seq(S)
    BY <1>1, <1>2, ExceptSeq
  <1>4. Len([q EXCEPT ![i] = q[i + 1]]) = Len(q)
    BY <1>1, <1>2, ExceptSeq
  <1>5. /\ [[q EXCEPT ![i] = q[i + 1]] EXCEPT ![i + 1] = q[i]] \in Seq(S)
        /\ Len([[q EXCEPT ![i] = q[i + 1]] EXCEPT ![i + 1] = q[i]]) = Len(q)
    BY <1>1, <1>2, <1>3, <1>4, ExceptSeq
  <1>6. QED
    BY <1>5 DEF Swapped

LEMMA TypeInit == Init => TypeOK
  <1> SUFFICES ASSUME Init PROVE TypeOK
    OBVIOUS
  <1> USE ClientAssumption, WireAssumption, PrinterAssumption DEF
      ClientAssumption, WireAssumption, PrinterAssumption
  <1>1. uploaded \in Seq(Int)
    <2>1. PICK size \in OldSizes : uploaded = [i \in 1 .. size |-> OldByte]
      BY DEF Init, PrinterInit
    <2>2. size \in Nat /\ OldByte \in Int
      BY DEF OldByte
    <2>3. QED
      BY <2>1, <2>2, IsASeq
  <1>2. /\ requests \in Seq(Requests)
        /\ replies \in Seq(Replies)
        /\ responses \in Seq(Replies)
    BY DEF Init, WireInit, ClientInit
  <1>3. /\ faults \in 0 .. MaxFaults
        /\ attempt \in 0 .. Retries
        /\ chunk \in 0 .. BlockSize
        /\ resends \in 0 .. MaxResends
        /\ offset \in Nat
        /\ localLen \in Nat
    BY DEF Init, WireInit, ClientInit
  <1>4. sentAt \in [0 .. Total - 1 -> Nat]
    BY DEF Init, ClientInit
  <1>5. /\ pc \in Phases
        /\ offset < Total
        /\ result \in Verdicts
        /\ lastSent \in CommandKinds \cup {"block", "nothing"}
    BY DEF Init, ClientInit, Phases, Verdicts, CommandKinds
  <1>6. created \in BOOLEAN /\ remoteOpen \in BOOLEAN
    <2>1. PICK size \in OldSizes : created = (size > 0)
      BY DEF Init, PrinterInit
    <2>2. created \in BOOLEAN
      <3>1. CASE size > 0
        BY <2>1, <3>1, Zenon
      <3>2. CASE ~(size > 0)
        BY <2>1, <3>2
      <3>3. QED
        BY <3>1, <3>2
    <2>3. QED
      BY <2>2 DEF Init, PrinterInit
  <1>7. QED
    BY <1>1, <1>2, <1>3, <1>4, <1>5, <1>6 DEF TypeOK

LEMMA TypeNetwork == TypeOK /\ Network => TypeOK'
  <1> SUFFICES ASSUME TypeOK, Network PROVE TypeOK'
    OBVIOUS
  <1> USE WireAssumption DEF WireAssumption, TypeOK, Network, clientVars, printerVars, Commit
  <1>1. CASE LoseRequest
    BY <1>1, HeadRequest DEF LoseRequest
  <1>2. CASE LoseReply
    BY <1>2, HeadReply DEF LoseReply
  <1>3. CASE DuplicateReply
    BY <1>3, HeadReply, AppendProperties DEF DuplicateReply
  <1>4. CASE ReorderRequests
    BY <1>4, SwappedType DEF ReorderRequests
  <1>5. CASE ReorderReplies
    BY <1>5, SwappedType DEF ReorderReplies
  <1>6. CASE CorruptBlock
    <2>1. PICK i \in DOMAIN requests :
             /\ requests[i].kind = "block"
             /\ requests' = [requests EXCEPT ![i].sound = FALSE]
      BY <1>6 DEF CorruptBlock
    <2>2. requests[i] \in Requests /\ i \in 1 .. Len(requests)
      BY ElementOfSeq, LenProperties
    <2>3. [requests[i] EXCEPT !.sound = FALSE] \in Requests
      BY <2>1, <2>2, BlockShape DEF Requests
    <2>4. requests' \in Seq(Requests)
      BY <2>1, <2>2, <2>3, ExceptSeq
    <2>5. QED
      BY <1>6, <2>4 DEF CorruptBlock
  <1>7. CASE SpliceBlock
    <2>1. requests' \in Seq(Requests)
      BY <1>7, SplicedOne
    <2>2. QED
      BY <1>7, <2>1 DEF SpliceBlock
  <1>8. QED
    BY <1>1, <1>2, <1>3, <1>4, <1>5, <1>6, <1>7 DEF Fault

\* What an answer appends, and what writing into a file gives.
LEMMA MessageType ==
    ASSUME NEW kind \in AnyReply, NEW n \in Nat
    PROVE  Message(kind, n) \in Replies
  BY DEF Message, Replies

LEMMA WriteAtLen ==
    ASSUME NEW file \in Seq(Int), NEW at \in Nat, NEW data \in Seq(Int)
    PROVE  /\ WriteAt(file, at, data) \in Seq(Int)
           /\ Len(WriteAt(file, at, data)) =
                 IF at + Len(data) > Len(file) THEN at + Len(data)
                 ELSE Len(file)
  <1> DEFINE new == IF at + Len(data) > Len(file) THEN at + Len(data)
                    ELSE Len(file)
             byte(i) == IF i > at /\ i <= at + Len(data) THEN data[i - at]
                        ELSE IF i <= Len(file) THEN file[i]
                        ELSE ZeroByte
  <1>1. new \in Nat /\ Len(data) \in Nat /\ Len(file) \in Nat
    BY LenProperties
  <1>2. \A i \in 1 .. new : byte(i) \in Int
    <2> SUFFICES ASSUME NEW i \in 1 .. new PROVE byte(i) \in Int
      OBVIOUS
    <2>1. CASE i > at /\ i <= at + Len(data)
      <3>1. i - at \in 1 .. Len(data)
        BY <1>1, <2>1
      <3>2. data[i - at] \in Int
        BY <3>1, ElementOfSeq
      <3>3. QED
        BY <2>1, <3>2
    <2>2. CASE ~(i > at /\ i <= at + Len(data)) /\ i <= Len(file)
      <3>1. file[i] \in Int
        BY <1>1, <2>2, ElementOfSeq
      <3>2. QED
        BY <2>2, <3>1
    <2>3. CASE ~(i > at /\ i <= at + Len(data)) /\ ~(i <= Len(file))
      BY <2>3 DEF ZeroByte
    <2>4. QED
      BY <2>1, <2>2, <2>3
  <1>3. WriteAt(file, at, data) = [i \in 1 .. new |-> byte(i)]
    BY DEF WriteAt
  <1> HIDE DEF new, byte
  <1>4. [i \in 1 .. new |-> byte(i)] \in Seq(Int)
    BY <1>1, <1>2
  <1>5. Len([i \in 1 .. new |-> byte(i)]) = new
    BY <1>1, <1>4, LenProperties
  <1>6. QED
    BY <1>3, <1>4, <1>5 DEF new

LEMMA TypePrinter == TypeOK /\ Remote => TypeOK'
  <1> SUFFICES ASSUME TypeOK, Remote PROVE TypeOK'
    OBVIOUS
  <1> USE PrinterAssumption DEF PrinterAssumption, TypeOK, Remote, clientVars,
          printerVars, Serve, Reply
  <1>1. ASSUME NEW kind \in AnyReply, NEW n \in Nat,
               replies' = Append(replies, Message(kind, n))
        PROVE  replies' \in Seq(Replies)
    BY <1>1, MessageType, AppendProperties
  <1>2. Len(uploaded) \in Nat
    BY LenProperties
  <1>3. CASE HandleHello
    BY <1>1, <1>3, HeadRequest DEF HandleHello, AnyReply
  <1>4. CASE HandleCreate
    BY <1>1, <1>4, HeadRequest DEF HandleCreate, AnyReply
  <1>5. CASE RefuseCreate
    BY <1>1, <1>5, HeadRequest DEF RefuseCreate, AnyReply
  <1>6. CASE HandleSave
    BY <1>1, <1>6, HeadRequest DEF HandleSave, AnyReply
  <1>7. CASE RejectBlock
    BY <1>1, <1>7, HeadRequest DEF RejectBlock, AnyReply
  <1>8. CASE AskResend
    BY <1>1, <1>8, HeadRequest DEF AskResend, AnyReply
  <1>9. CASE AskMissing
    BY <1>1, <1>2, <1>9, HeadRequest DEF AskMissing, AnyReply
  <1>10. CASE StoreBlock
    <2>1. Head(requests) \in Requests /\ Head(requests).kind = "block"
      BY <1>10, HeadRequest DEF StoreBlock
    <2>2. Head(requests).offset \in Nat /\ Head(requests).data \in Seq(Int)
      BY <2>1, BlockShape, ClientAssumption DEF ClientAssumption
    <2>3. uploaded' \in Seq(Int)
      BY <1>10, <2>2, WriteAtLen DEF StoreBlock
    <2>4. QED
      BY <1>1, <1>10, <2>3, HeadRequest DEF StoreBlock, AnyReply
  <1>11. CASE HandleFileList
    <2>1. Listing \in Seq(Replies)
      BY <1>2, MessageType DEF Listing, AnyReply
    <2>2. replies' \in Seq(Replies)
      <3>1. CASE replies' = replies \o Listing
        BY <2>1, <3>1, ConcatProperties
      <3>2. ASSUME NEW kind \in StaleReplies,
                   replies' = Append(replies, Message(kind, 0)) \o Listing
            PROVE  replies' \in Seq(Replies)
        <4>1. Message(kind, 0) \in Replies
          BY MessageType DEF AnyReply
        <4>2. QED
          BY <2>1, <3>2, <4>1, AppendProperties, ConcatProperties
      <3>3. QED
        BY <1>11, <3>1, <3>2 DEF HandleFileList
    <2>3. QED
      BY <1>11, <2>2, HeadRequest DEF HandleFileList
  <1>12. QED
    BY <1>3, <1>4, <1>5, <1>6, <1>7, <1>8, <1>9, <1>10, <1>11 DEF Printer

\* At least one attempt, at most Retries of them, whatever the phase.
LEMMA AttemptsRange == AttemptsIn(pc) \in 1 .. Retries
  BY ClientAssumption DEF ClientAssumption, AttemptsIn, BlockRetries

LEMMA ReadableRange ==
    ASSUME localLen \in Nat, NEW o \in Nat
    PROVE  Readable(o) \in 0 .. BlockSize
  BY ClientAssumption DEF ClientAssumption, Readable

LEMMA BlockType ==
    ASSUME NEW o \in 0 .. Total - 1, NEW n \in Nat
    PROVE  Block(o, n) \in Requests
  <1>1. [i \in 1 .. n |-> o + i - 1] \in Seq(Int)
    BY ClientAssumption DEF ClientAssumption
  <1>2. QED
    BY <1>1 DEF Block, Requests

LEMMA CommandType ==
    ASSUME pc \in DOMAIN CommandOf
    PROVE  /\ CommandOf[pc] \in CommandKinds
           /\ [kind |-> CommandOf[pc]] \in Requests
  <1>1. CommandOf[pc] \in CommandKinds
    BY DEF CommandOf, CommandKinds
  <1>2. QED
    BY <1>1 DEF Requests

\* What sending does to the wire and the attempt count.
LEMMA TransmitType ==
    ASSUME TypeOK, NEW d \in Requests, Transmit(d)
    PROVE  /\ requests' \in Seq(Requests)
           /\ replies' \in Seq(Replies)
           /\ attempt' \in 0 .. Retries
  <1> USE DEF TypeOK, Transmit
  <1>1. requests' \in Seq(Requests)
    BY AppendProperties
  <1>2. replies' \in Seq(Replies)
    <2>1. ASSUME NEW n \in 0 .. Len(replies)
          PROVE  SubSeq(replies, n + 1, Len(replies)) \in Seq(Replies)
      BY SubSeqProperties, LenProperties
    <2>2. QED
      BY <2>1
  <1>3. attempt' \in 0 .. Retries
    BY AttemptsRange, ClientAssumption DEF ClientAssumption
  <1>4. QED
    BY <1>1, <1>2, <1>3

LEMMA ReceiveType ==
    ASSUME TypeOK, NEW kinds, Receive(kinds)
    PROVE  /\ Head(replies) \in Replies
           /\ replies' \in Seq(Replies)
           /\ requests' = requests
           /\ faults' = faults
           /\ localLen' = localLen
           /\ chunk' = chunk
           /\ sentAt' = sentAt
           /\ lastSent' = lastSent
  BY HeadReply DEF TypeOK, Receive, historyVars

LEMMA FailType ==
    ASSUME TypeOK, NEW v \in Verdicts, Fail(v)
    PROVE  /\ pc' \in Phases
           /\ pc' \notin {"connect", "create", "block"}
           /\ attempt' \in 0 .. Retries
           /\ result' \in Verdicts
           /\ offset' = offset
           /\ resends' = resends
           /\ responses' = responses
  BY ClientAssumption DEF ClientAssumption, TypeOK, Fail, Unwinds, Phases,
     progressVars

LEMMA ProceedType ==
    ASSUME TypeOK, NEW phase \in Phases, Proceed(phase)
    PROVE  /\ pc' = phase
           /\ attempt' \in 0 .. Retries
           /\ result' = result
           /\ responses' = responses
  BY ClientAssumption DEF ClientAssumption, Proceed

LEMMA TypeSend ==
    TypeOK /\ (SendCommand \/ SendBlock) /\ UNCHANGED printerVars => TypeOK'
  <1> SUFFICES ASSUME TypeOK, SendCommand \/ SendBlock, UNCHANGED printerVars
               PROVE  TypeOK'
    OBVIOUS
  <1>1. CASE SendCommand
    <2>1. /\ requests' \in Seq(Requests)
          /\ replies' \in Seq(Replies)
          /\ attempt' \in 0 .. Retries
      BY <1>1, CommandType, TransmitType DEF SendCommand
    <2>2. lastSent' \in CommandKinds
      BY <1>1, CommandType DEF SendCommand
    <2>3. QED
      BY <1>1, <2>1, <2>2 DEF TypeOK, SendCommand, Transmit, progressVars,
         printerVars
  <1>2. CASE SendBlock
    <2>1. chunk' \in 0 .. BlockSize
      BY <1>2, ReadableRange DEF TypeOK, SendBlock
    <2>2. offset \in 0 .. Total - 1
      BY <1>2, ClientAssumption DEF ClientAssumption, TypeOK, SendBlock
    <2>3. Block(offset, chunk') \in Requests
      BY <2>1, <2>2, BlockType, ClientAssumption DEF ClientAssumption
    <2>4. /\ requests' \in Seq(Requests)
          /\ replies' \in Seq(Replies)
          /\ attempt' \in 0 .. Retries
      BY <1>2, <2>3, TransmitType DEF SendBlock
    <2>5. sentAt' \in [0 .. Total - 1 -> Nat]
      <3>1. sentAt \in [0 .. Total - 1 -> Nat] /\ sentAt[offset] + 1 \in Nat
        BY <2>2, ClientAssumption DEF ClientAssumption, TypeOK
      <3>2. sentAt' = [sentAt EXCEPT ![offset] = sentAt[offset] + 1]
        BY <1>2 DEF SendBlock
      <3>3. QED
        BY <2>2, <3>1, <3>2
    <2>6. QED
      BY <1>2, <2>1, <2>4, <2>5 DEF TypeOK, SendBlock, Transmit, progressVars,
         printerVars
  <1>3. QED
    BY <1>1, <1>2

LEMMA TypeReply ==
    TypeOK /\ ClientStep /\ UNCHANGED printerVars => TypeOK'
  <1> SUFFICES ASSUME TypeOK, ClientStep, UNCHANGED printerVars PROVE TypeOK'
    OBVIOUS
  <1> USE ClientAssumption DEF ClientAssumption, printerVars
  <1>1. CASE SendCommand \/ SendBlock
    BY <1>1, TypeSend
  <1>2. CASE FrameError
    BY <1>2, FailType DEF TypeOK, FrameError, Verdicts, wireVars, historyVars
  <1>3. CASE ConnectReply
    BY <1>3, ReceiveType, FailType, ProceedType
       DEF TypeOK, ConnectReply, Verdicts, Phases, progressVars
  <1>4. CASE CreateReply
    BY <1>4, ReceiveType, FailType, ProceedType
       DEF TypeOK, CreateReply, Verdicts, Phases, progressVars
  <1>5. CASE AcceptBlock
    BY <1>5, ReceiveType, ProceedType DEF TypeOK, AcceptBlock, Phases
  <1>6. CASE ObeyResend
    <2>1. Head(replies).n \in Nat
      BY <1>6, ReceiveType DEF ObeyResend, Replies
    <2>2. pc' = "block" /\ offset' \in Nat /\ offset' < Total
      BY <1>6, <2>1 DEF ObeyResend, Obeys, Proceed
    <2>3. resends' \in 0 .. MaxResends
      BY <1>6 DEF TypeOK, ObeyResend, Obeys
    <2>4. QED
      BY <1>6, <2>2, <2>3, ReceiveType, ProceedType
         DEF TypeOK, ObeyResend, Phases
  <1>7. CASE RefuseResend
    BY <1>7, ReceiveType, FailType DEF TypeOK, RefuseResend, Verdicts
  <1>8. CASE BlockRejected
    BY <1>8, ReceiveType, FailType DEF TypeOK, BlockRejected, Verdicts
  <1>9. CASE SaveReply
    BY <1>9, ReceiveType, FailType, ProceedType
       DEF TypeOK, SaveReply, Verdicts, Phases, progressVars
  <1>10. CASE CloseReply
    BY <1>10, ReceiveType, ProceedType
       DEF TypeOK, CloseReply, Phases, progressVars
  <1>11. CASE IgnoreStray
    BY <1>11, ReceiveType DEF TypeOK, IgnoreStray, progressVars
  <1>12. CASE CollectListing
    <2>1. responses' \in Seq(Replies)
      BY <1>12, ReceiveType, AppendProperties DEF TypeOK, CollectListing
    <2>2. QED
      BY <1>12, <2>1, ReceiveType DEF TypeOK, CollectListing, progressVars
  <1>13. CASE ListReply
    <2>1. responses' \in Seq(Replies)
      BY <1>13, ReceiveType, AppendProperties DEF TypeOK, ListReply
    <2>2. QED
      BY <1>13, <2>1, ReceiveType
         DEF TypeOK, ListReply, progressVars, Phases, Verdicts
  <1>14. CASE GiveUp
    BY <1>14, FailType, ProceedType
       DEF TypeOK, GiveUp, Verdicts, Phases, wireVars, historyVars,
           progressVars
  <1>15. QED
    BY <1>1, <1>2, <1>3, <1>4, <1>5, <1>6, <1>7, <1>8, <1>9, <1>10, <1>11,
       <1>12, <1>13, <1>14 DEF ClientStep

LEMMA TypeUser == TypeOK /\ User => TypeOK'
  <1> SUFFICES ASSUME TypeOK, User PROVE TypeOK'
    OBVIOUS
  <1>1. CASE Interrupt
    BY <1>1, FailType
       DEF TypeOK, User, Interrupt, Verdicts, wireVars, printerVars,
           historyVars
  <1>2. CASE EditLocal
    BY <1>2, ClientAssumption
       DEF ClientAssumption, TypeOK, User, EditLocal, wireVars, printerVars,
           progressVars, historyVars
  <1>3. QED
    BY <1>1, <1>2 DEF User

LEMMA TypeNext == TypeOK /\ [Next]_vars => TypeOK'
  <1> SUFFICES ASSUME TypeOK, [Next]_vars PROVE TypeOK'
    OBVIOUS
  <1>1. CASE Client
    BY <1>1, TypeReply DEF Client
  <1>2. CASE User
    BY <1>2, TypeUser
  <1>3. CASE Network
    BY <1>3, TypeNetwork
  <1>4. CASE Remote
    BY <1>4, TypePrinter
  <1>5. CASE Terminated \/ UNCHANGED vars
    BY <1>5 DEF Terminated, TypeOK, vars, wireVars, printerVars, clientVars
  <1>6. QED
    BY <1>1, <1>2, <1>3, <1>4, <1>5 DEF Next

\* The type invariant of the whole exchange, which also says that no block
\* is sent from beyond the end of the file, that no command is sent more
\* than Retries times and that no more than MaxResends resends are obeyed.
THEOREM TypeCorrect == Spec => []TypeOK
  <1>1. QED
    BY TypeInit, TypeNext, PTL DEF Spec

-----------------------------------------------------------------------------
(***************************************************************************)
(* Blocks are not sent again for a timeout.                                *)
(***************************************************************************)

LEMMA SendsInit == Init => SendsInv
  <1> SUFFICES ASSUME Init PROVE SendsInv
    OBVIOUS
  <1>1. /\ pc = "connect"
        /\ resends = 0
        /\ \A o \in 0 .. Total - 1 : sentAt[o] = 0
    BY DEF Init, ClientInit
  <1>2. QED
    BY <1>1 DEF SendsInv, SentOncePerResend

\* A step that leaves the client's position and the history alone.
LEMMA SendsIdle ==
    ASSUME SendsInv, UNCHANGED <<pc, attempt, offset, chunk, resends, sentAt>>
    PROVE  SendsInv'
  BY DEF SendsInv, SentOncePerResend

\* A step that leaves the sending phases with the history it had.
LEMMA SendsOver ==
    ASSUME SendsInv, pc' \notin {"connect", "create", "block"},
           UNCHANGED <<resends, sentAt>>
    PROVE  SendsInv'
  BY DEF SendsInv, SentOncePerResend

LEMMA SendsSend ==
    ASSUME TypeOK, SendsInv, SendCommand \/ SendBlock
    PROVE  SendsInv'
  <1>1. CASE SendCommand
    <2>1. pc # "block" /\ pc' = pc /\ UNCHANGED <<sentAt, resends>>
      BY <1>1 DEF SendCommand, Transmit, CommandOf, progressVars
    <2>2. QED
      BY <2>1 DEF SendsInv, SentOncePerResend
  <1>2. CASE SendBlock
    <2>1. /\ pc = "block" /\ attempt = 0
          /\ pc' = "block" /\ attempt' = 1
          /\ offset' = offset /\ resends' = resends
      BY <1>2 DEF SendBlock, Transmit, AttemptsIn, BlockRetries, TypeOK,
         progressVars
    <2>2. chunk' > 0
      BY <1>2, <2>1 DEF SendBlock, Framable
    <2>3. offset \in 0 .. Total - 1 /\ sentAt \in [0 .. Total - 1 -> Nat]
      BY <2>1, ClientAssumption DEF ClientAssumption, TypeOK
    <2>4. sentAt' = [sentAt EXCEPT ![offset] = sentAt[offset] + 1]
      BY <1>2 DEF SendBlock
    <2>5. \A o \in 0 .. Total - 1 :
             sentAt'[o] = IF o = offset THEN sentAt[o] + 1 ELSE sentAt[o]
      BY <2>3, <2>4
    <2>6. sentAt[offset] <= resends
      BY <2>1, <2>3 DEF SendsInv
    <2>7. resends \in Nat /\ \A o \in 0 .. Total - 1 : sentAt[o] \in Nat
      BY <2>3, ClientAssumption DEF ClientAssumption, TypeOK
    <2>8. SentOncePerResend'
      BY <2>1, <2>3, <2>5, <2>6, <2>7 DEF SendsInv, SentOncePerResend
    <2>9. \A o \in offset .. Total - 1 : sentAt'[o] <= resends \/ o = offset
      BY <2>1, <2>3, <2>5 DEF SendsInv
    <2>10. QED
      BY <2>1, <2>2, <2>8, <2>9 DEF SendsInv
  <1>3. QED
    BY <1>1, <1>2

LEMMA SendsReply ==
    ASSUME TypeOK, SendsInv, ClientStep
    PROVE  SendsInv'
  <1> USE DEF progressVars, historyVars
  <1>1. CASE SendCommand \/ SendBlock
    BY <1>1, SendsSend
  <1>2. CASE FrameError
    BY <1>2, SendsOver DEF FrameError, Fail, Unwinds
  <1>3. CASE ConnectReply
    BY <1>3 DEF ConnectReply, Receive, Fail, Proceed, Unwinds, SendsInv,
       SentOncePerResend
  <1>4. CASE CreateReply
    <2>1. CASE Fail("failed")
      BY <1>4, <2>1, SendsOver DEF CreateReply, Receive, Fail, Unwinds
    <2>2. CASE Proceed("block") /\ UNCHANGED progressVars
      <3>1. /\ pc' = "block" /\ attempt' = 0
            /\ UNCHANGED <<offset, resends, sentAt>>
            /\ \A o \in 0 .. Total - 1 : sentAt[o] = 0
        BY <1>4, <2>2 DEF CreateReply, Receive, Proceed, SendsInv
      <3>2. offset \in Nat /\ resends \in Nat /\ Total \in Nat
        BY ClientAssumption DEF ClientAssumption, TypeOK
      <3>3. QED
        BY <3>1, <3>2 DEF SendsInv, SentOncePerResend
    <2>3. QED
      BY <1>4, <2>1, <2>2 DEF CreateReply
  <1>5. CASE AcceptBlock
    <2>1. /\ pc = "block" /\ attempt > 0 /\ attempt' = 0
          /\ offset' = offset + chunk
          /\ UNCHANGED <<resends, sentAt>>
          /\ pc' \in {"block", "save"}
      BY <1>5 DEF AcceptBlock, Receive, Proceed
    <2>2. chunk > 0 /\ offset \in Nat /\ chunk \in Nat /\ Total \in Nat
      BY <2>1, ClientAssumption DEF ClientAssumption, TypeOK, SendsInv
    <2>3. \A o \in offset' .. Total - 1 :
             o \in offset .. Total - 1 /\ o # offset
      BY <2>1, <2>2
    <2>4. \A o \in offset' .. Total - 1 : sentAt'[o] <= resends'
      BY <2>1, <2>3 DEF SendsInv
    <2>5. QED
      BY <2>1, <2>4 DEF SendsInv, SentOncePerResend
  <1>6. CASE ObeyResend
    <2>1. /\ pc' = "block" /\ attempt' = 0
          /\ resends' = resends + 1
          /\ offset' \in Nat
          /\ sentAt' = sentAt
      BY <1>6, ReceiveType DEF ObeyResend, Receive, Proceed, Replies
    <2>2. resends \in Nat /\ Total \in Nat
          /\ \A o \in 0 .. Total - 1 : sentAt[o] \in Nat
      BY ClientAssumption DEF ClientAssumption, TypeOK
    <2>3. \A o \in 0 .. Total - 1 : sentAt'[o] <= resends'
      BY <2>1, <2>2 DEF SendsInv, SentOncePerResend
    <2>4. QED
      BY <2>1, <2>2, <2>3 DEF SendsInv, SentOncePerResend
  <1>7. CASE RefuseResend \/ BlockRejected
    BY <1>7, SendsOver DEF RefuseResend, BlockRejected, Receive, Fail, Unwinds
  <1>8. CASE SaveReply
    BY <1>8, SendsOver DEF SaveReply, Receive, Fail, Proceed, Unwinds
  <1>9. CASE CloseReply
    BY <1>9, SendsOver DEF CloseReply, Receive, Proceed
  <1>10. CASE IgnoreStray \/ CollectListing
    BY <1>10, SendsOver DEF IgnoreStray, CollectListing, Receive
  <1>11. CASE ListReply
    BY <1>11, SendsOver DEF ListReply, Receive
  <1>12. CASE GiveUp
    BY <1>12, SendsOver DEF GiveUp, Fail, Proceed, Unwinds
  <1>13. QED
    BY <1>1, <1>2, <1>3, <1>4, <1>5, <1>6, <1>7, <1>8, <1>9, <1>10, <1>11,
       <1>12 DEF ClientStep

LEMMA SendsNext == TypeOK /\ SendsInv /\ [Next]_vars => SendsInv'
  <1> SUFFICES ASSUME TypeOK, SendsInv, [Next]_vars PROVE SendsInv'
    OBVIOUS
  <1>1. CASE Client
    BY <1>1, SendsReply DEF Client
  <1>2. CASE User
    BY <1>2, SendsIdle, SendsOver
       DEF User, Interrupt, EditLocal, Fail, Unwinds, progressVars,
           historyVars
  <1>3. CASE Network \/ Remote
    BY <1>3, SendsIdle DEF Network, Remote, clientVars
  <1>4. CASE Terminated \/ UNCHANGED vars
    BY <1>4, SendsIdle DEF Terminated, vars, clientVars
  <1>5. QED
    BY <1>1, <1>2, <1>3, <1>4 DEF Next

\* "File blocks are transmitted once": whatever is lost, late, doubled or
\* reordered, a block is sent again only for a resend request.
THEOREM BlocksSentOnce == Spec => []SentOncePerResend
  <1>1. SendsInv => SentOncePerResend
    BY DEF SendsInv
  <1>2. QED
    BY TypeInit, TypeNext, SendsInit, SendsNext, <1>1, PTL DEF Spec

-----------------------------------------------------------------------------
(***************************************************************************)
(* A failed upload tries to close the file.                                *)
(***************************************************************************)

LEMMA ClosingInit == Init => ClosingInv
  BY DEF Init, ClientInit, ClosingInv, FailureCloses

\* A step that sends nothing and stays where it is.
LEMMA ClosingIdle ==
    ASSUME ClosingInv, UNCHANGED <<pc, attempt, result, lastSent>>
    PROVE  ClosingInv'
  BY DEF ClosingInv, FailureCloses

\* An error before the end of the try block leads to a close not yet sent.
LEMMA ClosingFail ==
    ASSUME ClosingInv, NEW verdict, Fail(verdict), UNCHANGED lastSent,
           pc \in {"connect", "create", "block", "save", "verify"}
    PROVE  ClosingInv'
  <1>1. CASE pc \in {"block", "save"}
    BY <1>1 DEF ClosingInv, FailureCloses, Fail, Unwinds
  <1>2. CASE pc \in {"connect", "create", "verify"}
    BY <1>2 DEF ClosingInv, FailureCloses, Fail, Unwinds
  <1>3. QED
    BY <1>1, <1>2

LEMMA ClosingClient ==
    ASSUME TypeOK, ClosingInv, ClientStep
    PROVE  ClosingInv'
  <1> USE DEF historyVars
  <1>1. CASE SendCommand
    <2>1. /\ pc \in {"connect", "create", "save", "verify", "close"}
          /\ pc' = pc /\ lastSent' # "block"
      BY <1>1 DEF SendCommand, Transmit, CommandOf
    <2>2. QED
      BY <2>1 DEF ClosingInv, FailureCloses
  <1>2. CASE SendBlock
    BY <1>2 DEF SendBlock, Transmit, ClosingInv, FailureCloses
  <1>3. CASE FrameError \/ RefuseResend \/ BlockRejected
    BY <1>3, ClosingFail DEF FrameError, RefuseResend, BlockRejected, Receive
  <1>4. CASE ConnectReply
    BY <1>4, ClosingFail DEF ConnectReply, Receive, Proceed, ClosingInv,
       FailureCloses
  <1>5. CASE CreateReply
    BY <1>5, ClosingFail DEF CreateReply, Receive, Proceed, ClosingInv,
       FailureCloses
  <1>6. CASE AcceptBlock \/ ObeyResend
    BY <1>6 DEF AcceptBlock, ObeyResend, Receive, Proceed, ClosingInv,
       FailureCloses
  <1>7. CASE SaveReply
    BY <1>7, ClosingFail DEF SaveReply, Receive, Proceed, ClosingInv,
       FailureCloses
  <1>8. CASE CloseReply
    BY <1>8 DEF CloseReply, Receive, Proceed, ClosingInv, FailureCloses
  <1>9. CASE IgnoreStray \/ CollectListing
    BY <1>9, ClosingIdle DEF IgnoreStray, CollectListing, Receive
  <1>10. CASE ListReply
    BY <1>10 DEF ListReply, Receive, ClosingInv, FailureCloses
  <1>11. CASE GiveUp
    <2>1. attempt > 0 /\ pc # "done" /\ UNCHANGED lastSent
      BY <1>11 DEF GiveUp, WaitEnds, ClosingInv
    <2>2. CASE pc = "close"
      BY <1>11, <2>1, <2>2 DEF GiveUp, Proceed, ClosingInv, FailureCloses
    <2>3. CASE pc # "close"
      BY <1>11, <2>1, <2>3, ClosingFail DEF GiveUp, TypeOK, Phases
    <2>4. QED
      BY <2>2, <2>3
  <1>12. QED
    BY <1>1, <1>2, <1>3, <1>4, <1>5, <1>6, <1>7, <1>8, <1>9, <1>10, <1>11
       DEF ClientStep

LEMMA ClosingNext == TypeOK /\ ClosingInv /\ [Next]_vars => ClosingInv'
  <1> SUFFICES ASSUME TypeOK, ClosingInv, [Next]_vars PROVE ClosingInv'
    OBVIOUS
  <1>1. CASE Client
    BY <1>1, ClosingClient DEF Client
  <1>2. CASE User
    BY <1>2, ClosingIdle
       DEF User, Interrupt, EditLocal, Fail, Unwinds, historyVars, ClosingInv,
           FailureCloses
  <1>3. CASE Network \/ Remote
    BY <1>3, ClosingIdle DEF Network, Remote, clientVars
  <1>4. CASE Terminated \/ UNCHANGED vars
    BY <1>4, ClosingIdle DEF Terminated, vars, clientVars
  <1>5. QED
    BY <1>1, <1>2, <1>3, <1>4 DEF Next

\* docs/architecture.md: "Failed uploads attempt to close the remote file
\* handle": the finally clause of upload_file, on every way out and however
\* many attempts a command has.
THEOREM FailuresClose == Spec => []FailureCloses
  <1>1. ClosingInv => FailureCloses
    BY DEF ClosingInv
  <1>2. QED
    BY TypeInit, TypeNext, ClosingInit, ClosingNext, <1>1, PTL DEF Spec

-----------------------------------------------------------------------------
(***************************************************************************)
(* Queues: where the elements of a queue come from after a step.           *)
(***************************************************************************)

\* Every element of p is an element of q.
Among(p, q) == \A i \in DOMAIN p : \E j \in DOMAIN q : p[i] = q[j]

LEMMA TailAmong ==
    ASSUME NEW S, NEW q \in Seq(S), q # <<>>
    PROVE  /\ Len(q) \in Nat /\ Len(q) > 0
           /\ Len(Tail(q)) = Len(q) - 1
           /\ DOMAIN q = 1 .. Len(q)
           /\ DOMAIN Tail(q) = 1 .. Len(q) - 1
           /\ \A i \in DOMAIN Tail(q) : i + 1 \in DOMAIN q /\ Tail(q)[i] = q[i + 1]
           /\ Head(q) = q[1]
           /\ Among(Tail(q), q)
  <1>1. /\ Tail(q) \in Seq(S)
        /\ Len(Tail(q)) = Len(q) - 1
        /\ \A i \in 1 .. Len(Tail(q)) : Tail(q)[i] = q[i + 1]
    BY HeadTailProperties
  <1>2. /\ Len(q) \in Nat /\ Len(q) > 0
        /\ DOMAIN q = 1 .. Len(q)
        /\ DOMAIN Tail(q) = 1 .. Len(q) - 1
    BY <1>1, EmptySeq, LenProperties
  <1>3. \A i \in DOMAIN Tail(q) : i + 1 \in DOMAIN q /\ Tail(q)[i] = q[i + 1]
    BY <1>1, <1>2
  <1>4. QED
    BY <1>1, <1>2, <1>3 DEF Among

LEMMA AppendAmong ==
    ASSUME NEW S, NEW q \in Seq(S), NEW e \in S
    PROVE  /\ Len(q) \in Nat
           /\ DOMAIN q = 1 .. Len(q)
           /\ Len(Append(q, e)) = Len(q) + 1
           /\ DOMAIN Append(q, e) = 1 .. Len(q) + 1
           /\ \A i \in DOMAIN q : Append(q, e)[i] = q[i]
           /\ Append(q, e)[Len(q) + 1] = e
  BY AppendProperties, LenProperties

LEMMA DuplicateAmong ==
    ASSUME NEW S, NEW q \in Seq(S), q # <<>>
    PROVE  Among(Append(q, Head(q)), q)
  <1>1. /\ Head(q) \in S /\ Head(q) = q[1]
        /\ 1 \in DOMAIN q
    BY TailAmong, HeadTailProperties
  <1>2. SUFFICES ASSUME NEW i \in DOMAIN Append(q, Head(q))
                 PROVE  \E j \in DOMAIN q : Append(q, Head(q))[i] = q[j]
    BY DEF Among
  <1>3. /\ Len(q) \in Nat
        /\ DOMAIN q = 1 .. Len(q)
        /\ i \in 1 .. Len(q) + 1
        /\ i \in DOMAIN q => Append(q, Head(q))[i] = q[i]
        /\ Append(q, Head(q))[Len(q) + 1] = Head(q)
    BY <1>1, <1>2, AppendAmong
  <1>4. CASE i \in DOMAIN q
    BY <1>3, <1>4
  <1>5. CASE i = Len(q) + 1
    BY <1>1, <1>3, <1>5
  <1>6. QED
    BY <1>3, <1>4, <1>5

LEMMA SuffixAmong ==
    ASSUME NEW S, NEW q \in Seq(S), NEW n \in 0 .. Len(q)
    PROVE  Among(SubSeq(q, n + 1, Len(q)), q)
  <1>1. Len(q) \in Nat /\ DOMAIN q = 1 .. Len(q)
    BY LenProperties
  <1>2. QED
    BY <1>1 DEF Among

LEMMA SwappedAmong ==
    ASSUME NEW S, NEW q \in Seq(S), NEW i \in 1 .. Len(q) - 1
    PROVE  Among(Swapped(q, i), q)
  <1>1. /\ DOMAIN q = 1 .. Len(q)
        /\ Len(q) \in Nat
        /\ i \in DOMAIN q /\ i + 1 \in DOMAIN q
    BY LenProperties
  <1>2. DOMAIN Swapped(q, i) = DOMAIN q
    BY DEF Swapped
  <1>3. ASSUME NEW k \in DOMAIN q
        PROVE  Swapped(q, i)[k] = IF k = i + 1 THEN q[i]
                                  ELSE IF k = i THEN q[i + 1] ELSE q[k]
    BY <1>1, <1>3 DEF Swapped
  <1>4. QED
    BY <1>1, <1>2, <1>3 DEF Among

LEMMA ConcatAmong ==
    ASSUME NEW S, NEW q \in Seq(S), NEW p \in Seq(S)
    PROVE  \A i \in DOMAIN (q \o p) :
              \/ \E j \in DOMAIN q : (q \o p)[i] = q[j]
              \/ \E j \in DOMAIN p : (q \o p)[i] = p[j]
  <1>1. /\ Len(q) \in Nat /\ DOMAIN q = 1 .. Len(q)
        /\ Len(p) \in Nat /\ DOMAIN p = 1 .. Len(p)
    BY LenProperties
  <1>2. /\ q \o p \in Seq(S)
        /\ Len(q \o p) = Len(q) + Len(p)
        /\ \A i \in 1 .. Len(q) + Len(p) :
              (q \o p)[i] = IF i <= Len(q) THEN q[i] ELSE p[i - Len(q)]
    BY ConcatProperties
  <1>3. DOMAIN (q \o p) = 1 .. Len(q) + Len(p)
    BY <1>2, LenProperties
  <1>4. ASSUME NEW i \in DOMAIN (q \o p), ~(i <= Len(q))
        PROVE  i - Len(q) \in DOMAIN p
    BY <1>1, <1>3, <1>4
  <1>5. QED
    BY <1>1, <1>2, <1>3, <1>4

\* The datagram a send adds; the replies it discards.
LEMMA TransmitAmong ==
    ASSUME TypeOK, NEW d \in Requests, Transmit(d)
    PROVE  /\ requests' = Append(requests, d)
           /\ Among(replies', replies)
  <1>1. ASSUME NEW n \in 0 .. Len(replies)
        PROVE  Among(SubSeq(replies, n + 1, Len(replies)), replies)
    BY SuffixAmong DEF TypeOK
  <1>2. CASE attempt = 0
    BY <1>1, <1>2 DEF Transmit
  <1>3. CASE attempt # 0
    BY <1>3 DEF Transmit, Among
  <1>4. QED
    BY <1>2, <1>3

-----------------------------------------------------------------------------
(***************************************************************************)
(* Every byte is stored in its place.                                      *)
(***************************************************************************)

BlocksOwn(queue) ==
    \A i \in DOMAIN queue : queue[i].kind = "block" => OwnBytes(queue[i])

LEMMA BlocksOwnAmong ==
    ASSUME NEW p, NEW q, Among(p, q), BlocksOwn(q)
    PROVE  BlocksOwn(p)
  BY DEF Among, BlocksOwn

LEMMA InPlaceInit == Init => InPlaceInv
  <1> SUFFICES ASSUME Init PROVE InPlaceInv
    OBVIOUS
  <1>1. PICK size \in OldSizes : uploaded = [i \in 1 .. size |-> OldByte]
    BY DEF Init, PrinterInit
  <1>2. \A i \in DOMAIN uploaded : uploaded[i] \in Foreign
    <2>1. CASE OldSizes = {0}
      BY <1>1, <2>1
    <2>2. CASE OldSizes # {0}
      BY <1>1, <2>2 DEF Foreign
    <2>3. QED
      BY <2>1, <2>2
  <1>3. requests = <<>>
    BY DEF Init, WireInit
  <1>4. QED
    BY <1>2, <1>3 DEF InPlaceInv

LEMMA InPlaceNetwork ==
    ASSUME TypeOK, InPlaceInv, Network
    PROVE  InPlaceInv'
  <1>1. UNCHANGED uploaded /\ BlocksOwn(requests)
    BY DEF Network, printerVars, InPlaceInv, BlocksOwn
  <1> SUFFICES BlocksOwn(requests')
    BY <1>1 DEF InPlaceInv, BlocksOwn, Foreign, Splices, OldByte, SplicedByte
  <1> USE DEF TypeOK
  <1>2. CASE LoseRequest
    BY <1>1, <1>2, TailAmong, BlocksOwnAmong DEF LoseRequest
  <1>3. CASE ReorderRequests
    BY <1>1, <1>3, SwappedAmong, BlocksOwnAmong DEF ReorderRequests
  <1>4. CASE CorruptBlock
    <2>1. PICK i \in DOMAIN requests :
             /\ requests[i].kind = "block"
             /\ requests' = [requests EXCEPT ![i].sound = FALSE]
      BY <1>4 DEF CorruptBlock
    <2>2. requests[i] \in Requests
      BY ElementOfSeq, LenProperties
    <2>3. /\ requests'[i].data = requests[i].data
          /\ requests'[i].offset = requests[i].offset
      BY <2>1, <2>2, BlockShape
    <2>4. \A j \in DOMAIN requests : j # i => requests'[j] = requests[j]
      BY <2>1
    <2>5. DOMAIN requests' = DOMAIN requests
      BY <2>1
    <2>6. OwnBytes(requests'[i])
      BY <1>1, <2>1, <2>3 DEF BlocksOwn, OwnBytes
    <2>7. QED
      BY <1>1, <2>4, <2>5, <2>6 DEF BlocksOwn
  <1>5. CASE LoseReply \/ DuplicateReply \/ ReorderReplies
    BY <1>1, <1>5 DEF LoseReply, DuplicateReply, ReorderReplies
  <1>6. CASE SpliceBlock
    <2>1. PICK i \in DOMAIN requests, new \in Requests :
             /\ requests[i].kind = "block"
             /\ Len(new.data) = Len(requests[i].data)
             /\ \A k \in DOMAIN new.data : new.data[k] = SplicedByte
             /\ DOMAIN requests' = DOMAIN requests
             /\ requests'[i] = new
             /\ \A j \in DOMAIN requests : j # i => requests'[j] = requests[j]
      BY <1>6, SplicedOne
    <2>2. SplicedByte \in Splices
      BY <1>6 DEF SpliceBlock, Commit, Splices
    <2>3. OwnBytes(new)
      BY <1>1, <2>1, <2>2 DEF BlocksOwn, OwnBytes
    <2>4. QED
      BY <1>1, <2>1, <2>3 DEF BlocksOwn
  <1>7. QED
    BY <1>2, <1>3, <1>4, <1>5, <1>6 DEF Network, Fault

\* Writing a block where no hole is left keeps bytes in place.
LEMMA WriteInPlace ==
    ASSUME NEW file \in Seq(Int), NEW block,
           block.offset \in Nat, block.data \in Seq(Int),
           OwnBytes(block), block.offset <= Len(file),
           NEW Extra, Splices \subseteq Extra,
           \A i \in DOMAIN file : file[i] \in {i - 1} \cup Extra
    PROVE  LET new == WriteAt(file, block.offset, block.data)
           IN  \A i \in DOMAIN new : new[i] \in {i - 1} \cup Extra
  <1> DEFINE at == block.offset
             data == block.data
             new == WriteAt(file, at, data)
  <1>1. /\ Len(file) \in Nat /\ DOMAIN file = 1 .. Len(file)
        /\ Len(data) \in Nat /\ DOMAIN data = 1 .. Len(data)
    BY LenProperties
  <1> SUFFICES ASSUME NEW i \in DOMAIN new
               PROVE  new[i] \in {i - 1} \cup Extra
    OBVIOUS
  <1>2. /\ i \in 1 .. (IF at + Len(data) > Len(file) THEN at + Len(data)
                       ELSE Len(file))
        /\ new[i] = IF i > at /\ i <= at + Len(data) THEN data[i - at]
                    ELSE IF i <= Len(file) THEN file[i] ELSE ZeroByte
    BY DEF WriteAt
  <1>3. CASE i > at /\ i <= at + Len(data)
    <2>1. i - at \in DOMAIN data
      BY <1>1, <1>2, <1>3
    <2>2. data[i - at] = at + (i - at) - 1 \/ data[i - at] \in Splices
      BY <2>1 DEF OwnBytes
    <2>3. new[i] = i - 1 \/ new[i] \in Extra
      BY <1>1, <1>2, <1>3, <2>2
    <2>4. QED
      BY <2>3
  <1>4. CASE ~(i > at /\ i <= at + Len(data))
    <2>1. i \in DOMAIN file
      BY <1>1, <1>2, <1>4
    <2>2. new[i] = file[i]
      BY <1>1, <1>2, <1>4, <2>1
    <2>3. QED
      BY <2>1, <2>2
  <1>5. QED
    BY <1>3, <1>4

LEMMA InPlaceRemote ==
    ASSUME TypeOK, InPlaceInv, Remote
    PROVE  InPlaceInv'
  <1>1. BlocksOwn(requests)
    BY DEF InPlaceInv, BlocksOwn
  <1>2. requests # <<>> /\ requests' = Tail(requests)
    BY DEF Remote, Printer, HandleHello, HandleCreate, RefuseCreate,
       HandleSave, RejectBlock, AskResend, AskMissing, StoreBlock,
       HandleFileList, Serve
  <1>3. BlocksOwn(requests')
    BY <1>1, <1>2, TailAmong, BlocksOwnAmong DEF TypeOK
  <1>4. \A i \in DOMAIN uploaded' : uploaded'[i] \in {i - 1} \cup Foreign
    <2>1. CASE HandleCreate
      BY <2>1 DEF HandleCreate
    <2>2. CASE StoreBlock
      <3>1. Head(requests) \in Requests /\ Head(requests).kind = "block"
        BY <1>2, <2>2, HeadRequest DEF StoreBlock, Serve, TypeOK
      <3>2. /\ Head(requests).offset \in Nat
            /\ Head(requests).data \in Seq(Int)
        BY <3>1, BlockShape, ClientAssumption DEF ClientAssumption
      <3>3. OwnBytes(Head(requests))
        <4>1. Head(requests) = requests[1] /\ 1 \in DOMAIN requests
          BY <1>2, TailAmong DEF TypeOK
        <4>2. QED
          BY <1>1, <3>1, <4>1 DEF BlocksOwn
      <3>4. Head(requests).offset <= Len(uploaded)
        BY <2>2, <3>2, LenProperties DEF StoreBlock, LeavesGap, TypeOK
      <3>5. \A i \in DOMAIN uploaded : uploaded[i] \in {i - 1} \cup Foreign
        BY DEF InPlaceInv
      <3>6. uploaded' = WriteAt(uploaded, Head(requests).offset,
                                Head(requests).data)
        BY <2>2 DEF StoreBlock
      <3>7. Splices \subseteq Foreign
        BY DEF Foreign
      <3>8. QED
        BY <3>2, <3>3, <3>4, <3>5, <3>6, <3>7, WriteInPlace DEF TypeOK
    <2>3. CASE uploaded' = uploaded
      BY <2>3 DEF InPlaceInv
    <2>4. QED
      BY <2>1, <2>2, <2>3 DEF Remote, Printer, HandleHello, RefuseCreate,
         HandleSave, RejectBlock, AskResend, AskMissing, HandleFileList,
         printerVars
  <1>5. QED
    BY <1>3, <1>4 DEF InPlaceInv, BlocksOwn, Foreign, Splices, OldByte, SplicedByte

LEMMA InPlaceClient ==
    ASSUME TypeOK, SendsInv, InPlaceInv, Client
    PROVE  InPlaceInv'
  <1>1. UNCHANGED uploaded /\ BlocksOwn(requests)
    BY DEF Client, printerVars, InPlaceInv, BlocksOwn
  <1> SUFFICES BlocksOwn(requests')
    BY <1>1 DEF InPlaceInv, BlocksOwn, Foreign, Splices, OldByte, SplicedByte
  <1>2. CASE SendCommand
    <2>1. requests' = Append(requests, [kind |-> CommandOf[pc]])
      BY <1>2, CommandType, TransmitAmong DEF SendCommand
    <2>2. CommandOf[pc] # "block" /\ [kind |-> CommandOf[pc]] \in Requests
      BY <1>2, CommandType DEF SendCommand, CommandKinds
    <2>3. QED
      BY <1>1, <2>1, <2>2, AppendAmong DEF BlocksOwn, TypeOK
  <1>3. CASE SendBlock
    <2>1. pc = "block" /\ attempt = 0
      BY <1>3 DEF SendBlock, Transmit, AttemptsIn, BlockRetries, TypeOK
    <2>2. chunk' \in 1 .. BlockSize
      BY <1>3, <2>1, ReadableRange DEF SendBlock, Framable, TypeOK
    <2>3. offset \in 0 .. Total - 1
      BY <2>1, ClientAssumption DEF ClientAssumption, TypeOK
    <2>4. Block(offset, chunk') \in Requests
      BY <2>2, <2>3, BlockType, ClientAssumption DEF ClientAssumption
    <2>5. requests' = Append(requests, Block(offset, chunk'))
      BY <1>3, <2>4, TransmitAmong DEF SendBlock
    <2>6. OwnBytes(Block(offset, chunk'))
      <3>1. Block(offset, chunk').data = [i \in 1 .. chunk' |-> offset + i - 1]
        BY DEF Block
      <3>2. Block(offset, chunk').offset = offset
        BY DEF Block
      <3>3. Len(Block(offset, chunk').data) = chunk'
        BY <2>2, <3>1, ClientAssumption DEF ClientAssumption
      <3>4. QED
        BY <2>2, <3>1, <3>2, <3>3 DEF OwnBytes
    <2>7. QED
      BY <1>1, <2>4, <2>5, <2>6, AppendAmong DEF BlocksOwn, TypeOK
  <1>4. CASE requests' = requests
    BY <1>1, <1>4
  <1>5. QED
    BY <1>2, <1>3, <1>4 DEF Client, ClientStep, FrameError, ConnectReply,
       CreateReply, AcceptBlock, ObeyResend, RefuseResend, BlockRejected,
       SaveReply, CloseReply, IgnoreStray, CollectListing, ListReply, GiveUp,
       Receive, wireVars

LEMMA InPlaceNext ==
    TypeOK /\ SendsInv /\ InPlaceInv /\ [Next]_vars => InPlaceInv'
  <1> SUFFICES ASSUME TypeOK, SendsInv, InPlaceInv, [Next]_vars
               PROVE  InPlaceInv'
    OBVIOUS
  <1>1. CASE User \/ Terminated \/ UNCHANGED vars
    <2>1. requests' = requests /\ uploaded' = uploaded
      BY <1>1 DEF User, Interrupt, EditLocal, Terminated, vars, wireVars,
         printerVars
    <2>2. QED
      BY <2>1 DEF InPlaceInv, Foreign, Splices, OldByte, SplicedByte, OwnBytes
  <1>2. QED
    BY <1>1, InPlaceNetwork, InPlaceRemote, InPlaceClient DEF Next

\* No resend, retry, duplicate or reordering shifts a byte of the remote file
\* or leaves a hole in it.
THEOREM EveryByteInPlace == Spec => []StoredInPlace
  <1>1. InPlaceInv => StoredInPlace
    BY DEF InPlaceInv, StoredInPlace, Foreign, Splices
  <1>2. QED
    BY TypeInit, TypeNext, SendsInit, SendsNext, InPlaceInit, InPlaceNext,
       <1>1, PTL DEF Spec

-----------------------------------------------------------------------------
(***************************************************************************)
(* Success is reported once, of a file nothing will write to any more.     *)
(***************************************************************************)

LEMMA VerdictInit == Init => VerdictInv
  BY DEF Init, ClientInit, VerdictInv

LEMMA ListingInit == Init => ListingInv
  BY DEF Init, WireInit, ClientInit, ListingInv

\* Once the listing was asked for, the client sends nothing more.
LEMMA ListedStays ==
    ASSUME TypeOK, Listed, [Next]_vars
    PROVE  Listed' /\ ~SendCommand /\ ~SendBlock
  <1>1. ~SendCommand /\ ~SendBlock
    BY DEF SendCommand, SendBlock, Transmit, AttemptsIn, CommandOf, TypeOK,
       Listed
  <1>2. Listed'
    <2>1. CASE Client
      BY <1>1, <2>1 DEF Client, ClientStep, FrameError, ConnectReply,
         CreateReply, AcceptBlock, ObeyResend, RefuseResend, BlockRejected,
         SaveReply, CloseReply, IgnoreStray, CollectListing, ListReply, GiveUp,
         Fail, Unwinds, Proceed, Listed
    <2>2. CASE User
      BY <2>2 DEF User, Interrupt, EditLocal, Fail, Unwinds, Listed
    <2>3. CASE Network \/ Remote \/ Terminated \/ UNCHANGED vars
      BY <2>3 DEF Network, Remote, Terminated, vars, clientVars, Listed
    <2>4. QED
      BY <2>1, <2>2, <2>3 DEF Next
  <1>3. QED
    BY <1>1, <1>2

\* A step that only loses, repeats or receives replies.
LEMMA ListingKept ==
    ASSUME ListingInv, Listed => Listed',
           requests' = requests, uploaded' = uploaded,
           Among(replies', replies),
           \A i \in DOMAIN responses' :
               \/ \E j \in DOMAIN responses : responses'[i] = responses[j]
               \/ \E j \in DOMAIN replies : responses'[i] = replies[j]
    PROVE  ListingInv'
  BY DEF ListingInv, Among

LEMMA ListingNetwork ==
    ASSUME TypeOK, ListingInv, Network, "reorder" \notin Faults
    PROVE  ListingInv'
  <1>1. /\ uploaded' = uploaded /\ responses' = responses
        /\ Listed' = Listed
    BY DEF Network, printerVars, clientVars, Listed
  <1> USE DEF TypeOK
  <1>2. CASE LoseRequest
    <2>1. requests # <<>> /\ requests' = Tail(requests) /\ replies' = replies
      BY <1>2 DEF LoseRequest
    <2>2. \A i \in DOMAIN requests' :
             requests'[i].kind = "list" => Listed' /\ i = Len(requests')
      BY <1>1, <2>1, TailAmong DEF ListingInv
    <2>3. QED
      BY <1>1, <2>1, <2>2 DEF ListingInv
  <1>3. CASE LoseReply
    BY <1>1, <1>3, TailAmong, ListingKept DEF LoseReply
  <1>4. CASE DuplicateReply
    BY <1>1, <1>4, DuplicateAmong, ListingKept DEF DuplicateReply
  <1>5. CASE CorruptBlock
    <2>1. PICK i \in DOMAIN requests :
             /\ requests[i].kind = "block"
             /\ requests' = [requests EXCEPT ![i].sound = FALSE]
             /\ replies' = replies
      BY <1>5 DEF CorruptBlock
    <2>2. requests[i] \in Requests /\ i \in 1 .. Len(requests)
      BY ElementOfSeq, LenProperties
    <2>3. [requests[i] EXCEPT !.sound = FALSE] \in Requests
      BY <2>1, <2>2, BlockShape DEF Requests
    <2>4. Len(requests') = Len(requests) /\ DOMAIN requests' = DOMAIN requests
      BY <2>1, <2>2, <2>3, ExceptSeq
    <2>5. requests'[i].kind = "block"
      BY <2>1, <2>2, BlockShape
    <2>6. \A j \in DOMAIN requests : requests'[j].kind = requests[j].kind
      BY <2>1, <2>5
    <2>7. QED
      BY <1>1, <2>1, <2>2, <2>4, <2>6 DEF ListingInv
  <1>6. CASE ReorderRequests \/ ReorderReplies
    BY <1>6 DEF ReorderRequests, ReorderReplies, Commit
  <1>7. CASE SpliceBlock
    <2>1. PICK i \in DOMAIN requests, new \in Requests :
             /\ requests[i].kind = "block" /\ new.kind = "block"
             /\ Len(requests') = Len(requests)
             /\ DOMAIN requests' = DOMAIN requests
             /\ requests'[i] = new
             /\ \A j \in DOMAIN requests : j # i => requests'[j] = requests[j]
      BY <1>7, SplicedOne
    <2>2. replies' = replies
      BY <1>7 DEF SpliceBlock
    <2>3. \A j \in DOMAIN requests : requests'[j].kind = requests[j].kind
      BY <2>1
    <2>4. requests' = <<>> <=> requests = <<>>
      BY <2>1, LenProperties, EmptySeq
    <2>5. QED
      BY <1>1, <2>1, <2>2, <2>3, <2>4 DEF ListingInv
  <1>8. QED
    BY <1>2, <1>3, <1>4, <1>5, <1>6, <1>7 DEF Network, Fault

\* What the answer to M20 adds to the replies.
LEMMA ListedReplies ==
    ASSUME TypeOK, HandleFileList
    PROVE  \A i \in DOMAIN replies' :
               \/ replies'[i].kind # "entry"
               \/ \E j \in DOMAIN replies : replies'[i] = replies[j]
               \/ \E j \in DOMAIN Listing : replies'[i] = Listing[j]
  <1>1. replies \in Seq(Replies) /\ Listing \in Seq(Replies)
    BY LenProperties, MessageType DEF Listing, AnyReply, TypeOK
  <1> HIDE DEF Listing
  <1>2. CASE replies' = replies \o Listing
    BY <1>1, <1>2, ConcatAmong
  <1>3. ASSUME NEW kind \in StaleReplies,
               replies' = Append(replies, Message(kind, 0)) \o Listing
        PROVE  \A i \in DOMAIN replies' :
                   \/ replies'[i].kind # "entry"
                   \/ \E j \in DOMAIN replies : replies'[i] = replies[j]
                   \/ \E j \in DOMAIN Listing : replies'[i] = Listing[j]
    <2> DEFINE front == Append(replies, Message(kind, 0))
    <2>1. Message(kind, 0) \in Replies /\ Message(kind, 0).kind # "entry"
      BY MessageType, PrinterAssumption
         DEF PrinterAssumption, AnyReply, Message
    <2>2. /\ front \in Seq(Replies)
          /\ \A i \in DOMAIN front :
                 \/ front[i].kind # "entry"
                 \/ \E j \in DOMAIN replies : front[i] = replies[j]
      BY <1>1, <2>1, AppendProperties, AppendAmong
    <2> HIDE DEF front
    <2>3. replies' = front \o Listing
      BY <1>3 DEF front
    <2>4. \A i \in DOMAIN replies' :
              \/ \E j \in DOMAIN front : replies'[i] = front[j]
              \/ \E j \in DOMAIN Listing : replies'[i] = Listing[j]
      BY <1>1, <2>2, <2>3, ConcatAmong
    <2>5. QED
      BY <2>2, <2>4
  <1>4. QED
    BY <1>2, <1>3 DEF HandleFileList

LEMMA ListingRemote ==
    ASSUME TypeOK, ListingInv, Remote
    PROVE  ListingInv'
  <1> USE DEF TypeOK
  <1>1. /\ requests # <<>> /\ requests' = Tail(requests)
        /\ responses' = responses /\ Listed' = Listed
    BY DEF Remote, Printer, HandleHello, HandleCreate, RefuseCreate,
       HandleSave, RejectBlock, AskResend, AskMissing, StoreBlock,
       HandleFileList, Serve, clientVars, Listed
  <1>2. /\ \A i \in DOMAIN replies : replies[i].kind # "entry"
        /\ \A i \in DOMAIN responses : responses[i].kind # "entry"
    BY <1>1 DEF ListingInv
  <1>3. \A i \in DOMAIN requests' :
           requests'[i].kind = "list" => Listed' /\ i = Len(requests')
    BY <1>1, TailAmong DEF ListingInv
  <1>4. \A i \in DOMAIN replies' :
           replies'[i].kind = "entry" =>
              Listed' /\ requests' = <<>> /\ replies'[i].n = Len(uploaded')
    <2>1. ASSUME NEW kind \in AnyReply \ {"entry"}, NEW n \in Nat,
                 replies' = Append(replies, Message(kind, n))
          PROVE  \A i \in DOMAIN replies' : replies'[i].kind # "entry"
      <3>1. Message(kind, n) \in Replies /\ Message(kind, n).kind # "entry"
        BY MessageType DEF Message
      <3>2. QED
        BY <1>2, <2>1, <3>1, AppendAmong
    <2>2. CASE HandleFileList
      <3>1. /\ Head(requests) = requests[1] /\ 1 \in DOMAIN requests
            /\ requests[1].kind = "list"
        BY <1>1, <2>2, TailAmong DEF HandleFileList, Serve
      <3>2. Listed /\ Len(requests) = 1
        BY <3>1 DEF ListingInv
      <3>3. requests' = <<>>
        BY <1>1, <3>2, HeadTailProperties, EmptySeq
      <3>4. \A i \in DOMAIN Listing :
               Listing[i].kind = "entry" => Listing[i].n = Len(uploaded)
        BY DEF Listing, Message
      <3>5. uploaded' = uploaded
        BY <2>2 DEF HandleFileList, printerVars
      <3>6. \A i \in DOMAIN replies' :
               \/ replies'[i].kind # "entry"
               \/ \E j \in DOMAIN replies : replies'[i] = replies[j]
               \/ \E j \in DOMAIN Listing : replies'[i] = Listing[j]
        BY <2>2, ListedReplies
      <3>7. QED
        BY <1>1, <1>2, <3>2, <3>3, <3>4, <3>5, <3>6
    <2>3. CASE ~HandleFileList
      <3>1. \E kind \in AnyReply \ {"entry"}, n \in Nat :
               replies' = Append(replies, Message(kind, n))
        <4>1. 0 \in Nat /\ Len(uploaded) \in Nat
          BY LenProperties
        <4>2. QED
          BY <2>3, <4>1, PrinterAssumption
             DEF PrinterAssumption, AnyReply, Remote, Printer, HandleHello,
                 HandleCreate, RefuseCreate, HandleSave, RejectBlock,
                 AskResend, AskMissing, StoreBlock, Reply
      <3>2. QED
        BY <2>1, <3>1
    <2>4. QED
      BY <2>2, <2>3
  <1>5. QED
    BY <1>1, <1>2, <1>3, <1>4 DEF ListingInv

LEMMA ListingClient ==
    ASSUME TypeOK, ListingInv, Client
    PROVE  ListingInv'
  <1> USE DEF TypeOK
  <1>1. uploaded' = uploaded
    BY DEF Client, printerVars
  <1>2. Listed => Listed'
    BY ListedStays DEF Next
  <1>3. CASE SendCommand \/ SendBlock
    <2>1. ~Listed
      BY <1>3, ListedStays DEF Next
    <2>2. /\ \A i \in DOMAIN requests : requests[i].kind # "list"
          /\ \A i \in DOMAIN replies : replies[i].kind # "entry"
          /\ \A i \in DOMAIN responses : responses[i].kind # "entry"
      BY <2>1 DEF ListingInv
    <2>3. PICK d \in Requests :
             /\ Transmit(d)
             /\ d.kind = "list" => pc = "verify"
      <3>1. CASE SendCommand
        <4>1. [kind |-> CommandOf[pc]] \in Requests
          BY <3>1, CommandType DEF SendCommand
        <4>2. CommandOf[pc] = "list" => pc = "verify"
          BY <3>1 DEF SendCommand, CommandOf
        <4>3. QED
          BY <3>1, <4>1, <4>2 DEF SendCommand
      <3>2. CASE SendBlock
        <4>1. offset \in 0 .. Total - 1 /\ chunk' \in Nat
          BY <3>2, ReadableRange, ClientAssumption
             DEF ClientAssumption, SendBlock
        <4>2. Block(offset, chunk') \in Requests
          BY <4>1, BlockType
        <4>3. Block(offset, chunk').kind # "list"
          BY DEF Block
        <4>4. QED
          BY <3>2, <4>2, <4>3 DEF SendBlock
      <3>3. QED
        BY <1>3, <3>1, <3>2
    <2>4. /\ requests' = Append(requests, d)
          /\ Among(replies', replies)
          /\ responses' = responses
          /\ pc' = pc
          /\ attempt' > 0
      BY <2>3, TransmitAmong, ClientAssumption
         DEF Transmit, ClientAssumption
    <2>5. \A i \in DOMAIN requests' :
             requests'[i].kind = "list" => Listed' /\ i = Len(requests')
      BY <2>2, <2>3, <2>4, AppendAmong DEF Listed
    <2>6. /\ \A i \in DOMAIN replies' : replies'[i].kind # "entry"
          /\ \A i \in DOMAIN responses' : responses'[i].kind # "entry"
      BY <2>2, <2>4 DEF Among
    <2>7. QED
      BY <2>5, <2>6 DEF ListingInv
  <1>4. CASE CollectListing \/ ListReply
    <2>1. /\ replies # <<>> /\ replies' = Tail(replies)
          /\ requests' = requests
          /\ responses' = Append(responses, Head(replies))
      BY <1>4 DEF CollectListing, ListReply, Receive
    <2>2. /\ Among(replies', replies) /\ Head(replies) = replies[1]
          /\ 1 \in DOMAIN replies
      BY <2>1, TailAmong
    <2>3. \A i \in DOMAIN responses' :
             \/ \E j \in DOMAIN responses : responses'[i] = responses[j]
             \/ responses'[i] = replies[1]
      BY <2>1, <2>2, HeadReply, AppendAmong
    <2>4. QED
      BY <1>1, <1>2, <2>1, <2>2, <2>3, ListingKept
  <1>5. CASE ConnectReply \/ CreateReply \/ AcceptBlock \/ ObeyResend
             \/ RefuseResend \/ BlockRejected \/ SaveReply \/ CloseReply
             \/ IgnoreStray
    <2>1. /\ replies # <<>> /\ replies' = Tail(replies)
          /\ requests' = requests /\ responses' = responses
      BY <1>5 DEF ConnectReply, CreateReply, AcceptBlock, ObeyResend,
         RefuseResend, BlockRejected, SaveReply, CloseReply, IgnoreStray,
         Receive, Fail, Proceed
    <2>2. QED
      BY <1>1, <1>2, <2>1, TailAmong, ListingKept
  <1>6. CASE FrameError \/ GiveUp
    <2>1. UNCHANGED <<requests, replies, responses>>
      BY <1>6 DEF FrameError, GiveUp, Fail, Proceed, wireVars
    <2>2. QED
      BY <1>1, <1>2, <2>1, ListingKept DEF Among
  <1>7. QED
    BY <1>3, <1>4, <1>5, <1>6 DEF Client, ClientStep

LEMMA ListingNext ==
    ASSUME "reorder" \notin Faults
    PROVE  TypeOK /\ ListingInv /\ [Next]_vars => ListingInv'
  <1> SUFFICES ASSUME TypeOK, ListingInv, [Next]_vars PROVE ListingInv'
    OBVIOUS
  <1>1. CASE User \/ Terminated \/ UNCHANGED vars
    <2>1. UNCHANGED <<requests, replies, responses, uploaded>>
      BY <1>1 DEF User, Interrupt, EditLocal, Fail, Terminated, vars,
         wireVars, printerVars, clientVars
    <2>2. QED
      BY <2>1, ListedStays, ListingKept DEF Among
  <1>2. QED
    BY <1>1, ListingNetwork, ListingRemote, ListingClient DEF Next

\* The client does nothing once it is done.
LEMMA DoneIsOver ==
    ASSUME TypeOK, VerdictInv, Client \/ User
    PROVE  pc # "done"
  <1>1. CASE Client
    BY <1>1 DEF Client, ClientStep, SendCommand, SendBlock, CommandOf,
       FrameError, ConnectReply, CreateReply, AcceptBlock, ObeyResend,
       RefuseResend, BlockRejected, SaveReply, CloseReply, IgnoreStray,
       CollectListing, ListReply, GiveUp, WaitEnds, VerdictInv, TypeOK
  <1>2. CASE User
    BY <1>2 DEF User, Interrupt, EditLocal
  <1>3. QED
    BY <1>1, <1>2

\* A listing that passes the checks holds the remote file's final size.
LEMMA VerifiedSize ==
    ASSUME ListingInv, NEW count, Verified(responses, count)
    PROVE  requests = <<>> /\ Len(uploaded) = Total
  <1>1. PICK i \in FileLines(responses) :
           responses[i].kind = "entry" /\ responses[i].n = Total
    BY DEF Verified
  <1>2. i \in DOMAIN responses
    BY DEF FileLines
  <1>3. QED
    BY <1>1, <1>2 DEF ListingInv

LEMMA VerdictClient ==
    ASSUME TypeOK, ListingInv, VerdictInv, Client
    PROVE  VerdictInv'
  <1>1. pc # "done" /\ result # "uploaded" /\ uploaded' = uploaded
    BY DoneIsOver DEF Client, printerVars, VerdictInv
  <1>2. CASE ListReply
    <2>1. /\ pc' = "done" /\ attempt' = 0 /\ requests' = requests
          /\ result' = "uploaded" => Verified(responses, Head(replies).n)
      BY <1>2 DEF ListReply, Receive
    <2>2. QED
      BY <1>1, <2>1, VerifiedSize DEF VerdictInv
  <1>3. CASE SendCommand \/ SendBlock
    BY <1>1, <1>3 DEF SendCommand, SendBlock, Transmit, VerdictInv
  <1>4. CASE FrameError \/ RefuseResend \/ BlockRejected
    BY <1>1, <1>4 DEF FrameError, RefuseResend, BlockRejected, Fail, Unwinds,
       VerdictInv
  <1>5. CASE ConnectReply \/ CreateReply \/ SaveReply
    BY <1>1, <1>5 DEF ConnectReply, CreateReply, SaveReply, Fail, Unwinds,
       Proceed, VerdictInv
  <1>6. CASE AcceptBlock \/ ObeyResend \/ CloseReply
    BY <1>1, <1>6 DEF AcceptBlock, ObeyResend, CloseReply, Proceed, VerdictInv
  <1>7. CASE IgnoreStray \/ CollectListing
    BY <1>1, <1>7 DEF IgnoreStray, CollectListing, VerdictInv
  <1>8. CASE GiveUp
    BY <1>1, <1>8 DEF GiveUp, Fail, Unwinds, Proceed, VerdictInv
  <1>9. QED
    BY <1>2, <1>3, <1>4, <1>5, <1>6, <1>7, <1>8 DEF Client, ClientStep

\* With nothing on the wire to the printer, nothing reaches it.
LEMMA QuietStays ==
    ASSUME requests = <<>>, Network \/ Remote
    PROVE  requests' = <<>> /\ uploaded' = uploaded
  <1>1. ~Remote
    BY DEF Remote, Printer, HandleHello, HandleCreate, RefuseCreate,
       HandleSave, RejectBlock, AskResend, AskMissing, StoreBlock,
       HandleFileList, Serve
  <1>2. Network
    BY <1>1
  <1>3. uploaded' = uploaded
    BY <1>2 DEF Network, printerVars
  <1>4. requests' = requests
    BY <1>2 DEF Network, Fault, LoseRequest, LoseReply, DuplicateReply,
       ReorderRequests, ReorderReplies, CorruptBlock, SpliceBlock
  <1>5. QED
    BY <1>3, <1>4

LEMMA VerdictNext ==
    TypeOK /\ ListingInv /\ VerdictInv /\ [Next]_vars => VerdictInv'
  <1> SUFFICES ASSUME TypeOK, ListingInv, VerdictInv, [Next]_vars
               PROVE  VerdictInv'
    OBVIOUS
  <1>1. CASE Client
    BY <1>1, VerdictClient
  <1>2. CASE User
    BY <1>2, DoneIsOver
       DEF User, Interrupt, EditLocal, Fail, Unwinds, VerdictInv
  <1>3. CASE Network \/ Remote
    <2>1. UNCHANGED <<pc, attempt, result>>
      BY <1>3 DEF Network, Remote, clientVars
    <2>2. CASE result = "uploaded"
      BY <1>3, <2>1, <2>2, QuietStays DEF VerdictInv
    <2>3. CASE result # "uploaded"
      BY <2>1, <2>3 DEF VerdictInv
    <2>4. QED
      BY <2>2, <2>3
  <1>4. CASE Terminated \/ UNCHANGED vars
    BY <1>4 DEF Terminated, vars, wireVars, printerVars, clientVars,
       VerdictInv
  <1>5. QED
    BY <1>1, <1>2, <1>3, <1>4 DEF Next

\* On a wire that keeps the order of datagrams, whatever it loses, doubles or
\* damages, and however the local file changes meanwhile, success is said
\* only of a remote file of the announced size.
THEOREM SuccessHasSize ==
    ASSUME "reorder" \notin Faults
    PROVE  Spec => []SuccessMeansSize
  <1>1. VerdictInv => SuccessMeansSize
    BY DEF VerdictInv, SuccessMeansSize
  <1>2. TypeOK /\ ListingInv /\ [Next]_vars => ListingInv'
    BY ListingNext
  <1>3. QED
    BY TypeInit, TypeNext, ListingInit, VerdictInit, <1>1, <1>2, VerdictNext,
       PTL DEF Spec

\* And when there was no earlier file of that name, each of its bytes is the
\* local file's, or was spliced on its way.
THEOREM SuccessIsComplete ==
    ASSUME "reorder" \notin Faults, OldSizes = {0}
    PROVE  Spec => []SuccessMeansComplete
  <1>1. ASSUME TypeOK, InPlaceInv, VerdictInv, result = "uploaded"
        PROVE  /\ Len(uploaded) = Total
               /\ \A i \in 1 .. Total : uploaded[i] \in {i - 1, SplicedByte}
    <2>1. uploaded \in Seq(Int) /\ Len(uploaded) = Total
      BY <1>1 DEF TypeOK, VerdictInv
    <2>2. DOMAIN uploaded = 1 .. Total
      BY <2>1, LenProperties
    <2>3. \A i \in DOMAIN uploaded : uploaded[i] \in {i - 1, SplicedByte}
      BY <1>1 DEF InPlaceInv, Foreign, Splices
    <2>4. QED
      BY <2>1, <2>2, <2>3
  <1>2. TypeOK /\ ListingInv /\ [Next]_vars => ListingInv'
    BY ListingNext
  <1>3. TypeOK /\ InPlaceInv /\ VerdictInv => SuccessMeansComplete
    BY <1>1 DEF SuccessMeansComplete
  <1>4. QED
    BY TypeInit, TypeNext, SendsInit, SendsNext, InPlaceInit, InPlaceNext,
       ListingInit, VerdictInit, <1>2, <1>3, VerdictNext, PTL DEF Spec

\* A file of that size whose bytes are all the local file's is the local file.
LEMMA WholeFile ==
    ASSUME uploaded \in Seq(Int), Len(uploaded) = Total,
           \A i \in DOMAIN uploaded : uploaded[i] = i - 1
    PROVE  uploaded = [i \in 1 .. Total |-> i - 1]
  <1>1. DOMAIN uploaded = 1 .. Total
    BY LenProperties
  <1>2. uploaded = [i \in 1 .. Len(uploaded) |-> uploaded[i]]
    BY LenProperties
  <1>3. QED
    BY <1>1, <1>2

\* Splices are the only exception: where the checksum detects all damage, the
\* remote file is the local one, as test_mock_integration.py has it.
THEOREM SuccessIsWhole ==
    ASSUME "reorder" \notin Faults, "splice" \notin Faults, OldSizes = {0}
    PROVE  Spec => []SuccessMeansSource
  <1>1. ASSUME TypeOK, InPlaceInv, VerdictInv, result = "uploaded"
        PROVE  uploaded = [i \in 1 .. Total |-> i - 1]
    <2>1. uploaded \in Seq(Int) /\ Len(uploaded) = Total
      BY <1>1 DEF TypeOK, VerdictInv
    <2>2. \A i \in DOMAIN uploaded : uploaded[i] = i - 1
      BY <1>1 DEF InPlaceInv, Foreign, Splices
    <2>3. QED
      BY <2>1, <2>2, WholeFile
  <1>2. TypeOK /\ ListingInv /\ [Next]_vars => ListingInv'
    BY ListingNext
  <1>3. TypeOK /\ InPlaceInv /\ VerdictInv => SuccessMeansSource
    BY <1>1 DEF SuccessMeansSource
  <1>4. QED
    BY TypeInit, TypeNext, SendsInit, SendsNext, InPlaceInit, InPlaceNext,
       ListingInit, VerdictInit, <1>2, <1>3, VerdictNext, PTL DEF Spec

-----------------------------------------------------------------------------
(***************************************************************************)
(* The exchange implements the abstract transfer.                          *)
(***************************************************************************)

LEMMA TransferInit == Init => Transfer!Init
  BY DEF Init, PrinterInit, ClientInit, Transfer!Init, Transfer!Old, OldByte

LEMMA StoreIsWrite ==
    ASSUME TypeOK, InPlaceInv, VerdictInv, Remote, StoreBlock
    PROVE  Transfer!Next
  <1> DEFINE at == Head(requests).offset
             data == Head(requests).data
  <1>1. /\ requests # <<>> /\ result # "uploaded" /\ result' = result
        /\ uploaded' = WriteAt(uploaded, at, data)
        /\ ~LeavesGap(at)
        /\ Head(requests).kind = "block"
    BY DEF Remote, StoreBlock, Serve, VerdictInv, clientVars
  <1>2. at \in 0 .. Total - 1 /\ data \in Seq(Int)
    BY <1>1, HeadRequest, BlockShape DEF TypeOK
  <1>3. OwnBytes(Head(requests))
    <2>1. Head(requests) = requests[1] /\ 1 \in DOMAIN requests
      BY <1>1, TailAmong DEF TypeOK
    <2>2. QED
      BY <1>1, <2>1 DEF InPlaceInv
  <1>4. /\ Len(data) \in 1 .. BlockSize
        /\ DOMAIN data = 1 .. Len(data)
        /\ Len(uploaded) \in Nat
        /\ at <= Len(uploaded)
    BY <1>1, <1>2, <1>3, LenProperties, ClientAssumption
       DEF OwnBytes, LeavesGap, TypeOK, ClientAssumption
  <1> DEFINE n == Len(data)
             new == IF at + n > Len(uploaded) THEN at + n ELSE Len(uploaded)
             byte(i, own) == IF own THEN i - 1 ELSE Transfer!Spliced
  <1>5. PICK own \in BOOLEAN :
            \A k \in DOMAIN data : data[k] = byte(at + k, own)
    <2>1. CASE \A k \in DOMAIN data : data[k] = at + k - 1
      <3>1. \A k \in DOMAIN data : data[k] = byte(at + k, TRUE)
        BY <1>2, <1>4, <2>1
      <3>2. QED
        BY <3>1
    <2>2. CASE \A k \in DOMAIN data : data[k] \in Splices
      <3>1. \A k \in DOMAIN data : data[k] = byte(at + k, FALSE)
        BY <2>2 DEF Splices, SplicedByte, Transfer!Spliced
      <3>2. QED
        BY <3>1
    <2>3. QED
      BY <1>3, <2>1, <2>2 DEF OwnBytes
  <1>6. ASSUME NEW i \in 1 .. new
        PROVE  (IF i > at /\ i <= at + n THEN data[i - at]
                ELSE IF i <= Len(uploaded) THEN uploaded[i] ELSE ZeroByte)
               = IF i > at /\ i <= at + n
                 THEN IF own THEN i - 1 ELSE Transfer!Spliced
                 ELSE uploaded[i]
    <2> HIDE DEF at, data
    <2>1. n \in Nat /\ at \in Nat
      BY <1>2, <1>4, ClientAssumption DEF ClientAssumption
    <2>2. CASE i > at /\ i <= at + n
      <3>1. i - at \in DOMAIN data
        BY <1>4, <2>1, <2>2
      <3>2. data[i - at] = byte(at + (i - at), own)
        BY <1>5, <3>1
      <3>3. at + (i - at) = i
        BY <2>1
      <3>4. QED
        BY <2>2, <3>2, <3>3
    <2>3. CASE ~(i > at /\ i <= at + n)
      <3>1. i <= Len(uploaded)
        BY <1>4, <2>1, <2>3
      <3>2. QED
        BY <2>3, <3>1
    <2>4. QED
      BY <2>2, <2>3
  <1>7. uploaded' = [i \in 1 .. new |->
                        IF i > at /\ i <= at + n
                        THEN IF own THEN i - 1 ELSE Transfer!Spliced
                        ELSE uploaded[i]]
    BY <1>1, <1>6 DEF WriteAt
  <1>8. Transfer!Write(at, n, own)
    BY <1>1, <1>4, <1>7 DEF Transfer!Write
  <1>9. QED
    BY <1>2, <1>4, <1>8 DEF Transfer!Next

LEMMA TransferNext ==
    ASSUME TypeOK, InPlaceInv, ListingInv, VerdictInv, [Next]_vars
    PROVE  [Transfer!Next]_<<uploaded, result>>
  <1>1. CASE Client \/ User
    <2>1. uploaded' = uploaded /\ result # "uploaded"
      BY <1>1, DoneIsOver DEF Client, User, printerVars, VerdictInv
    <2>2. CASE result' = "uploaded"
      <3>1. ListReply
        BY <1>1, <2>1, <2>2 DEF Client, User, ClientStep, Interrupt, EditLocal,
           SendCommand, SendBlock, Transmit, FrameError, ConnectReply,
           CreateReply, AcceptBlock, ObeyResend, RefuseResend, BlockRejected,
           SaveReply, CloseReply, IgnoreStray, CollectListing, GiveUp, Fail,
           Proceed
      <3>2. pc = "verify" /\ Verified(responses, Head(replies).n)
        BY <2>2, <3>1 DEF ListReply
      <3>3. Len(uploaded) = Total /\ result = "none"
        BY <3>2, VerifiedSize DEF VerdictInv
      <3>4. Transfer!Accept
        BY <2>1, <2>2, <3>3 DEF Transfer!Accept
      <3>5. QED
        BY <3>4 DEF Transfer!Next
    <2>3. CASE result' \in {"failed", "unanswered", "interrupted"}
      BY <2>1, <2>3 DEF Transfer!Next, Transfer!Reject
    <2>4. CASE result' = "none"
      <3>1. result' = result
        BY <1>1, <2>4 DEF Client, User, ClientStep, Interrupt, EditLocal,
           SendCommand, SendBlock, Transmit, FrameError, ConnectReply,
           CreateReply, AcceptBlock, ObeyResend, RefuseResend, BlockRejected,
           SaveReply, CloseReply, IgnoreStray, CollectListing, ListReply,
           GiveUp, Fail, Proceed
      <3>2. QED
        BY <2>1, <3>1
    <2>5. result' \in Verdicts
      BY TypeNext DEF TypeOK
    <2>6. QED
      BY <2>2, <2>3, <2>4, <2>5 DEF Verdicts
  <1>2. CASE Remote
    <2>1. requests # <<>> /\ result' = result
      BY <1>2 DEF Remote, Printer, HandleHello, HandleCreate, RefuseCreate,
         HandleSave, RejectBlock, AskResend, AskMissing, StoreBlock,
         HandleFileList, Serve, clientVars
    <2>2. CASE HandleCreate
      BY <2>1, <2>2 DEF HandleCreate, VerdictInv, Transfer!Next,
         Transfer!Create
    <2>3. CASE StoreBlock
      BY <1>2, <2>3, StoreIsWrite
    <2>4. CASE uploaded' = uploaded
      BY <2>1, <2>4
    <2>5. QED
      BY <1>2, <2>2, <2>3, <2>4 DEF Remote, Printer, HandleHello,
         RefuseCreate, HandleSave, RejectBlock, AskResend, AskMissing,
         HandleFileList, printerVars
  <1>3. CASE Network \/ Terminated \/ UNCHANGED vars
    BY <1>3 DEF Network, Terminated, vars, printerVars, clientVars
  <1>4. QED
    BY <1>1, <1>2, <1>3 DEF Next

\* The whole exchange behaves as the abstract transfer: bytes in place, one
\* verdict, and a file that is frozen from the moment success is reported.
THEOREM UploadImplementsTransfer ==
    ASSUME "reorder" \notin Faults
    PROVE  Spec => ImplementsTransfer
  <1>1. TypeOK /\ ListingInv /\ [Next]_vars => ListingInv'
    BY ListingNext
  <1>2. TypeOK /\ InPlaceInv /\ ListingInv /\ VerdictInv /\ [Next]_vars
           => [Transfer!Next]_<<uploaded, result>>
    BY TransferNext
  <1>3. QED
    BY TypeInit, TypeNext, SendsInit, SendsNext, InPlaceInit, InPlaceNext,
       ListingInit, <1>1, VerdictInit, VerdictNext, TransferInit, <1>2,
       PTL DEF Spec, ImplementsTransfer, Transfer!Spec

-----------------------------------------------------------------------------
(***************************************************************************)
(* With one attempt per command and no doubled replies, an answer is the   *)
(* answer to the present request.                                          *)
(***************************************************************************)

Early == {"connect", "create", "block", "save"}

Carried(kind) == \A i \in DOMAIN requests : requests[i].kind = kind

Own == \A i \in DOMAIN uploaded : uploaded[i] = i - 1

\* Until the listing, the wire holds the present request or its answer.
OneOut ==
    pc \in Early =>
        /\ Len(requests) + Len(replies) <= attempt
        /\ responses = <<>>
        /\ result = "none"

AtStart ==
    /\ pc \in {"connect", "create"} => offset = 0
    /\ pc = "connect" => Carried("hello")

AtCreate ==
    pc = "create" =>
        /\ Carried("create")
        /\ \A i \in DOMAIN replies : replies[i].kind \in StartsOk => Own

AtBlock ==
    pc = "block" =>
        /\ \A i \in DOMAIN requests :
               /\ requests[i].kind = "block"
               /\ requests[i].offset = offset
               /\ Len(requests[i].data) = chunk
        /\ \A i \in DOMAIN replies :
               /\ replies[i].kind \in StartsOk => offset + chunk <= Len(uploaded)
               /\ replies[i].kind = "resend" => replies[i].n <= Len(uploaded)
        /\ offset <= Len(uploaded)
        /\ Own

AtSave ==
    pc = "save" =>
        /\ Carried("save")
        /\ \A i \in DOMAIN replies :
               replies[i].kind \in StartsOk \cup {"saved"} => ~remoteOpen
        /\ Own

\* From the listing on nothing but its request is on the way to the printer.
Listings(list) ==
    \A i \in DOMAIN list : list[i].kind = "entry" => list[i].n = Len(uploaded)

AtListing ==
    pc = "verify" \/ result = "uploaded" =>
        /\ Carried("list")
        /\ Listings(replies)
        /\ Listings(responses)
        /\ Own
        /\ ~remoteOpen

AtEnd == result = "uploaded" => pc = "done" /\ attempt = 0 /\ Len(uploaded) = Total

OnceInv ==
    /\ OneOut
    /\ AtStart
    /\ AtCreate
    /\ AtBlock
    /\ AtSave
    /\ AtListing
    /\ AtEnd

LEMMA OnceInit == Init => OnceInv
  BY LenProperties, EmptySeq
     DEF Init, WireInit, ClientInit, OnceInv, OneOut, AtStart, AtCreate, AtBlock,
         AtSave, AtListing, AtEnd, Early, Carried

LEMMA OneOfTwo ==
    ASSUME NEW a \in Nat, NEW b \in Nat, NEW c \in 0 .. 1, a # 0, a + b <= c
    PROVE  a = 1 /\ b = 0 /\ c = 1
  OBVIOUS

\* Before the present request is sent, nothing is on the wire.
LEMMA NothingOut ==
    ASSUME TypeOK, OneOut, pc \in Early, attempt = 0
    PROVE  requests = <<>> /\ replies = <<>>
  BY LenProperties, EmptySeq DEF TypeOK, OneOut

\* The answer comes alone.
LEMMA AnswerOut ==
    ASSUME TypeOK, OneOut, pc \in Early, Retries = 1, replies # <<>>
    PROVE  /\ requests = <<>>
           /\ Tail(replies) = <<>>
           /\ DOMAIN replies = {1}
           /\ Head(replies) = replies[1]
           /\ attempt = 1
  <1>1. /\ Len(requests) \in Nat /\ Len(replies) \in Nat
        /\ Len(replies) # 0 /\ attempt \in 0 .. 1
        /\ Len(replies) + Len(requests) <= attempt
    BY LenProperties, EmptySeq DEF TypeOK, OneOut
  <1>2. Len(requests) = 0 /\ Len(replies) = 1 /\ attempt = 1
    BY <1>1, OneOfTwo
  <1>3. /\ Tail(replies) \in Seq(Replies) /\ Len(Tail(replies)) = 0
        /\ Head(replies) = replies[1]
    BY <1>2, HeadTailProperties, TailAmong DEF TypeOK
  <1>4. DOMAIN replies = {1}
    BY <1>2, LenProperties DEF TypeOK
  <1>5. QED
    BY <1>2, <1>3, <1>4, EmptySeq DEF TypeOK

\* So does the request.
LEMMA RequestOut ==
    ASSUME TypeOK, OneOut, pc \in Early, Retries = 1, requests # <<>>
    PROVE  /\ replies = <<>>
           /\ Tail(requests) = <<>>
           /\ DOMAIN requests = {1}
           /\ Head(requests) = requests[1]
           /\ attempt = 1
  <1>1. /\ Len(requests) \in Nat /\ Len(replies) \in Nat
        /\ Len(requests) # 0 /\ attempt \in 0 .. 1
        /\ Len(requests) + Len(replies) <= attempt
    BY LenProperties, EmptySeq DEF TypeOK, OneOut
  <1>2. Len(requests) = 1 /\ Len(replies) = 0 /\ attempt = 1
    BY <1>1, OneOfTwo
  <1>3. /\ Tail(requests) \in Seq(Requests) /\ Len(Tail(requests)) = 0
        /\ Head(requests) = requests[1]
    BY <1>2, HeadTailProperties, TailAmong DEF TypeOK
  <1>4. DOMAIN requests = {1}
    BY <1>2, LenProperties DEF TypeOK
  <1>5. QED
    BY <1>2, <1>3, <1>4, EmptySeq DEF TypeOK

\* Whoever has failed is past all that.
LEMMA OnceFail ==
    ASSUME pc' \notin Early \cup {"verify"}, result' # "uploaded"
    PROVE  OnceInv'
  BY DEF OnceInv, OneOut, AtStart, AtCreate, AtBlock, AtSave, AtListing, AtEnd,
     Early

\* The next phase begins with nothing on the wire.
LEMMA OncePhase ==
    ASSUME pc' \in Early \cup {"verify"}, requests' = <<>>, replies' = <<>>,
           responses' = <<>>, attempt' = 0, result' = "none",
           pc' \in {"connect", "create"} => offset' = 0,
           pc' \in {"block", "save", "verify"} => Own',
           pc' = "block" => offset' <= Len(uploaded'),
           pc' = "verify" => ~remoteOpen'
    PROVE  OnceInv'
  BY LenProperties, EmptySeq
     DEF OnceInv, OneOut, AtStart, AtCreate, AtBlock, AtSave, AtListing, AtEnd,
         Early, Carried, Listings

LEMMA OnceSend ==
    ASSUME TypeOK, OnceInv, Retries = 1, SendCommand \/ SendBlock,
           UNCHANGED printerVars
    PROVE  OnceInv'
  <1> USE DEF OnceInv, printerVars
  <1>1. attempt = 0 /\ attempt' = 1
    BY AttemptsRange DEF TypeOK, SendCommand, SendBlock, Transmit
  <1>2. /\ UNCHANGED <<pc, offset, result, responses, uploaded, remoteOpen>>
        /\ Own' = Own
    BY DEF SendCommand, SendBlock, Transmit, progressVars, Own
  <1>3. CASE SendCommand
    <2> DEFINE d == [kind |-> CommandOf[pc]]
    <2>1. /\ requests' = Append(requests, d) /\ d \in Requests
          /\ Among(replies', replies)
      BY <1>3, CommandType, TransmitAmong DEF SendCommand
    <2>2. CASE pc \in Early
      <3>1. requests = <<>> /\ replies = <<>>
        BY <1>1, <2>2, NothingOut
      <3>2. replies' = <<>>
        <4>1. replies' \in Seq(Replies)
          BY <1>3, <2>1, TransmitType DEF SendCommand
        <4>2. DOMAIN replies' = {}
          BY <2>1, <3>1 DEF Among
        <4>3. QED
          BY <4>1, <4>2, LenProperties, EmptySeq
      <3>3. requests' = <<d>> /\ Len(requests') = 1 /\ DOMAIN requests' = {1}
        BY <2>1, <3>1
      <3>4. /\ pc # "block"
            /\ pc = "connect" => d.kind = "hello"
            /\ pc = "create" => d.kind = "create"
            /\ pc = "save" => d.kind = "save"
        BY <1>3 DEF SendCommand, CommandOf
      <3>5. QED
        BY <1>1, <1>2, <2>2, <3>2, <3>3, <3>4
           DEF OneOut, AtStart, AtCreate, AtBlock, AtSave, AtListing, AtEnd,
               Early, Carried
    <2>3. CASE pc = "verify"
      <3>1. d.kind = "list"
        BY <2>3 DEF CommandOf
      <3>2. Carried("list") /\ Listings(replies)
        BY <2>3 DEF AtListing
      <3>3. Carried("list")'
        BY <2>1, <3>1, <3>2, AppendAmong DEF Carried, TypeOK
      <3>4. Listings(replies)'
        BY <1>2, <2>1, <3>2 DEF Listings, Among
      <3>5. Listings(responses)'
        BY <1>2, <2>3 DEF AtListing, Listings
      <3>6. QED
        BY <1>1, <1>2, <2>3, <3>3, <3>4, <3>5
           DEF OneOut, AtStart, AtCreate, AtBlock, AtSave, AtListing, AtEnd, Early
    <2>4. CASE pc \notin Early \cup {"verify"}
      <3>1. pc = "close"
        BY <1>3, <2>4 DEF SendCommand, CommandOf, Early
      <3>2. QED
        BY <1>2, <2>4, <3>1, OnceFail DEF AtEnd
    <2>5. QED
      BY <2>2, <2>3, <2>4
  <1>4. CASE SendBlock
    <2>1. pc = "block" /\ pc \in Early
      BY <1>4 DEF SendBlock, Early
    <2>2. requests = <<>> /\ replies = <<>>
      BY <1>1, <2>1, NothingOut
    <2>3. /\ chunk' \in Nat
          /\ Block(offset, chunk') \in Requests
          /\ Transmit(Block(offset, chunk'))
      <3>1. offset \in 0 .. Total - 1
        BY <2>1, ClientAssumption DEF ClientAssumption, TypeOK
      <3>2. chunk' \in Nat /\ Transmit(Block(offset, chunk'))
        BY <1>4, ReadableRange, ClientAssumption
           DEF ClientAssumption, SendBlock, TypeOK
      <3>3. QED
        BY <3>1, <3>2, BlockType
    <2>4. requests' = <<Block(offset, chunk')>>
      BY <2>2, <2>3, TransmitAmong
    <2>5. replies' = <<>>
      <3>1. replies' \in Seq(Replies) /\ Among(replies', replies)
        BY <2>3, TransmitType, TransmitAmong
      <3>2. DOMAIN replies' = {}
        BY <2>2, <3>1 DEF Among
      <3>3. QED
        BY <3>1, <3>2, LenProperties, EmptySeq
    <2>6. /\ Block(offset, chunk').kind = "block"
          /\ Block(offset, chunk').offset = offset
          /\ Len(Block(offset, chunk').data) = chunk'
      BY <2>3 DEF Block
    <2>7. /\ Len(requests') = 1 /\ DOMAIN requests' = {1}
          /\ requests'[1] = Block(offset, chunk')
      BY <2>4
    <2>8. QED
      BY <1>1, <1>2, <2>1, <2>5, <2>6, <2>7
         DEF OneOut, AtStart, AtCreate, AtBlock, AtSave, AtListing, AtEnd, Early
  <1>5. QED
    BY <1>3, <1>4

\* An answer that takes the client into its next phase.
LEMMA OnceAnswer ==
    ASSUME TypeOK, OnceInv, Retries = 1, UNCHANGED printerVars,
           ConnectReply \/ CreateReply \/ AcceptBlock \/ ObeyResend \/ SaveReply,
           result' = result
    PROVE  OnceInv'
  <1> USE DEF OnceInv, printerVars
  <1>1. /\ pc \in Early /\ replies # <<>>
        /\ replies' = Tail(replies) /\ requests' = requests
        /\ chunk' = chunk
    BY DEF ConnectReply, CreateReply, AcceptBlock, ObeyResend, SaveReply, Receive,
       Early
  <1>2. /\ requests' = <<>> /\ replies' = <<>>
        /\ DOMAIN replies = {1} /\ Head(replies) = replies[1]
    BY <1>1, AnswerOut
  <1>3. responses = <<>> /\ result = "none" /\ result' = "none"
    BY <1>1 DEF OneOut
  <1>4. Own' = Own /\ Len(uploaded) \in Nat
    BY LenProperties DEF Own, TypeOK
  <1>5. CASE ConnectReply
    BY <1>2, <1>3, <1>5, OncePhase
       DEF ConnectReply, Fail, Proceed, AtStart, progressVars, Early
  <1>6. CASE CreateReply
    <2>1. /\ Head(replies).kind \in StartsOk /\ pc' = "block" /\ offset' = offset
          /\ attempt' = 0 /\ responses' = <<>> /\ pc = "create"
      BY <1>3, <1>6 DEF CreateReply, Receive, Fail, Proceed, progressVars
    <2>2. Own /\ offset = 0
      BY <1>2, <2>1 DEF AtCreate, AtStart
    <2>3. QED
      BY <1>2, <1>3, <1>4, <2>1, <2>2, OncePhase DEF Early
  <1>7. CASE AcceptBlock
    <2>1. /\ Head(replies).kind \in StartsOk /\ pc' \in {"block", "save"}
          /\ offset' = offset + chunk /\ pc = "block"
          /\ attempt' = 0 /\ responses' = <<>>
      BY <1>3, <1>7 DEF AcceptBlock, Receive, Proceed
    <2>2. Own /\ offset' <= Len(uploaded)
      BY <1>2, <2>1 DEF AtBlock
    <2>3. QED
      BY <1>2, <1>3, <1>4, <2>1, <2>2, OncePhase DEF Early
  <1>8. CASE ObeyResend
    <2>1. /\ Head(replies).kind = "resend" /\ pc' = "block" /\ pc = "block"
          /\ offset' = Head(replies).n /\ attempt' = 0 /\ responses' = <<>>
      BY <1>3, <1>8 DEF ObeyResend, Receive, Proceed
    <2>2. Own /\ offset' <= Len(uploaded)
      BY <1>2, <2>1 DEF AtBlock
    <2>3. QED
      BY <1>2, <1>3, <1>4, <2>1, <2>2, OncePhase DEF Early
  <1>9. CASE SaveReply
    <2>1. /\ Head(replies).kind \in StartsOk \cup {"saved"}
          /\ pc' = "verify" /\ pc = "save"
          /\ attempt' = 0 /\ responses' = <<>>
      BY <1>3, <1>9 DEF SaveReply, Receive, Fail, Proceed
    <2>2. Own /\ ~remoteOpen
      BY <1>2, <2>1 DEF AtSave
    <2>3. QED
      BY <1>2, <1>3, <1>4, <2>1, <2>2, OncePhase DEF Early
  <1>10. QED
    BY <1>5, <1>6, <1>7, <1>8, <1>9

\* A listing that passes the checks has one entry, of the announced size.
LEMMA OnceListing ==
    ASSUME TypeOK, OnceInv, UNCHANGED printerVars,
           IgnoreStray \/ CollectListing \/ ListReply
    PROVE  OnceInv'
  <1> USE DEF OnceInv, printerVars
  <1>1. /\ pc = "verify" /\ replies # <<>>
        /\ replies' = Tail(replies) /\ requests' = requests
    BY DEF IgnoreStray, CollectListing, ListReply, Receive
  <1>2. /\ Carried("list") /\ Listings(replies) /\ Listings(responses)
        /\ Own /\ ~remoteOpen /\ result # "uploaded"
    BY <1>1 DEF AtListing, AtEnd
  <1>3. Carried("list")' /\ Own' /\ ~remoteOpen'
    BY <1>1, <1>2 DEF Carried, Own
  <1>4. /\ Among(replies', replies) /\ Head(replies) = replies[1]
        /\ 1 \in DOMAIN replies
    BY <1>1, TailAmong DEF TypeOK
  <1>5. Listings(replies)'
    BY <1>2, <1>4 DEF Listings, Among
  <1>6. Listings(responses)'
    <2>1. CASE responses' = responses
      BY <1>2, <2>1 DEF Listings
    <2>2. CASE responses' = Append(responses, Head(replies))
      <3>1. \A i \in DOMAIN responses' :
               \/ \E j \in DOMAIN responses : responses'[i] = responses[j]
               \/ responses'[i] = replies[1]
        BY <1>1, <1>4, <2>2, HeadReply, AppendAmong DEF TypeOK
      <3>2. QED
        BY <1>2, <1>4, <3>1 DEF Listings
    <2>3. QED
      BY <2>1, <2>2 DEF IgnoreStray, CollectListing, ListReply
  <1>7. pc' \notin Early
    BY <1>1 DEF IgnoreStray, CollectListing, ListReply, Early
  <1>8. AtEnd'
    <2>1. CASE ListReply /\ result' = "uploaded"
      <3>1. pc' = "done" /\ attempt' = 0 /\ Verified(responses, Head(replies).n)
        BY <2>1 DEF ListReply
      <3>2. PICK i \in FileLines(responses) :
               responses[i].kind = "entry" /\ responses[i].n = Total
        BY <3>1 DEF Verified
      <3>3. i \in DOMAIN responses
        BY <3>2 DEF FileLines
      <3>4. QED
        BY <1>2, <3>1, <3>2, <3>3 DEF AtEnd, Listings
    <2>2. CASE result' # "uploaded"
      BY <2>2 DEF AtEnd
    <2>3. QED
      BY <1>2, <2>1, <2>2 DEF IgnoreStray, CollectListing
  <1>9. QED
    BY <1>3, <1>5, <1>6, <1>7, <1>8
       DEF OneOut, AtStart, AtCreate, AtBlock, AtSave, AtListing, Early

LEMMA OnceClient ==
    ASSUME TypeOK, OnceInv, Retries = 1, ClientStep, UNCHANGED printerVars
    PROVE  OnceInv'
  <1>1. CASE SendCommand \/ SendBlock
    BY <1>1, OnceSend
  <1>2. CASE IgnoreStray \/ CollectListing \/ ListReply
    BY <1>2, OnceListing
  <1>3. CASE /\ ConnectReply \/ CreateReply \/ AcceptBlock \/ ObeyResend \/ SaveReply
             /\ result' = result
    BY <1>3, OnceAnswer
  <1>4. CASE FrameError \/ RefuseResend \/ BlockRejected
    BY <1>4, OnceFail
       DEF FrameError, RefuseResend, BlockRejected, Fail, Unwinds, Early
  <1>5. CASE (ConnectReply \/ CreateReply \/ SaveReply) /\ result' # result
    BY <1>5, OnceFail
       DEF ConnectReply, CreateReply, SaveReply, Proceed, Fail, Unwinds, Early
  <1>6. CASE CloseReply \/ GiveUp
    <2>1. CASE pc = "close" /\ Proceed("done")
      BY <2>1, OnceFail DEF Proceed, OnceInv, AtEnd, Early
    <2>2. CASE \E v \in {"unanswered", "failed"} : Fail(v)
      BY <2>2, OnceFail DEF Fail, Unwinds, Early
    <2>3. QED
      BY <1>6, <2>1, <2>2 DEF CloseReply, GiveUp
  <1>7. AcceptBlock \/ ObeyResend => result' = result
    BY DEF AcceptBlock, ObeyResend, Proceed
  <1>8. QED
    BY <1>1, <1>2, <1>3, <1>4, <1>5, <1>6, <1>7 DEF ClientStep

\* An answer to the one request of the present phase.
LEMMA OnceAnswered ==
    ASSUME TypeOK, OnceInv, pc \in Early, Retries = 1, UNCHANGED clientVars,
           requests # <<>>, requests' = Tail(requests),
           NEW kind \in AnyReply, NEW n \in Nat, Reply(kind, n),
           pc = "create" => (kind \in StartsOk => Own'),
           pc = "block" =>
               /\ (kind \in StartsOk => offset + chunk <= Len(uploaded'))
               /\ (kind = "resend" => n <= Len(uploaded'))
               /\ offset <= Len(uploaded')
               /\ Own',
           pc = "save" => ~remoteOpen' /\ Own'
    PROVE  OnceInv'
  <1> DEFINE m == Message(kind, n)
  <1>1. /\ requests' = <<>> /\ replies = <<>> /\ attempt = 1
      /\ replies' = Append(replies, m) /\ m \in Replies
      /\ m.kind = kind /\ m.n = n
    BY RequestOut, MessageType DEF OnceInv, Reply, Message
  <1>2. replies' = <<m>>
    <2> HIDE DEF m
    <2>1. QED
      BY <1>1
  <1>3. /\ Len(replies') = 1 /\ DOMAIN replies' = {1} /\ replies'[1] = m
        /\ Len(requests') = 0 /\ DOMAIN requests' = {}
    <2> HIDE DEF m
    <2>1. Len(replies') = 1 /\ DOMAIN replies' = {1} /\ replies'[1] = m
      BY <1>1, <1>2
    <2>2. Len(requests') = 0 /\ DOMAIN requests' = {}
      <3>1. requests' = <<>> /\ requests' \in Seq(Requests)
        BY <1>1, EmptySeq
      <3>2. Len(requests') = 0
        BY <3>1, EmptySeq
      <3>3. QED
        BY <3>1, <3>2, LenProperties
    <2>3. QED
      BY <2>1, <2>2
  <1> HIDE DEF m
  <1>4. UNCHANGED <<pc, attempt, offset, chunk, result, responses>>
    BY DEF clientVars
  <1>5. OneOut'
    BY <1>1, <1>3, <1>4 DEF OnceInv, OneOut
  <1>6. (AtStart /\ AtCreate)'
    BY <1>1, <1>3, <1>4 DEF OnceInv, AtStart, AtCreate, Carried
  <1>7. AtBlock'
    BY <1>1, <1>3, <1>4 DEF OnceInv, AtBlock
  <1>8. AtSave'
    BY <1>1, <1>3, <1>4 DEF OnceInv, AtSave, Carried
  <1>9. (AtListing /\ AtEnd)'
    BY <1>4 DEF OnceInv, OneOut, AtListing, AtEnd, Early
  <1>10. QED
    BY <1>5, <1>6, <1>7, <1>8, <1>9 DEF OnceInv

\* The printer writes a block behind what it has, and answers for it.
LEMMA OnceStore ==
    ASSUME TypeOK, InPlaceInv, OnceInv, "splice" \notin Faults,
           pc = "block", StoreBlock
    PROVE  /\ offset + chunk <= Len(uploaded')
           /\ offset <= Len(uploaded')
           /\ Own'
  <1> DEFINE r == Head(requests)
  <1>1. /\ r = requests[1] /\ 1 \in DOMAIN requests /\ r \in Requests
        /\ r.kind = "block"
    BY TailAmong, HeadRequest DEF StoreBlock, Serve, TypeOK
  <1>2. r.offset \in Nat /\ r.data \in Seq(Int)
    BY <1>1, BlockShape, ClientAssumption DEF ClientAssumption
  <1>3. OwnBytes(r)
    BY <1>1 DEF InPlaceInv
  <1>4. r.offset = offset /\ Len(r.data) = chunk /\ Own
    BY <1>1 DEF OnceInv, AtBlock
  <1>5. uploaded' = WriteAt(uploaded, r.offset, r.data)
    BY DEF StoreBlock
  <1> HIDE DEF r
  <1>6. r.offset <= Len(uploaded)
    BY <1>4 DEF OnceInv, AtBlock
  <1>7. /\ Splices \subseteq {}
        /\ \A i \in DOMAIN uploaded : uploaded[i] \in {i - 1} \cup {}
    BY <1>4 DEF Own, Splices
  <1>8. \A i \in DOMAIN uploaded' : uploaded'[i] \in {i - 1} \cup {}
    BY <1>2, <1>3, <1>5, <1>6, <1>7, WriteInPlace DEF TypeOK
  <1>9. Len(uploaded') = IF offset + chunk > Len(uploaded) THEN offset + chunk
                         ELSE Len(uploaded)
    BY <1>2, <1>4, <1>5, WriteAtLen DEF TypeOK
  <1>10. /\ Len(uploaded) \in Nat /\ offset \in Nat /\ chunk \in Nat
         /\ offset <= Len(uploaded)
    BY <1>4, <1>6, LenProperties, ClientAssumption DEF ClientAssumption, TypeOK
  <1>11. QED
    BY <1>8, <1>9, <1>10 DEF Own

LEMMA OnceRemote ==
    ASSUME TypeOK, InPlaceInv, OnceInv, Retries = 1, "splice" \notin Faults,
           Remote
    PROVE  OnceInv'
  <1>1. /\ Printer /\ UNCHANGED clientVars
        /\ UNCHANGED <<pc, attempt, offset, chunk, result, responses>>
    BY DEF Remote, clientVars
  <1>2. /\ requests # <<>> /\ requests' = Tail(requests)
        /\ Head(requests) = requests[1] /\ 1 \in DOMAIN requests
        /\ Among(requests', requests)
    <2>1. requests # <<>> /\ requests' = Tail(requests)
      BY <1>1
         DEF Printer, HandleHello, HandleCreate, RefuseCreate, HandleSave,
             RejectBlock, AskResend, AskMissing, StoreBlock, HandleFileList,
             Serve
    <2>2. QED
      BY <2>1, TailAmong DEF TypeOK
  <1>3. CASE pc \in Early
    <2>1. /\ pc = "connect" => Head(requests).kind = "hello"
          /\ pc = "create" => Head(requests).kind = "create"
          /\ pc = "block" => /\ Head(requests).kind = "block"
                             /\ Head(requests).offset = offset
          /\ pc = "save" => Head(requests).kind = "save"
      BY <1>2 DEF OnceInv, AtStart, AtCreate, AtBlock, AtSave, Carried
    <2>2. CASE HandleHello
      <3>1. PICK kind \in HelloReplies : Reply(kind, 0)
        BY <2>2 DEF HandleHello
      <3>2. kind \in AnyReply /\ pc = "connect"
        BY <1>3, <2>1, <2>2, PrinterAssumption
           DEF PrinterAssumption, AnyReply, HandleHello, Serve, Early
      <3>3. QED
        BY <1>1, <1>2, <1>3, <3>1, <3>2, OnceAnswered
    <2>3. CASE HandleCreate
      <3>1. Reply("ok", 0) /\ pc = "create" /\ Own' /\ "ok" \in AnyReply
        BY <1>3, <2>1, <2>3 DEF HandleCreate, Serve, AnyReply, Own, Early
      <3>2. QED
        BY <1>1, <1>2, <1>3, <3>1, OnceAnswered
    <2>4. CASE RefuseCreate
      <3>1. /\ Reply("error", 0) /\ pc = "create"
            /\ "error" \in AnyReply \ StartsOk
        BY <1>3, <2>1, <2>4
           DEF RefuseCreate, Serve, AnyReply, StartsOk, Early
      <3>2. QED
        BY <1>1, <1>2, <1>3, <3>1, OnceAnswered
    <2>5. CASE HandleSave
      <3>1. PICK kind \in SaveReplies : Reply(kind, 0)
        BY <2>5 DEF HandleSave
      <3>2. /\ kind \in AnyReply /\ pc = "save" /\ ~remoteOpen'
            /\ Own' = Own
        BY <1>3, <2>1, <2>5, PrinterAssumption
           DEF PrinterAssumption, AnyReply, HandleSave, Serve, Own, Early
      <3>3. QED
        BY <1>1, <1>2, <1>3, <3>1, <3>2, OnceAnswered
           DEF OnceInv, AtSave
    <2>6. CASE RejectBlock \/ AskResend \/ AskMissing
      <3>1. /\ pc = "block" /\ Own /\ Own' = Own /\ offset <= Len(uploaded)
            /\ uploaded' = uploaded
            /\ Len(uploaded) \in Nat /\ offset \in Nat
        BY <1>3, <2>1, <2>6, LenProperties
           DEF RejectBlock, AskResend, AskMissing, Serve, printerVars, Own,
               Early, OnceInv, AtBlock, TypeOK
      <3>2. CASE Reply("error", 0)
        <4>1. "error" \in AnyReply \ StartsOk
          BY DEF AnyReply, StartsOk
        <4>2. QED
          BY <1>1, <1>2, <1>3, <3>1, <3>2, <4>1, OnceAnswered
      <3>3. CASE \E n \in 0 .. Len(uploaded) : Reply("resend", n)
        <4>1. PICK n \in 0 .. Len(uploaded) : Reply("resend", n)
          BY <3>3
        <4>2. "resend" \in AnyReply \ StartsOk /\ n \in Nat /\ n <= Len(uploaded')
          BY <3>1 DEF AnyReply, StartsOk
        <4>3. QED
          BY <1>1, <1>2, <1>3, <3>1, <4>1, <4>2, OnceAnswered
      <3>4. CASE AskResend
        <4>1. PICK r \in ResendAt : offset >= r /\ Reply("resend", r)
          BY <2>1, <3>1, <3>4 DEF AskResend
        <4>2. r \in 0 .. Len(uploaded)
          BY <3>1, <4>1, PrinterAssumption DEF PrinterAssumption
        <4>3. QED
          BY <3>3, <4>1, <4>2
      <3>5. QED
        BY <2>6, <3>1, <3>2, <3>3, <3>4 DEF RejectBlock, AskMissing
    <2>7. CASE StoreBlock
      <3>1. pc = "block" /\ Reply("ok", 0) /\ "ok" \in AnyReply
        BY <1>3, <2>1, <2>7 DEF StoreBlock, Serve, AnyReply, Early
      <3>2. QED
        BY <1>1, <1>2, <1>3, <2>7, <3>1, OnceStore, OnceAnswered
    <2>8. ~HandleFileList
      BY <1>3, <2>1 DEF HandleFileList, Serve, Early
    <2>9. QED
      BY <1>1, <2>2, <2>3, <2>4, <2>5, <2>6, <2>7, <2>8 DEF Printer
  <1>4. CASE pc = "verify" \/ result = "uploaded"
    <2>1. /\ Carried("list") /\ Listings(replies) /\ Listings(responses)
          /\ Own /\ ~remoteOpen /\ pc \notin Early
      BY <1>4 DEF OnceInv, AtListing, AtEnd, Early
    <2>2. HandleFileList
      BY <1>1, <1>2, <2>1
         DEF Carried, Printer, HandleHello, HandleCreate, RefuseCreate,
             HandleSave, RejectBlock, AskResend, AskMissing, StoreBlock, Serve
    <2>3. UNCHANGED <<uploaded, remoteOpen>> /\ Own' = Own
      BY <2>2 DEF HandleFileList, printerVars, Own
    <2>4. Carried("list")'
      BY <1>2, <2>1 DEF Carried, Among
    <2>5. \A i \in DOMAIN Listing :
             Listing[i].kind = "entry" => Listing[i].n = Len(uploaded)
      <3>1. CASE created
        BY <3>1 DEF Listing, Message
      <3>2. CASE ~created
        BY <3>2 DEF Listing, Message
      <3>3. QED
        BY <3>1, <3>2
    <2>6. Listings(replies')
      BY <2>1, <2>2, <2>3, <2>5, ListedReplies DEF Listings
    <2>7. QED
      BY <1>1, <2>1, <2>3, <2>4, <2>6
         DEF OnceInv, OneOut, AtStart, AtCreate, AtBlock, AtSave, AtListing,
             AtEnd, Early, Listings
  <1>5. CASE pc \notin Early \cup {"verify"} /\ result # "uploaded"
    BY <1>1, <1>5, OnceFail
  <1>6. QED
    BY <1>3, <1>4, <1>5

\* A fault that adds no datagram and leaves what a request asks for.
LEMMA OnceWire ==
    ASSUME TypeOK, TypeOK', OnceInv, UNCHANGED <<printerVars, clientVars>>,
           Len(requests') <= Len(requests), Len(replies') <= Len(replies),
           Among(replies', replies),
           \A i \in DOMAIN requests' : \E j \in DOMAIN requests :
               /\ requests'[i].kind = requests[j].kind
               /\ requests'[i].offset = requests[j].offset
               /\ requests'[i].data = requests[j].data
    PROVE  OnceInv'
  <1>1. /\ UNCHANGED <<pc, attempt, offset, chunk, result, responses>>
        /\ UNCHANGED <<uploaded, remoteOpen>> /\ Own' = Own
    BY DEF clientVars, printerVars, Own
  <1>2. OneOut'
    <2>1. /\ Len(requests) \in Nat /\ Len(replies) \in Nat
          /\ Len(requests') \in Nat /\ Len(replies') \in Nat
          /\ attempt \in Nat
      BY LenProperties, ClientAssumption DEF ClientAssumption, TypeOK
    <2>2. QED
      BY <1>1, <2>1 DEF OnceInv, OneOut
  <1>3. \A kind : Carried(kind) => Carried(kind)'
    BY DEF Carried
  <1>4. (AtStart /\ AtCreate /\ AtSave)'
    BY <1>1, <1>3 DEF OnceInv, AtStart, AtCreate, AtSave, Among
  <1>5. AtBlock'
    BY <1>1 DEF OnceInv, AtBlock, Among
  <1>6. (AtListing /\ AtEnd)'
    BY <1>1, <1>3 DEF OnceInv, AtListing, AtEnd, Listings, Among
  <1>7. QED
    BY <1>2, <1>4, <1>5, <1>6 DEF OnceInv

LEMMA OnceNetwork ==
    ASSUME TypeOK, TypeOK', OnceInv, Network,
           "duplicate" \notin Faults, "splice" \notin Faults
    PROVE  OnceInv'
  <1>1. /\ UNCHANGED <<printerVars, clientVars>>
        /\ ~DuplicateReply /\ ~SpliceBlock
    BY DEF Network, DuplicateReply, SpliceBlock, Commit
  <1>2. /\ Len(requests) \in Nat /\ Len(replies) \in Nat
        /\ requests \in Seq(Requests) /\ replies \in Seq(Replies)
    BY LenProperties DEF TypeOK
  <1>3. CASE LoseRequest \/ LoseReply
    BY <1>1, <1>2, <1>3, TailAmong, OnceWire
       DEF LoseRequest, LoseReply, Among
  <1>4. CASE ReorderRequests
    <2>1. PICK i \in 1 .. Len(requests) - 1 : requests' = Swapped(requests, i)
      BY <1>4 DEF ReorderRequests
    <2>2. Among(requests', requests) /\ Len(requests') = Len(requests)
      BY <1>2, <2>1, SwappedAmong, SwappedType
    <2>3. replies' = replies
      BY <1>4 DEF ReorderRequests
    <2>4. QED
      BY <1>1, <1>2, <2>2, <2>3, OnceWire DEF Among
  <1>5. CASE ReorderReplies
    <2>1. PICK i \in 1 .. Len(replies) - 1 : replies' = Swapped(replies, i)
      BY <1>5 DEF ReorderReplies
    <2>2. Among(replies', replies) /\ Len(replies') = Len(replies)
      BY <1>2, <2>1, SwappedAmong, SwappedType
    <2>3. requests' = requests
      BY <1>5 DEF ReorderReplies
    <2>4. QED
      BY <1>1, <1>2, <2>2, <2>3, OnceWire DEF Among
  <1>6. CASE CorruptBlock
    <2>1. PICK i \in DOMAIN requests :
             /\ requests[i].kind = "block"
             /\ requests' = [requests EXCEPT ![i].sound = FALSE]
      BY <1>6 DEF CorruptBlock
    <2>2. requests[i] \in Requests /\ i \in 1 .. Len(requests)
      BY ElementOfSeq, LenProperties DEF TypeOK
    <2>3. [requests[i] EXCEPT !.sound = FALSE] \in Requests
      BY <2>1, <2>2, BlockShape DEF Requests
    <2>4. Len(requests') = Len(requests) /\ DOMAIN requests' = DOMAIN requests
      BY <1>2, <2>1, <2>2, <2>3, ExceptSeq
    <2>5. /\ requests'[i].kind = requests[i].kind
          /\ requests'[i].data = requests[i].data
          /\ requests'[i].offset = requests[i].offset
      BY <2>1, <2>2, BlockShape
    <2>6. \A j \in DOMAIN requests : j # i => requests'[j] = requests[j]
      BY <2>1
    <2>7. replies' = replies
      BY <1>6 DEF CorruptBlock
    <2>8. QED
      BY <1>1, <1>2, <2>4, <2>5, <2>6, <2>7, OnceWire DEF Among
  <1>7. QED
    BY <1>1, <1>3, <1>4, <1>5, <1>6 DEF Network, Fault

\* An interruption fails the upload; an edit is not seen on the wire.
LEMMA OnceUser ==
    ASSUME OnceInv, User
    PROVE  OnceInv'
  <1>1. CASE Interrupt
    BY <1>1, OnceFail DEF Interrupt, Fail, Unwinds, Early
  <1>2. CASE EditLocal
    BY <1>2
       DEF EditLocal, User, wireVars, printerVars, progressVars, OnceInv,
           OneOut, AtStart, AtCreate, AtBlock, AtSave, AtListing, AtEnd,
           Carried, Listings, Own
  <1>3. QED
    BY <1>1, <1>2 DEF User

LEMMA OnceNext ==
    ASSUME Retries = 1, "duplicate" \notin Faults, "splice" \notin Faults
    PROVE  TypeOK /\ TypeOK' /\ InPlaceInv /\ OnceInv /\ [Next]_vars
               => OnceInv'
  <1> SUFFICES ASSUME TypeOK, TypeOK', InPlaceInv, OnceInv, [Next]_vars
               PROVE  OnceInv'
    OBVIOUS
  <1>1. CASE Terminated \/ UNCHANGED vars
    BY <1>1
       DEF Terminated, vars, wireVars, printerVars, clientVars, OnceInv,
           OneOut, AtStart, AtCreate, AtBlock, AtSave, AtListing, AtEnd,
           Carried, Listings, Own
  <1>2. QED
    BY <1>1, OnceClient, OnceUser, OnceNetwork, OnceRemote DEF Next, Client

LEMMA OnceHolds ==
    ASSUME Retries = 1, "duplicate" \notin Faults, "splice" \notin Faults
    PROVE  Spec => []OnceInv
  <1>1. TypeOK /\ TypeOK' /\ InPlaceInv /\ OnceInv /\ [Next]_vars => OnceInv'
    BY OnceNext
  <1>2. QED
    BY TypeInit, TypeNext, SendsInit, SendsNext, InPlaceInit, InPlaceNext,
       OnceInit, <1>1, PTL DEF Spec

\* client.py: "an unanswered file block must fail closed".  While a block is
\* being sent every byte before it is in the printer, when a command is sent
\* once, no reply comes twice and the checksum detects all damage:
\* neither a loss, a damaged block, a reordering nor an older file can make
\* one answer pass for another's.
THEOREM AcknowledgedStored ==
    ASSUME Retries = 1, "duplicate" \notin Faults, "splice" \notin Faults
    PROVE  Spec => []AcknowledgedIsStored
  <1>1. OnceInv => AcknowledgedIsStored
    BY DEF OnceInv, AtBlock, AcknowledgedIsStored
  <1>2. QED
    BY OnceHolds, <1>1, PTL

\* Under the same conditions success means the whole local file, even over
\* an older file of that name.
THEOREM SuccessReplacesOlder ==
    ASSUME Retries = 1, "duplicate" \notin Faults, "splice" \notin Faults
    PROVE  Spec => []SuccessMeansSource
  <1>1. TypeOK /\ OnceInv => SuccessMeansSource
    <2> SUFFICES ASSUME TypeOK, OnceInv, result = "uploaded"
                 PROVE  uploaded = [i \in 1 .. Total |-> i - 1]
      BY DEF SuccessMeansSource
    <2>1. Len(uploaded) = Total /\ \A i \in DOMAIN uploaded : uploaded[i] = i - 1
      BY DEF OnceInv, AtEnd, AtListing, Own
    <2>2. QED
      BY <2>1, WholeFile DEF TypeOK
  <1>2. QED
    BY TypeInit, TypeNext, OnceHolds, <1>1, PTL DEF Spec

\* README: "M29 must confirm that the destination file was saved".  It does
\* when every command is sent once and its answer comes once: without the
\* second answer to an earlier command the run stale_save_ack has nothing to
\* take for the answer to M29.
THEOREM SuccessIsSaved ==
    ASSUME Retries = 1, "duplicate" \notin Faults, "splice" \notin Faults
    PROVE  Spec => []SuccessMeansSaved
  <1>1. OnceInv => SuccessMeansSaved
    BY DEF OnceInv, AtListing, SuccessMeansSaved
  <1>2. QED
    BY OnceHolds, <1>1, PTL
=============================================================================
