---------------------------- MODULE MockPrinter -----------------------------
(***************************************************************************)
(* The printer's side of an upload, after the emulator the repository      *)
(* tests its client with (mock_printer.py).  A stored byte is the position *)
(* in the local file it was read from, or one of three markers: OldByte    *)
(* for a byte left from an earlier upload under the same name, ZeroByte    *)
(* for the padding the emulator writes past the end of the file, and       *)
(* SplicedByte for a byte that arrived as another one, unnoticed.          *)
(***************************************************************************)
EXTENDS LegacyWire

CONSTANTS
    OldSizes,       \* sizes the destination file may have beforehand
    ResendAt,       \* offsets at which the printer may ask for a resend
    HelloReplies,   \* the ways it answers M4001
    CreateReplies,  \* the ways it answers M28
    SaveReplies,    \* the ways it answers M29
    StaleReplies    \* what it may send before a listing

ASSUME PrinterAssumption ==
    /\ OldSizes \subseteq Nat
    /\ ResendAt \subseteq Nat
    /\ HelloReplies \subseteq {"hello", "okHello"}
    /\ CreateReplies \subseteq {"ok", "error"}
    /\ SaveReplies \subseteq {"ok", "saved"}
    /\ StaleReplies \subseteq {"okHello"}

VARIABLES
    uploaded,    \* the bytes of the destination file
    created,     \* the destination file is in the listing
    remoteOpen   \* an M28 has been obeyed and no M29 since

printerVars == <<uploaded, created, remoteOpen>>

OldByte == -1
ZeroByte == -2
SplicedByte == -3

PrinterInit ==
    /\ \E size \in OldSizes :
          /\ uploaded = [i \in 1 .. size |-> OldByte]
          /\ created = (size > 0)
    /\ remoteOpen = FALSE

Message(kind, n) == [kind |-> kind, n |-> n]

\* _serve hands the next datagram to its handler, which answers at once.
Serve(kind) ==
    /\ requests # <<>>
    /\ Head(requests).kind = kind
    /\ requests' = Tail(requests)
    /\ UNCHANGED faults

Reply(kind, n) == replies' = Append(replies, Message(kind, n))

HandleHello ==
    /\ Serve("hello")
    /\ \E kind \in HelloReplies : Reply(kind, 0)
    /\ UNCHANGED printerVars

HandleCreate ==
    /\ Serve("create")
    /\ "ok" \in CreateReplies
    /\ Reply("ok", 0)
    /\ uploaded' = <<>>
    /\ created' = TRUE
    /\ remoteOpen' = TRUE

\* "Error!Cann't create file": no storage in the printer.
RefuseCreate ==
    /\ Serve("create")
    /\ "error" \in CreateReplies
    /\ Reply("error", 0)
    /\ UNCHANGED printerVars

HandleSave ==
    /\ Serve("save")
    /\ \E kind \in SaveReplies : Reply(kind, 0)
    /\ remoteOpen' = FALSE
    /\ UNCHANGED <<uploaded, created>>

WriteAtAppends(file, offset, data) == file \o data   \* slip: appends

\* Bytes written past the end are preceded by padding, as extend() does.
WriteAt(file, offset, data) ==
    LET end == offset + Len(data)
    IN  [i \in 1 .. (IF end > Len(file) THEN end ELSE Len(file)) |->
            IF i > offset /\ i <= end THEN data[i - offset]
            ELSE IF i <= Len(file) THEN file[i]
            ELSE ZeroByte]

LeavesGapNever(offset) == FALSE   \* slip: no gap check

LeavesGap(offset) == offset > Len(uploaded)

\* parse_file_block raised: nothing is stored.
RejectBlock ==
    /\ Serve("block")
    /\ ~Head(requests).sound
    /\ Reply("error", 0)
    /\ UNCHANGED printerVars

AskResend ==
    /\ Serve("block")
    /\ Head(requests).sound
    /\ \E r \in ResendAt :
          /\ Head(requests).offset >= r
          /\ Reply("resend", r)
    /\ UNCHANGED printerVars

AskMissing ==
    /\ Serve("block")
    /\ Head(requests).sound
    /\ LeavesGap(Head(requests).offset)
    /\ Reply("resend", Len(uploaded))
    /\ UNCHANGED printerVars

StoreBlock ==
    /\ Serve("block")
    /\ Head(requests).sound
    /\ ~LeavesGap(Head(requests).offset)
    /\ uploaded' = WriteAt(uploaded, Head(requests).offset, Head(requests).data)
    /\ Reply("ok", 0)
    /\ UNCHANGED <<created, remoteOpen>>

Listing ==
    <<Message("begin", 0)>>
    \o (IF created THEN <<Message("entry", Len(uploaded))>> ELSE <<>>)
    \o <<Message("end", 0), Message("count", IF created THEN 1 ELSE 0)>>

\* "stale_handshake_before_file_list": an old answer may come first.
HandleFileList ==
    /\ Serve("list")
    /\ \/ replies' = replies \o Listing
       \/ \E kind \in StaleReplies :
             replies' = Append(replies, Message(kind, 0)) \o Listing
    /\ UNCHANGED printerVars

Printer ==
    \/ HandleHello
    \/ HandleCreate
    \/ RefuseCreate
    \/ HandleSave
    \/ RejectBlock
    \/ AskResend
    \/ AskMissing
    \/ StoreBlock
    \/ HandleFileList
=============================================================================
