----------------------------- MODULE LegacyWire -----------------------------
(***************************************************************************)
(* The UDP path between one QidiLegacyClient socket and the printer.       *)
(*                                                                         *)
(* requests holds the datagrams on their way to the printer and replies    *)
(* those on their way back, the socket's receive buffer included: a reply  *)
(* that is slow and a reply that waits unread are the same thing to the    *)
(* code, which can only time out.  Both queues are FIFO unless a fault     *)
(* reorders them.  Datagrams carry no sequence number, which is the root   *)
(* of everything interesting in this protocol.                             *)
(***************************************************************************)
EXTENDS Integers, Sequences

CONSTANTS
    Faults,     \* the kinds of fault the network may commit
    MaxFaults   \* bound on their total number

ASSUME WireAssumption ==
    /\ Faults \subseteq {"lose", "duplicate", "reorder", "corrupt", "splice"}
    /\ MaxFaults \in Nat

VARIABLES
    requests,   \* datagrams sent by the client and not yet handled
    replies,    \* datagrams sent by the printer and not yet received
    faults      \* faults committed so far

wireVars == <<requests, replies, faults>>

WireInit ==
    /\ requests = <<>>
    /\ replies = <<>>
    /\ faults = 0

Commit(fault) ==
    /\ fault \in Faults
    /\ faults < MaxFaults
    /\ faults' = faults + 1

LoseRequest ==
    /\ Commit("lose")
    /\ requests # <<>>
    /\ requests' = Tail(requests)
    /\ UNCHANGED replies

LoseReply ==
    /\ Commit("lose")
    /\ replies # <<>>
    /\ replies' = Tail(replies)
    /\ UNCHANGED requests

\* "legacy QIDI firmware can emit delayed duplicates": the copy comes later.
DuplicateReply ==
    /\ Commit("duplicate")
    /\ replies # <<>>
    /\ replies' = Append(replies, Head(replies))
    /\ UNCHANGED requests

Swapped(queue, i) == [queue EXCEPT ![i] = queue[i + 1], ![i + 1] = queue[i]]

ReorderRequests ==
    /\ Commit("reorder")
    /\ \E i \in 1 .. Len(requests) - 1 : requests' = Swapped(requests, i)
    /\ UNCHANGED replies

ReorderReplies ==
    /\ Commit("reorder")
    /\ \E i \in 1 .. Len(replies) - 1 : replies' = Swapped(replies, i)
    /\ UNCHANGED requests

\* Damage the XOR checksum of framing.py detects.  ("splice" is the damage it
\* does not detect; what that does to a block, UploadSystem says.)
CorruptBlock ==
    /\ Commit("corrupt")
    /\ \E i \in DOMAIN requests :
          /\ requests[i].kind = "block"
          /\ requests' = [requests EXCEPT ![i].sound = FALSE]
    /\ UNCHANGED replies

Fault ==
    \/ LoseRequest
    \/ LoseReply
    \/ DuplicateReply
    \/ ReorderRequests
    \/ ReorderReplies
    \/ CorruptBlock
=============================================================================
