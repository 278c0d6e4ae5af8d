---------------------------- MODULE FileTransfer ----------------------------
(***************************************************************************)
(* What an upload promises, with no protocol in it: a destination file is  *)
(* created and written in place, in any order that leaves no hole, and the *)
(* caller hears one verdict.  "uploaded" may be said only of a file of the *)
(* announced size, and from then on the file is not touched again.  The    *)
(* content is not promised: a write may carry spliced bytes, which nobody  *)
(* can tell from the file's own.                                           *)
(***************************************************************************)
EXTENDS Integers, Sequences

CONSTANTS
    Size,       \* size of the local file
    OldSizes,   \* sizes the destination may have beforehand
    MaxWrite    \* most bytes one write carries

VARIABLES stored, verdict

Old == -1
Spliced == -3

Init ==
    /\ \E n \in OldSizes : stored = [i \in 1 .. n |-> Old]
    /\ verdict = "none"

Create ==
    /\ verdict # "uploaded"
    /\ stored' = <<>>
    /\ UNCHANGED verdict

\* n bytes at position at, which lies within the file or at its end: those
\* the local file has there, or spliced ones.
Write(at, n, own) ==
    /\ verdict # "uploaded"
    /\ at <= Len(stored)
    /\ stored' = [i \in 1 .. (IF at + n > Len(stored) THEN at + n
                              ELSE Len(stored)) |->
                     IF i > at /\ i <= at + n
                     THEN IF own THEN i - 1 ELSE Spliced
                     ELSE stored[i]]
    /\ UNCHANGED verdict

Accept ==
    /\ verdict = "none"
    /\ Len(stored) = Size
    /\ verdict' = "uploaded"
    /\ UNCHANGED stored

\* Datagrams still on their way may write after a failure was reported.
Reject ==
    /\ verdict # "uploaded"
    /\ verdict' \in {"failed", "unanswered", "interrupted"}
    /\ UNCHANGED stored

Next ==
    \/ Create
    \/ \E at \in 0 .. Size - 1, n \in 1 .. MaxWrite, own \in BOOLEAN :
          Write(at, n, own)
    \/ Accept
    \/ Reject

Spec == Init /\ [][Next]_<<stored, verdict>>
=============================================================================
