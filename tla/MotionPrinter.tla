--------------------------- MODULE MotionPrinter ---------------------------
(***************************************************************************)
(* The i-Fast firmware as the guided Z tests use it: positioning modes,    *)
(* moves, the motion barrier and the position report, one command at a     *)
(* time in the order they arrive.  Positive Z lowers the bed away from the *)
(* nozzle.  A move is over when it is answered: a queued move is one that  *)
(* has not been handled yet.                                               *)
(***************************************************************************)
EXTENDS LegacyWire

CONSTANTS
    Reference,    \* bed height at which the operator set the gauge
    HandshakeZ,   \* the number after "Z:" in the answer to M4001
    Refused       \* kinds of command the firmware may answer with an error

ASSUME HeightAssumption == Reference \in Int /\ HandshakeZ \in Int

VARIABLES
    z,           \* bed height
    relative,    \* G91 rather than G90
    x,           \* the carriage: "center", a corner or a wall, or "astray"
    refused      \* history: some command was answered with an error

motionVars == <<z, relative, x, refused>>

MotionInit ==
    /\ z = Reference
    /\ relative = FALSE
    /\ x = "center"
    /\ refused = FALSE

Command(kind, to) == [kind |-> kind, to |-> to]

Answer(kind, height) == [kind |-> kind, z |-> height]

\* The next request, answered.
Obey(kinds, answer) ==
    /\ requests # <<>>
    /\ Head(requests).kind \in kinds
    /\ requests' = Tail(requests)
    /\ replies' = Append(replies, answer)
    /\ UNCHANGED faults

Handshake == Obey({"hello"}, Answer("hello", HandshakeZ)) /\ UNCHANGED motionVars

SetMode ==
    /\ Obey({"absolute", "relative"}, Answer("ok", 0))
    /\ relative' = (Head(requests).kind = "relative")
    /\ UNCHANGED <<z, x, refused>>

MoveBed ==
    /\ Obey({"z"}, Answer("ok", 0))
    /\ z' = IF relative THEN z + Head(requests).to ELSE Head(requests).to
    /\ UNCHANGED <<relative, x, refused>>

MoveCarriage ==
    /\ Obey({"carriage"}, Answer("ok", 0))
    /\ x' = IF relative THEN "astray" ELSE Head(requests).to
    /\ UNCHANGED <<z, relative, refused>>

Barrier == Obey({"wait"}, Answer("ok", 0)) /\ UNCHANGED motionVars

Report == Obey({"position"}, Answer("position", z)) /\ UNCHANGED motionVars

Refuse ==
    /\ Obey(Refused, Answer("error", 0))
    /\ refused' = TRUE
    /\ UNCHANGED <<z, relative, x>>

Firmware ==
    \/ Handshake
    \/ SetMode
    \/ MoveBed
    \/ MoveCarriage
    \/ Barrier
    \/ Report
    \/ Refuse
=============================================================================
