----------------------------- MODULE GuidedTest -----------------------------
(***************************************************************************)
(* The guided Z, motion and selector diagnostic: _guided_z_test of the     *)
(* command line and _guided_hot_z_test of qidi-z-test, which replaces the  *)
(* helpers of the first.  Both are one program here; hot tells them apart. *)
(*                                                                         *)
(* Between two questions to the operator the program sends a fixed script  *)
(* of commands and waits for an answer to each (todo); an exception ends   *)
(* the test, through the finally clause that asks for G90 if it left the   *)
(* section between G91 and G90.                                            *)
(***************************************************************************)
EXTENDS MotionPrinter

CONSTANTS
    Distance,         \* --distance, the clearance
    Hop,              \* --zhop-distance
    Cycles,           \* --cycles
    HopCycles,        \* --zhop-cycles
    SweepCycles,      \* --xy-cycles
    SelectorCycles,   \* --selector-cycles
    Tries,            \* the values --retries may have
    MaxRetransmits,   \* bound on the commands sent a second time
    PromptsSettle     \* the operator takes longer than any datagram

ASSUME TestAssumption ==
    /\ Distance \in Nat \ {0}
    /\ Hop \in Nat \ {0}
    /\ {Cycles, HopCycles, SweepCycles, SelectorCycles} \subseteq Nat \ {0}
    /\ Tries # {} /\ Tries \subseteq Nat \ {0}
    /\ MaxRetransmits \in Nat
    /\ PromptsSettle \in BOOLEAN

VARIABLES
    hot,           \* which of the two programs runs
    retries,       \* --retries of this run
    pc,            \* a script being run, a question, or how the test ended
    phase,         \* 1 .. Cycles + 3: the cycles, then ZHOP, MOTION, SELECTOR
    todo,          \* commands of the script not yet answered
    attempt,       \* sends of the first of them
    mode,          \* the positioning mode last asked for
    base,          \* base_z of the hot Z hops
    retransmits

testVars == <<hot, retries, pc, phase, todo, attempt, mode, base, retransmits>>
vars == <<wireVars, motionVars, testVars>>

Scripts == {"connect", "baseline", "thermal", "away", "back", "unwind"}
Questions == {"mechready?", "ready?", "thermal?", "offer?", "return?"}
Ends == {"completed", "aborted", "lowered", "failed"}

(***************************************************************************)
(* Scripts                                                                 *)
(***************************************************************************)

Relative == Command("relative", 0)
Absolute == Command("absolute", 0)
Wait == Command("wait", 0)
Position == Command("position", 0)
Bed(to) == Command("z", to)
Carriage(to) == Command("carriage", to)

\* M114 whose answer is read for the height the hops start from.
Probe == Command("probe", 0)

Repeat(s, n) == [i \in 1 .. n * Len(s) |-> s[1 + ((i - 1) % Len(s))]]

MoveLeftRelative(delta) ==   \* slip: absolute positioning is not restored
    <<Relative, Bed(delta), Wait>>

RelativeMove(delta) == <<Relative, Bed(delta), Wait, Absolute>>

ColdHops ==
    <<Relative>> \o Repeat(<<Bed(Hop), Bed(-Hop)>>, HopCycles)
    \o <<Wait, Absolute>>

HopsWithoutFinish(b) ==   \* slip: the baseline is not commanded again
    <<Absolute>> \o Repeat(<<Bed(b + Hop), Bed(b)>>, HopCycles) \o <<Wait>>

HotHops(b) ==
    <<Absolute>> \o Repeat(<<Bed(b + Hop), Bed(b)>>, HopCycles)
    \o <<Bed(b), Wait>>

Sweeps ==
    <<Absolute>>
    \o Repeat(<<Carriage("corner1"), Carriage("corner2"),
                Carriage("corner3"), Carriage("corner4")>>, SweepCycles)
    \o <<Carriage("center"), Wait>>

Latches ==
    <<Absolute>>
    \o Repeat(<<Carriage("away"), Wait, Carriage("selected"), Wait>>,
              SelectorCycles)
    \o <<Carriage("center"), Wait>>

Lower == RelativeMove(Distance) \o <<Position>>

PhaseName(i) ==
    IF i <= Cycles THEN "cycle"
    ELSE <<"zhop", "motion", "selector">>[i - Cycles]

AwayWithoutLowering(name) ==   \* slip: the sweeps start at the reference
    IF name = "motion" THEN Sweeps \o <<Position>> ELSE Lower

Away(name) ==
    CASE name = "cycle" -> Lower
      [] name = "zhop" -> Lower \o (IF hot THEN <<Probe>>
                                    ELSE ColdHops \o <<Position>>)
      [] name = "motion" -> Lower \o Sweeps \o <<Position>>
      [] name = "selector" -> Lower \o Latches \o <<Position>>

Back == RelativeMove(-Distance) \o <<Position>>

(***************************************************************************)
(* Moving on                                                               *)
(***************************************************************************)

TestInit ==
    /\ hot \in BOOLEAN
    /\ retries \in Tries
    /\ pc = "connect"
    /\ phase = 1
    /\ todo = <<Command("hello", 0)>>
    /\ attempt = 0
    /\ mode = "absolute"
    /\ base = Reference
    /\ retransmits = 0

Run(script, commands) == pc' = script /\ todo' = commands
Ask(question) == pc' = question /\ todo' = <<>>
End(how) == pc' = how /\ todo' = <<>>

\* The Z cycles are not optional, the three stress phases are.
EnterPhase(i) ==
    IF i > Cycles + 3 THEN End("completed") /\ UNCHANGED phase
    ELSE /\ phase' = i
         /\ IF i <= Cycles THEN Run("away", Away("cycle")) ELSE Ask("offer?")

\* What follows a script whose commands are all answered.
Continue ==
    \/ pc = "connect" /\ Ask("mechready?") /\ UNCHANGED phase
    \/ pc = "baseline" /\ hot /\ Ask("thermal?") /\ UNCHANGED phase
    \/ pc = "baseline" /\ ~hot /\ EnterPhase(1)
    \/ pc = "thermal" /\ EnterPhase(1)
    \/ pc = "away" /\ Ask("return?") /\ UNCHANGED phase
    \/ pc = "back" /\ EnterPhase(phase + 1)
    \/ pc = "unwind" /\ End("failed") /\ UNCHANGED phase

\* While the operator thinks, the datagrams under way may all arrive; what is
\* in the socket then is discarded by the next send.
Settle ==
    IF PromptsSettle THEN requests = <<>> /\ replies' = <<>>
    ELSE UNCHANGED replies

\* The operator's answer: the exact word, or anything else.
Operator(agrees) ==
    /\ pc \in Questions
    /\ \/ /\ pc = "mechready?"
          /\ IF agrees THEN Ask("ready?") ELSE End("aborted")
          /\ UNCHANGED phase
       \/ /\ pc = "ready?"
          /\ IF agrees THEN Run("baseline", <<Position>>) ELSE End("aborted")
          /\ UNCHANGED phase
       \/ /\ pc = "thermal?"
          /\ IF agrees
             THEN Run("thermal", <<Position, Position>>) /\ UNCHANGED phase
             ELSE EnterPhase(1)
       \/ /\ pc = "offer?"
          /\ IF agrees
             THEN Run("away", Away(PhaseName(phase))) /\ UNCHANGED phase
             ELSE EnterPhase(phase + 1)
       \/ /\ pc = "return?"
          /\ IF agrees THEN Run("back", Back) ELSE End("lowered")
          /\ UNCHANGED phase
    /\ Settle
    /\ UNCHANGED <<requests, faults, motionVars, hot, retries, attempt, mode,
                   base, retransmits>>

(***************************************************************************)
(* Commands                                                                *)
(***************************************************************************)

OneMoreAttempt(cmd) == retries + 1   \* slip: off by one

\* The hot program sends its barrier once, with a timeout that suits the move.
AttemptsAt(cmd) == IF hot /\ cmd.kind = "wait" THEN 1 ELSE retries

Datagram(cmd) == IF cmd.kind = "probe" THEN Position ELSE cmd

\* The first send discards what has reached the socket.
Send ==
    /\ todo # <<>>
    /\ pc \in Scripts
    /\ attempt < AttemptsAt(Head(todo))
    /\ IF attempt = 0
       THEN /\ \E n \in 0 .. Len(replies) :
                  replies' = SubSeq(replies, n + 1, Len(replies))
            /\ UNCHANGED retransmits
       ELSE /\ retransmits < MaxRetransmits
            /\ retransmits' = retransmits + 1
            /\ UNCHANGED replies
    /\ requests' = Append(requests, Datagram(Head(todo)))
    /\ attempt' = attempt + 1
    /\ mode' = IF Head(todo).kind \in {"absolute", "relative"}
               THEN Head(todo).kind ELSE mode
    /\ UNCHANGED <<faults, motionVars, hot, retries, pc, phase, todo, base>>

ErrorsAnswer(cmd, reply) == TRUE   \* slip: an error reply is not raised

\* Any text that is no error answers the command; the probe wants a "Z:".
Answers(cmd, reply) ==
    /\ reply.kind # "error"
    /\ cmd.kind = "probe" => reply.kind \in {"position", "hello"}

Receive ==
    /\ attempt > 0
    /\ replies # <<>>
    /\ replies' = Tail(replies)
    /\ attempt' = 0
    /\ UNCHANGED <<requests, faults, motionVars, hot, retries, mode, retransmits>>

Advance ==
    /\ Receive
    /\ Answers(Head(todo), Head(replies))
    /\ IF Head(todo).kind = "probe"
       THEN /\ base' = Head(replies).z
            /\ todo' = HotHops(base') \o <<Position>>
            /\ UNCHANGED <<pc, phase>>
       ELSE /\ UNCHANGED base
            /\ IF Len(todo) > 1 THEN todo' = Tail(todo) /\ UNCHANGED <<pc, phase>>
               ELSE Continue

(***************************************************************************)
(* Exceptions                                                              *)
(***************************************************************************)

NeverInTry == FALSE   \* slip: G91 and G90 without try and finally

\* G91 has been answered and the G90 that closes the section not been sent.
InTry ==
    /\ pc # "unwind"
    /\ mode = "relative"
    /\ todo # <<>>
    /\ Head(todo).kind # "relative"

Unwind ==
    /\ IF InTry THEN Run("unwind", <<Absolute>>)
       ELSE pc' = "failed" /\ UNCHANGED todo
    /\ UNCHANGED <<phase, base>>

ErrorReply ==
    /\ Receive
    /\ ~Answers(Head(todo), Head(replies))
    /\ Unwind

GiveUp ==
    /\ attempt > 0
    /\ attempt = AttemptsAt(Head(todo))
    /\ Unwind
    /\ attempt' = 0
    /\ UNCHANGED <<wireVars, motionVars, hot, retries, mode, retransmits>>

\* Ctrl-C, once.
Interrupt ==
    /\ pc \notin Ends \cup {"unwind"}
    /\ Unwind
    /\ attempt' = 0
    /\ UNCHANGED <<wireVars, motionVars, hot, retries, mode, retransmits>>

(***************************************************************************)
(* The whole                                                               *)
(***************************************************************************)

Init == WireInit /\ MotionInit /\ TestInit

Client ==
    \/ Send
    \/ Advance
    \/ ErrorReply
    \/ GiveUp
    \/ Interrupt
    \/ \E agrees \in BOOLEAN : Operator(agrees)

Next ==
    \/ Client
    \/ Firmware /\ UNCHANGED testVars
    \/ (LoseRequest \/ LoseReply \/ DuplicateReply)
           /\ UNCHANGED <<motionVars, testVars>>

Spec == Init /\ [][Next]_vars

(***************************************************************************)
(* Properties                                                              *)
(***************************************************************************)

Clear == z >= Reference + Distance

\* A script has commands left, and an attempt is out only in a script.
TypeOK ==
    /\ z \in Int
    /\ relative \in BOOLEAN
    /\ refused \in BOOLEAN
    /\ hot \in BOOLEAN
    /\ pc \in Scripts \cup Questions \cup Ends
    /\ phase \in 1 .. Cycles + 3
    /\ pc \in Scripts => todo # <<>>
    /\ retries \in Tries
    /\ attempt \in 0 .. retries
    /\ attempt > 0 => pc \in Scripts
    /\ mode \in {"absolute", "relative"}
    /\ retransmits \in 0 .. MaxRetransmits

\* With one attempt per command, "every motion stress phase first lowers the
\* bed": the carriage moves only over a bed that is clear, and never in
\* relative mode, where its targets would be distances.
CarriageMovesClear == [][retries = 1 /\ x' # x => Clear /\ ~relative]_vars

\* Nothing but a repeated command can bring the bed nearer to the nozzle than
\* where the operator set the gauge: not a loss, an error reply, Ctrl-C or an
\* abandoned return.
SingleKeepsReference == retries = 1 => z >= Reference

\* With one attempt per command, a test that reports completion has brought
\* the bed back where it was, and one that reports "bed_left_lowered" has left
\* it clear.
EndsWhereReported ==
    retries = 1 =>
        /\ pc = "completed" => z = Reference /\ ~relative
        /\ pc = "lowered" => Clear

\* The try section is always closed: a test can only end in relative mode on
\* the G91 itself.
MovesAreUnwound ==
    pc \in Ends /\ mode = "relative"
        => todo # <<>> /\ Head(todo).kind = "relative"

\* The hot Z hops, with the baseline commanded twice at the end, end at the
\* height they started from although a command was lost or some were sent
\* twice (docs/qidi-ifast-z-diagnostic.md:83-85), if the printer obeys: an error
\* reply that comes late is discarded unseen.
HopsEndAtBase ==
    /\ faults <= 1 /\ ~refused
    /\ hot /\ pc = "return?" /\ PhaseName(phase) = "zhop"
    /\ requests = <<>>
    => z = base

(***************************************************************************)
(* What the documentation says and the code does not do                    *)
(***************************************************************************)

\* docs/qidi-ifast-z-diagnostic.md:85: relative motion "was removed" so that a
\* duplicated command cannot bias the test: the bed never passes the gauge.
NeverPastReference == z >= Reference
=============================================================================
