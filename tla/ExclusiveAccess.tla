--------------------------- MODULE ExclusiveAccess ---------------------------
(***************************************************************************)
(* What docs/exclusive-communication.md promises, with no threads in it:   *)
(* the printer is a single-client, single-operation interface.  One job at *)
(* a time is on the wire; a poll is asked for only by the registered       *)
(* device, which asks for none from the moment it asks for an upload until *)
(* that is reported, and for nothing at all while it is paused; a device   *)
(* that was replaced never asks again.                                     *)
(***************************************************************************)
EXTENDS Integers

VARIABLES
    made,     \* devices are numbered in the order they are made
    active,   \* the registered one, 0 if none
    silent,   \* whether it is paused
    asked,    \* jobs not yet reported to their device
    wire,     \* the job talking to the printer, or NoJob
    served    \* jobs that have talked and are to be reported

accessVars == <<made, active, silent, asked, wire, served>>

Poll(d) == [kind |-> "monitor", device |-> d]
Upload(d) == [kind |-> "upload", device |-> d]
NoJob == [kind |-> "none", device |-> 0]

Init ==
    /\ made = 0
    /\ active = 0
    /\ silent = FALSE
    /\ asked = {}
    /\ wire = NoJob
    /\ served = {}

\* Besides these jobs the registered device may ask for a poll.
Asks(jobs) ==
    \/ asked' = jobs
    \/ /\ active' # 0
       /\ ~silent'
       /\ Upload(active') \notin jobs
       /\ asked' = jobs \cup {Poll(active')}

Deregister ==
    /\ active' = 0
    /\ silent' = FALSE
    /\ UNCHANGED <<made, asked, wire, served>>

\* A new device.  One made enabled asks for its first poll at once, even when
\* the dialog it was made for then pauses it.
Register ==
    /\ made' = made + 1
    /\ active' = made'
    /\ silent' \in BOOLEAN
    /\ asked' = asked \/ asked' = asked \cup {Poll(active')}
    /\ UNCHANGED <<wire, served>>

\* The user pauses or resumes, or the poll timer fires.
Set ==
    /\ active # 0
    /\ silent' \in BOOLEAN
    /\ UNCHANGED <<made, active, wire, served>>
    /\ Asks(asked)

AskUpload ==
    /\ active # 0
    /\ ~silent
    /\ Upload(active) \notin asked
    /\ asked' = asked \cup {Upload(active)}
    /\ UNCHANGED <<made, active, silent, wire, served>>

Grant ==
    /\ wire = NoJob
    /\ wire' \in asked \ served
    /\ UNCHANGED <<made, active, silent, asked, served>>

Release ==
    /\ wire # NoJob
    /\ wire' = NoJob
    /\ served' = served \cup {wire}
    /\ UNCHANGED <<made, active, silent, asked>>

Report ==
    /\ UNCHANGED <<made, active, silent, wire>>
    /\ \E job \in served :
           /\ served' = served \ {job}
           /\ Asks(asked \ {job})

Next == Deregister \/ Register \/ Set \/ AskUpload \/ Grant \/ Release \/ Report

Spec == Init /\ [][Next]_accessVars
=============================================================================
