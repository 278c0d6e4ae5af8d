---------------------------- MODULE ProtocolJobs ----------------------------
(***************************************************************************)
(* The worker jobs of the Cura plugin: QidiMonitorStatusJob and            *)
(* QidiUploadJob, run by Cura's thread pool, each holding the process-wide *)
(* QIDI_PROTOCOL_LOCK for as long as it talks to the printer.              *)
(*                                                                         *)
(* A job lives in a slot.  It waits for the lock, talks, returns (the lock *)
(* is free again, the finished callback is queued to the UI thread) and is *)
(* forgotten when the callback has been delivered.  The lock is not fair:  *)
(* any waiting job may be next.                                            *)
(***************************************************************************)
EXTENDS Integers, FiniteSets

CONSTANTS
    MaxDevices,   \* bound on the output devices Cura creates in a session
    MaxJobs       \* slots; two per device are never exceeded

ASSUME BoundsAssumption ==
    /\ MaxDevices \in Nat \ {0}
    /\ MaxJobs \in Nat \ {0}

VARIABLE jobs

Devices == 1 .. MaxDevices
Slots == 1 .. MaxJobs
NoJob == 0

Idle == [state |-> "none", kind |-> "none", device |-> 0]

Waiting(kind, d) == [state |-> "waiting", kind |-> kind, device |-> d]

FreeSlots(js) == {j \in Slots : js[j] = Idle}

\* The slot the next job takes: any one will do.
NextSlot(js) == CHOOSE j \in FreeSlots(js) : TRUE

\* Jobs of a kind and a device whose callback is still to come.
Live(kind, d) ==
    {j \in Slots : /\ jobs[j].state # "none"
                   /\ jobs[j].kind = kind
                   /\ jobs[j].device = d}

Talking == {j \in Slots : jobs[j].state = "talking"}

LockIgnored == TRUE   \* slip: a job that does not take the lock

LockFree == Talking = {}

\* with QIDI_PROTOCOL_LOCK: ...
AcquireLock(j) ==
    /\ jobs[j].state = "waiting"
    /\ LockFree
    /\ jobs' = [jobs EXCEPT ![j].state = "talking"]

\* run() ends, with a result or an error; the lock is released on the way.
JobReturns(j) ==
    /\ jobs[j].state = "talking"
    /\ jobs' = [jobs EXCEPT ![j].state = "returned"]
=============================================================================
