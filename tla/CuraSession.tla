---------------------------- MODULE CuraSession ----------------------------
(***************************************************************************)
(* A Cura session with the QIDI plugin: the UI thread (the plugin, its     *)
(* registrar and its output devices) and the workers of the job queue,     *)
(* which share QIDI_PROTOCOL_LOCK and report back by callbacks the UI      *)
(* thread runs later.                                                      *)
(***************************************************************************)
EXTENDS QidiPlugin

pluginOnly == <<started, signals, registrar, config, stack, syncs, wanted,
                granted>>

(***************************************************************************)
(* Steps of Cura and of the workers                                        *)
(***************************************************************************)

\* The poll timer of a connected device fires.
PollTimer(d) ==
    /\ devices[d].open
    /\ Become(Update(Now, d))
    /\ UNCHANGED pluginOnly

\* A worker takes the lock; a poll that takes it ahead of its own device's
\* upload is counted.
Acquire(j) ==
    LET d == jobs[j].device
        ahead == jobs[j].kind = "monitor" /\ devices[d].uploading
    IN  /\ AcquireLock(j)
        /\ devices' = IF ahead THEN [devices EXCEPT ![d].overtaken = @ + 1]
                      ELSE devices
        /\ UNCHANGED <<disk, pluginVars>>

Return(j) == JobReturns(j) /\ UNCHANGED <<devices, disk, pluginVars>>

\* The UI thread runs a job's finished callback.
Deliver(j) ==
    LET d == jobs[j].device
        s == [Now EXCEPT !.jobs[j] = Idle]
    IN  /\ jobs[j].state = "returned"
        /\ IF jobs[j].kind = "monitor"
           THEN \E outcome \in {"Connected", "Error"} :
                    Become(MonitorFinished(s, d, j, outcome))
           ELSE Become(UploadFinished(s, d))
        /\ UNCHANGED pluginOnly

\* The user saves to the printer: requestWrite of the registered device.
RequestWrite ==
    /\ current # 0
    /\ AcceptsUpload(devices[current])
    /\ FreeSlots(jobs) # {}
    /\ LET s == BeginUpload(Now, current)
       IN  \/ \E leaves \in BOOLEAN :
                  Become(PreparationFails(s, current, leaves))
           \/ ~devices[current].writing /\ Become(StartUpload(s, current))
    /\ UNCHANGED pluginOnly

Init == PluginInit

Workers == \E j \in Slots : Acquire(j) \/ Return(j) \/ Deliver(j)

\* Cura's windows and menus exist from the plugin's start to its stop.
User ==
    /\ started
    /\ \/ RequestWrite
       \/ \E loads \in BOOLEAN : RefreshNow(loads)
       \/ \E enabled, loads \in BOOLEAN : SetEnabled(enabled, loads)
       \/ \E address \in Addresses : UpdateConfiguration(address)

Cura ==
    \/ \E loads \in BOOLEAN : Start(loads) \/ DeferredSync(loads)
    \/ \E to \in {"none", "gcode", "other"} : MachineChanges(to)
    \/ \E d \in Devices : PollTimer(d)
    \/ Stop

Next == Workers \/ User \/ Cura

Spec == Init /\ [][Next]_vars

(***************************************************************************)
(* Workers end (every wait in the client is bounded), a free lock is       *)
(* given to a waiter, and the event loop runs timers and the callbacks of  *)
(* the registered device.  A removed device may be collected with its      *)
(* callbacks, and the user and the machine owe nothing.                    *)
(***************************************************************************)
Fairness ==
    /\ \A d \in Devices : WF_vars(d = current /\ PollTimer(d))
    /\ \A j \in Slots :
           /\ WF_vars(Acquire(j))
           /\ WF_vars(Return(j))
           /\ WF_vars(jobs[j].device = current /\ Deliver(j))

FairSpec == Spec /\ Fairness

(***************************************************************************)
(* Properties                                                              *)
(***************************************************************************)

Connections == {"Closed", "Connecting", "Connected", "Error", "Busy"}

Job == [state : {"waiting", "talking", "returned"},
        kind : {"monitor", "upload"}, device : Devices] \cup {Idle}

Device == [open : BOOLEAN, paused : BOOLEAN, uploading : BOOLEAN,
           writing : BOOLEAN, temp : Slots \cup {NoJob},
           monitor : Slots \cup {NoJob}, upload : Slots \cup {NoJob},
           conn : Connections, overtaken : Nat]

\* The state has its types, and at most the registered device polls.
TypeOK ==
    /\ jobs \in [Slots -> Job]
    /\ devices \in [Devices -> Device]
    /\ disk \subseteq Slots \cup {NoJob}
    /\ made \in 0 .. MaxDevices
    /\ current \in 0 .. made
    /\ \A d \in Devices : devices[d].open <=> (d = current /\ d # 0)
    /\ started \in BOOLEAN
    /\ signals \in BOOLEAN
    /\ registrar \in {"none", "active", "paused"}
    /\ config \in Addresses
    /\ stack \in {"none", "gcode", "other"}
    /\ syncs \in 0 .. MaxSyncs
    /\ wanted \in BOOLEAN
    /\ granted \in 0 .. made

\* Whatever devices come and go, no two jobs are ever on the wire together.
OneTalker == \A j, k \in Talking : j = k

\* At most one poll, the one already under way, is served before an upload
\* of its device (docs/exclusive-communication.md:14-15).
PollsOvertake ==
    \A d \in Devices : devices[d].uploading => devices[d].overtaken <= 1

\* A device knows the one poll it has out, and no other of its polls lives:
\* a lost reference would stop polling for good or let polls pile up.
MonitorTracked ==
    \A d \in Devices :
        Live("monitor", d) = {devices[d].monitor} \ {NoJob}

\* While an upload job lives its device is in exclusive mode and, as long as
\* it is registered, shows as busy: no poll result, pause or resume undoes it.
ExclusiveWhileUploading ==
    \A d \in Devices :
        /\ Live("upload", d) = {devices[d].upload} \ {NoJob}
        /\ devices[d].uploading <=> devices[d].upload # NoJob
        /\ devices[d].uploading = devices[d].writing
        /\ devices[d].uploading /\ devices[d].open
               => devices[d].conn = "Busy"

\* A paused device that is silent says so, on every path into silence: at
\* once, when the last poll is in, or when the upload has ended.
PausedShowsClosed ==
    \A d \in Devices :
        /\ devices[d].open /\ devices[d].paused
        /\ ~devices[d].uploading /\ devices[d].monitor = NoJob
        => devices[d].conn = "Closed"

\* An upload's source file exists exactly as long as its job: never removed
\* under the worker, never kept by a finished upload.
SourceMatchesJobs ==
    disk \ {NoJob} = UNION {Live("upload", d) : d \in Devices}

\* Once a device has told the user to go ahead, and until communication is
\* resumed, no job of that device exists.
GrantHonoured ==
    granted # 0 => Live("monitor", granted) \cup Live("upload", granted) = {}

\* A removed device starts nothing, whichever callback still reaches it.
ClosedNeverStarts ==
    [][\A d \in Devices, kind \in {"monitor", "upload"} :
           ~devices[d].open /\ ~devices'[d].open
               => Live(kind, d)' \subseteq Live(kind, d)]_vars

\* What a job is to the outside: its kind and its device.
Outside(states) ==
    {[kind |-> jobs[j].kind, device |-> jobs[j].device] :
         j \in {k \in Slots : jobs[k].state \in states}}

Access == INSTANCE ExclusiveAccess WITH
              active <- current,
              silent <- current # 0 /\ devices[current].paused,
              asked <- Outside({"waiting", "talking", "returned"}),
              wire <- IF Talking = {} THEN [kind |-> "none", device |-> 0]
                      ELSE CHOOSE job \in Outside({"talking"}) : TRUE,
              served <- Outside({"returned"})

\* The session as a whole keeps the promises of exclusive access.
ImplementsAccess == Access!Spec

\* An upload of the registered device ends and gives up exclusive mode.
UploadEnds ==
    \A d \in Devices :
        devices[d].uploading ~> (~devices[d].uploading \/ current # d)

\* Monitoring resumes: a registered device that is neither paused nor
\* uploading gets a status answer or an error.
PollingResumes ==
    \A d \in Devices :
        (d = current /\ PollingAllowed(devices[d]))
            ~> (\/ devices[d].conn \in {"Connected", "Error"}
                \/ ~PollingAllowed(devices[d])
                \/ current # d)

(***************************************************************************)
(* What the documentation says and the code does not do                    *)
(***************************************************************************)

\* plugin.py:139: "the persistent user-controlled communication state"; and
\* docs/exclusive-communication.md:17, "A manual pause blocks Cura uploads and
\* polling until communication is resumed": whatever devices come and go, the
\* registered one is enabled or paused as the user last asked.
SettingIsKept == current # 0 => devices[current].paused = ~wanted

\* exclusive_output_device.py:75-78: after this answer another client "may
\* now use the printer exclusively": nothing of Cura is on the wire.
GrantIsExclusive == granted # 0 => Talking = {}
=============================================================================
