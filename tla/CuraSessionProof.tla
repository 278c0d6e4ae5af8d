-------------------------- MODULE CuraSessionProof --------------------------
(***************************************************************************)
(* Whatever devices come and go, the session keeps its types, and no two   *)
(* of its jobs are on the wire together, for any number of devices, jobs   *)
(* and addresses.                                                          *)
(*                                                                         *)
(* Handlers are operators on session records, so the lemmas are about      *)
(* those: a handler of a device keeps the record's types, leaves devices   *)
(* open or closed as they are (Handled), and puts no job on the wire.      *)
(***************************************************************************)
EXTENDS CuraSession, TLAPS

Session == [devices : [Devices -> Device], jobs : [Slots -> Job],
            disk : SUBSET (Slots \cup {NoJob}), made : 0 .. MaxDevices,
            current : 0 .. MaxDevices]

\* At most the registered device polls.
OneOpen(s) ==
    /\ s.current <= s.made
    /\ \A d \in Devices : s.devices[d].open <=> (d = s.current /\ d # 0)

OnWire(s) == {j \in Slots : s.jobs[j].state = "talking"}

\* t comes from s by a handler of some device.
Handled(s, t) ==
    /\ t \in Session
    /\ t.made = s.made
    /\ t.current = s.current
    /\ \A d \in Devices : t.devices[d].open = s.devices[d].open
    /\ OnWire(t) \subseteq OnWire(s)

LEMMA HandledTwice ==
    ASSUME NEW s, NEW t, NEW u, Handled(s, t), Handled(t, u)
    PROVE  Handled(s, u)
  BY DEF Handled

\* Replacing the record of one device by one that is as open.
LEMMA DeviceHandled ==
    ASSUME NEW s \in Session, NEW d \in Devices, NEW r \in Device,
           r.open = s.devices[d].open
    PROVE  Handled(s, [s EXCEPT !.devices[d] = r])
  BY DEF Handled, Session, OnWire

\* A slot taken by a waiting job, or freed.
LEMMA SlotHandled ==
    ASSUME NEW s \in Session, NEW j \in Slots, NEW new \in Job,
           new.state # "talking"
    PROVE  Handled(s, [s EXCEPT !.jobs[j] = new])
  BY DEF Handled, Session, OnWire

LEMMA DiskHandled ==
    ASSUME NEW s \in Session, NEW files \in SUBSET (Slots \cup {NoJob})
    PROVE  Handled(s, [s EXCEPT !.disk = files])
  BY DEF Handled, Session, OnWire

LEMMA WaitingJob ==
    ASSUME NEW kind \in {"monitor", "upload"}, NEW d \in Devices
    PROVE  Waiting(kind, d) \in Job /\ Waiting(kind, d).state # "talking"
  BY DEF Waiting, Job

LEMMA NextSlotFree ==
    ASSUME NEW js, FreeSlots(js) # {}
    PROVE  NextSlot(js) \in Slots /\ js[NextSlot(js)] = Idle
  BY DEF NextSlot, FreeSlots

LEMMA UpdateHandled ==
    ASSUME NEW s \in Session, NEW d \in Devices
    PROVE  Handled(s, Update(s, d))
  <1>1. CASE PollStarts(s.devices[d]) /\ FreeSlots(s.jobs) # {}
    <2> DEFINE j == NextSlot(s.jobs)
               t == [s EXCEPT !.jobs[j] = Waiting("monitor", d)]
               r == [t.devices[d] EXCEPT !.monitor = j]
    <2>1. j \in Slots /\ Handled(s, t)
      BY <1>1, NextSlotFree, WaitingJob, SlotHandled
    <2>2. t \in Session /\ r \in Device /\ r.open = t.devices[d].open
      BY <2>1 DEF Handled, Session, Device
    <2>3. Handled(t, [t EXCEPT !.devices[d] = r])
      BY <2>2, DeviceHandled
    <2>4. Update(s, d) = [t EXCEPT !.devices[d] = r]
      BY <1>1 DEF Update, Session
    <2>5. QED
      BY <2>1, <2>3, <2>4, HandledTwice
  <1>2. CASE ~(PollStarts(s.devices[d]) /\ FreeSlots(s.jobs) # {})
    BY <1>2 DEF Update, Handled
  <1>3. QED
    BY <1>1, <1>2
LEMMA MonitorHandled ==
    ASSUME NEW s \in Session, NEW d \in Devices, NEW j \in Slots,
           NEW outcome \in {"Connected", "Error"}
    PROVE  Handled(s, MonitorFinished(s, d, j, outcome))
  <1> DEFINE dropped == [s.devices[d] EXCEPT
                 !.monitor = NoJob,
                 !.conn = IF s.devices[d].paused /\ ~s.devices[d].uploading
                          THEN "Closed" ELSE @]
             shown == [s.devices[d] EXCEPT
                 !.monitor = NoJob,
                 !.conn = IF s.devices[d].open THEN outcome ELSE @]
  <1>1. s.devices[d] \in Device
    BY DEF Session
  <1>2. /\ dropped \in Device /\ dropped.open = s.devices[d].open
        /\ shown \in Device /\ shown.open = s.devices[d].open
    BY <1>1 DEF Device, Connections, NoJob
  <1>3. MonitorFinished(s, d, j, outcome) \in
            {s, [s EXCEPT !.devices[d] = dropped],
             [s EXCEPT !.devices[d] = shown]}
    BY DEF MonitorFinished, Discard, Session
  <1> HIDE DEF dropped, shown
  <1>4. /\ Handled(s, s)
        /\ Handled(s, [s EXCEPT !.devices[d] = dropped])
        /\ Handled(s, [s EXCEPT !.devices[d] = shown])
    BY <1>2, DeviceHandled DEF Handled
  <1>5. QED
    BY <1>3, <1>4

LEMMA BeginHandled ==
    ASSUME NEW s \in Session, NEW d \in Devices
    PROVE  Handled(s, BeginUpload(s, d))
  <1> DEFINE r == [s.devices[d] EXCEPT !.uploading = TRUE, !.conn = "Busy",
                                       !.overtaken = 0]
  <1>1. r \in Device /\ r.open = s.devices[d].open
    BY DEF Session, Device, Connections
  <1>2. BeginUpload(s, d) = [s EXCEPT !.devices[d] = r]
    BY DEF BeginUpload, Session
  <1>3. QED
    BY <1>1, <1>2, DeviceHandled

LEMMA PreparationHandled ==
    ASSUME NEW s \in Session, NEW d \in Devices, NEW leaves \in BOOLEAN
    PROVE  Handled(s, PreparationFails(s, d, leaves))
  <1> DEFINE files == IF leaves THEN s.disk \cup {NoJob} ELSE s.disk
             t == [s EXCEPT !.disk = files]
             r == [s.devices[d] EXCEPT !.uploading = FALSE,
                                       !.conn = "Connecting"]
             u == [t EXCEPT !.devices[d] = r]
  <1>1. files \in SUBSET (Slots \cup {NoJob})
    BY DEF Session
  <1>2. Handled(s, t) /\ t \in Session /\ t.devices = s.devices
    BY <1>1, DiskHandled DEF Handled, Session
  <1>3. r \in Device /\ r.open = s.devices[d].open
    BY DEF Session, Device, Connections
  <1>4. Handled(t, u)
    BY <1>2, <1>3, DeviceHandled
  <1>5. PreparationFails(s, d, leaves) = Update(u, d)
    BY DEF PreparationFails, Session
  <1>6. u \in Session
    BY <1>4 DEF Handled
  <1>7. QED
    BY <1>2, <1>4, <1>5, <1>6, UpdateHandled, HandledTwice

LEMMA StartUploadHandled ==
    ASSUME NEW s \in Session, NEW d \in Devices, FreeSlots(s.jobs) # {}
    PROVE  Handled(s, StartUpload(s, d))
  <1> DEFINE j == NextSlot(s.jobs)
             t == [s EXCEPT !.jobs[j] = Waiting("upload", d)]
             u == [t EXCEPT !.disk = s.disk \cup {j}]
             r == [s.devices[d] EXCEPT !.temp = j, !.upload = j,
                                       !.writing = TRUE]
  <1>1. j \in Slots /\ Handled(s, t)
    BY NextSlotFree, WaitingJob, SlotHandled
  <1>2. t \in Session /\ t.disk = s.disk /\ t.devices = s.devices
    BY <1>1 DEF Handled, Session
  <1>3. s.disk \cup {j} \in SUBSET (Slots \cup {NoJob})
    BY <1>1 DEF Session
  <1>4. Handled(t, u) /\ u \in Session /\ u.devices = s.devices
    BY <1>2, <1>3, DiskHandled DEF Handled, Session
  <1>5. r \in Device /\ r.open = s.devices[d].open
    BY <1>1 DEF Session, Device
  <1>6. Handled(u, [u EXCEPT !.devices[d] = r])
    BY <1>4, <1>5, DeviceHandled
  <1>7. StartUpload(s, d) = [u EXCEPT !.devices[d] = r]
    BY DEF StartUpload, Session
  <1>8. QED
    BY <1>1, <1>4, <1>6, <1>7, HandledTwice

LEMMA CleanupHandled ==
    ASSUME NEW s \in Session, NEW d \in Devices
    PROVE  Handled(s, CleanupTempFile(s, d))
  <1> DEFINE files == s.disk \ {s.devices[d].temp}
             t == [s EXCEPT !.disk = files]
             r == [s.devices[d] EXCEPT !.temp = NoJob]
  <1>1. files \in SUBSET (Slots \cup {NoJob})
    BY DEF Session
  <1>2. Handled(s, t) /\ t \in Session /\ t.devices = s.devices
    BY <1>1, DiskHandled DEF Handled, Session
  <1>3. r \in Device /\ r.open = s.devices[d].open
    BY DEF Session, Device, NoJob
  <1>4. Handled(t, [t EXCEPT !.devices[d] = r])
    BY <1>2, <1>3, DeviceHandled
  <1>5. CleanupTempFile(s, d) = [t EXCEPT !.devices[d] = r]
    BY DEF CleanupTempFile, Session
  <1>6. QED
    BY <1>2, <1>4, <1>5, HandledTwice

LEMMA UploadHandled ==
    ASSUME NEW s \in Session, NEW d \in Devices
    PROVE  Handled(s, UploadFinished(s, d))
  <1> DEFINE c == CleanupTempFile(s, d)
             r == [c.devices[d] EXCEPT
                      !.writing = FALSE, !.upload = NoJob,
                      !.uploading = FALSE,
                      !.conn = IF c.devices[d].paused THEN "Closed"
                               ELSE "Connecting"]
  <1>1. c \in Session
    BY CleanupHandled DEF Handled
  <1>2. UploadFinished(s, d) =
            Update([c EXCEPT !.devices[d].writing = FALSE,
                             !.devices[d].upload = NoJob,
                             !.devices[d].uploading = FALSE,
                             !.devices[d].conn = IF c.devices[d].paused
                                                 THEN "Closed"
                                                 ELSE "Connecting"], d)
    BY DEF UploadFinished
  <1>3. Handled(s, c)
    BY CleanupHandled
  <1> HIDE DEF c
  <1>4. r \in Device /\ r.open = c.devices[d].open
    <2>1. c.devices[d] \in Device
      BY <1>1 DEF Session
    <2>2. QED
      BY <2>1 DEF Device, Connections, NoJob
  <1>5. UploadFinished(s, d) = Update([c EXCEPT !.devices[d] = r], d)
    BY <1>1, <1>2 DEF Session
  <1> HIDE DEF r
  <1>6. Handled(c, [c EXCEPT !.devices[d] = r])
    BY <1>1, <1>4, DeviceHandled
  <1>7. [c EXCEPT !.devices[d] = r] \in Session
    BY <1>6 DEF Handled
  <1>8. QED
    BY <1>3, <1>5, <1>6, <1>7, UpdateHandled, HandledTwice

LEMMA PauseHandled ==
    ASSUME NEW s \in Session, NEW d \in Devices
    PROVE  Handled(s, Pause(s, d))
  <1> DEFINE r == [s.devices[d] EXCEPT
                      !.paused = TRUE,
                      !.conn = IF GrantsAccess(s.devices[d]) THEN "Closed"
                               ELSE @]
  <1>1. r \in Device /\ r.open = s.devices[d].open
    BY DEF Session, Device, Connections
  <1>2. Pause(s, d) = [s EXCEPT !.devices[d] = r]
    BY DEF Pause, Session
  <1> HIDE DEF r
  <1>3. QED
    BY <1>1, <1>2, DeviceHandled

LEMMA ResumeHandled ==
    ASSUME NEW s \in Session, NEW d \in Devices
    PROVE  Handled(s, Resume(s, d))
  <1> DEFINE quiet == [s.devices[d] EXCEPT !.paused = FALSE]
             live == [s.devices[d] EXCEPT !.paused = FALSE,
                                          !.conn = "Connecting"]
             t == [s EXCEPT !.devices[d] = live]
  <1>1. /\ quiet \in Device /\ quiet.open = s.devices[d].open
        /\ live \in Device /\ live.open = s.devices[d].open
    BY DEF Session, Device, Connections
  <1>2. /\ Handled(s, [s EXCEPT !.devices[d] = quiet])
        /\ Handled(s, t)
        /\ t \in Session
    BY <1>1, DeviceHandled DEF Handled
  <1>3. Resume(s, d) \in {[s EXCEPT !.devices[d] = quiet], Update(t, d)}
    BY DEF Resume, Session
  <1>4. QED
    BY <1>2, <1>3, UpdateHandled, HandledTwice
-----------------------------------------------------------------------------
(***************************************************************************)
(* The registrar: devices come and go.                                     *)
(***************************************************************************)

\* t comes from s by removing the registered device or registering another.
Resettled(s, t) ==
    /\ t \in Session
    /\ OneOpen(t)
    /\ s.made <= t.made
    /\ OnWire(t) \subseteq OnWire(s)

LEMMA HandledResettled ==
    ASSUME NEW s \in Session, OneOpen(s), NEW t, Handled(s, t)
    PROVE  Resettled(s, t)
  BY DEF Handled, Resettled, OneOpen, Session

LEMMA ResettledTwice ==
    ASSUME NEW s \in Session, NEW t, NEW u, Resettled(s, t), Resettled(t, u)
    PROVE  Resettled(s, u)
  BY DEF Resettled, Session

LEMMA RemoveResettled ==
    ASSUME NEW s \in Session, OneOpen(s)
    PROVE  Resettled(s, Remove(s)) /\ Remove(s).current = 0
  <1>1. CASE s.current = 0
    BY <1>1 DEF Remove, Resettled, Session
  <1>2. CASE s.current # 0
    <2> DEFINE d == s.current
               r == [s.devices[d] EXCEPT !.open = FALSE, !.conn = "Closed"]
               t == [s EXCEPT !.devices = [s.devices EXCEPT ![d] = r],
                              !.current = 0]
    <2>1. d \in Devices /\ s.devices[d] \in Device
      BY <1>2, BoundsAssumption DEF Session, Devices, BoundsAssumption
    <2>2. r \in Device /\ r.open = FALSE
      BY <2>1 DEF Device, Connections
    <2>3. Remove(s) = t
      BY <1>2, <2>1 DEF Remove, Close, Session
    <2> HIDE DEF r
    <2>4. t \in Session /\ OnWire(t) = OnWire(s)
      <3>1. /\ [s.devices EXCEPT ![d] = r] \in [Devices -> Device]
            /\ 0 \in 0 .. MaxDevices
        BY <2>1, <2>2, BoundsAssumption DEF Session, BoundsAssumption
      <3>2. t \in Session
        BY <3>1 DEF Session
      <3>3. QED
        BY <3>2 DEF OnWire, Session
    <2>5. \A e \in Devices : ~t.devices[e].open
      BY <2>1, <2>2 DEF OneOpen, Session
    <2>6. QED
      BY <2>3, <2>4, <2>5 DEF Resettled, OneOpen, Session
  <1>3. QED
    BY <1>1, <1>2

LEMMA RegisterResettled ==
    ASSUME NEW s \in Session, OneOpen(s), s.current = 0,
           s.made < MaxDevices, NEW paused \in BOOLEAN
    PROVE  Resettled(s, Register(s, paused))
  <1> DEFINE d == s.made + 1
             r == [Unborn EXCEPT !.open = TRUE, !.paused = paused,
                                 !.conn = IF paused THEN "Closed"
                                          ELSE "Connecting"]
             t == [s EXCEPT !.made = d, !.current = d,
                            !.devices = [s.devices EXCEPT ![d] = r]]
  <1>1. d \in Devices /\ d # 0 /\ d \in 0 .. MaxDevices
    BY BoundsAssumption DEF Session, Devices, BoundsAssumption
  <1>2. r \in Device /\ r.open
    BY DEF Unborn, Device, Connections, NoJob
  <1>3. Register(s, paused) = Update(t, d)
    BY DEF Register, Construct, Session
  <1> HIDE DEF r
  <1>4. t \in Session /\ OnWire(t) = OnWire(s) /\ t.made = s.made + 1
    BY <1>1, <1>2 DEF Session, OnWire
  <1>5. OneOpen(t)
    BY <1>1, <1>2, BoundsAssumption
       DEF OneOpen, Session, Devices, BoundsAssumption
  <1>6. Resettled(s, t)
    BY <1>4, <1>5 DEF Resettled, Session
  <1>7. Resettled(t, Update(t, d))
    BY <1>1, <1>4, <1>5, UpdateHandled, HandledResettled
  <1>8. QED
    BY <1>3, <1>6, <1>7, ResettledTwice

LEMMA SyncResettled ==
    ASSUME NEW s \in Session, OneOpen(s), NEW paused \in BOOLEAN
    PROVE  Resettled(s, Sync(s, paused))
  <1>1. Resettled(s, s)
    BY DEF Resettled, Session
  <1>2. QED
    BY <1>1, RemoveResettled, RegisterResettled DEF Sync
-----------------------------------------------------------------------------
(***************************************************************************)
(* The steps.                                                              *)
(***************************************************************************)

\* The session record is well typed and no two jobs are on the wire.
SessionInv ==
    /\ TypeOK
    /\ OneTalker

LEMMA NowTyped ==
    ASSUME TypeOK
    PROVE  /\ Now \in Session /\ OneOpen(Now)
           /\ OnWire(Now) = Talking
           /\ Now.made = made /\ Now.current = current
           /\ Now.devices = devices /\ Now.jobs = jobs
  BY BoundsAssumption
     DEF TypeOK, Now, Session, OneOpen, OnWire, Talking, Devices,
         BoundsAssumption

\* A step that makes a resettled session the next one keeps the part of the
\* invariant that speaks of it.
LEMMA BecomeKeeps ==
    ASSUME SessionInv, NEW s, Resettled(Now, s), Become(s)
    PROVE  /\ jobs' \in [Slots -> Job]
           /\ devices' \in [Devices -> Device]
           /\ disk' \subseteq Slots \cup {NoJob}
           /\ made' \in 0 .. MaxDevices
           /\ current' \in 0 .. made'
           /\ \A d \in Devices : devices'[d].open <=> (d = current' /\ d # 0)
           /\ made <= made'
           /\ OneTalker'
  <1>1. /\ s \in Session /\ OneOpen(s) /\ made <= s.made
        /\ OnWire(s) \subseteq Talking
    BY NowTyped DEF Resettled, SessionInv
  <1>2. Talking' = OnWire(s)
    BY DEF Become, Talking, OnWire
  <1>3. OneTalker'
    BY <1>1, <1>2 DEF SessionInv, OneTalker
  <1>4. QED
    BY <1>1, <1>3 DEF Become, Session, OneOpen

\* A handler of a device that exists, as the only thing that happens.
LEMMA HandlerStep ==
    ASSUME SessionInv, NEW s, Handled(Now, s), Become(s), UNCHANGED pluginOnly
    PROVE  SessionInv'
  <1>1. Resettled(Now, s) /\ s.made = made /\ s.current = current
    BY NowTyped, HandledResettled DEF SessionInv, Handled
  <1>2. made' = made
    BY <1>1 DEF Become
  <1>3. QED
    BY <1>1, <1>2, BecomeKeeps DEF SessionInv, TypeOK, pluginOnly

LEMMA SessionInit == Init => SessionInv
  <1> SUFFICES ASSUME Init PROVE SessionInv
    OBVIOUS
  <1> USE DEF Init, PluginInit, DeviceInit
  <1>1. Idle \in Job /\ Idle.state = "none"
    BY DEF Idle, Job
  <1>2. Unborn \in Device /\ ~Unborn.open
    BY DEF Unborn, Device, Connections, NoJob
  <1>3. jobs \in [Slots -> Job] /\ Talking = {}
    BY <1>1 DEF Talking
  <1>4. devices \in [Devices -> Device] /\ \A d \in Devices : ~devices[d].open
    BY <1>2
  <1>5. OneTalker
    BY <1>3 DEF OneTalker
  <1>6. /\ made \in 0 .. MaxDevices /\ syncs \in 0 .. MaxSyncs
        /\ current \in 0 .. made /\ granted \in 0 .. made
    BY BoundsAssumption, PluginAssumption
       DEF BoundsAssumption, PluginAssumption
  <1>7. QED
    BY <1>3, <1>4, <1>5, <1>6 DEF SessionInv, TypeOK

\* The part of a step that is the plugin's own.
LEMMA EnsuredTyped ==
    ASSUME SessionInv, NEW loads \in BOOLEAN
    PROVE  Ensured(loads) \in {"none", "active", "paused"}
  BY DEF Ensured, SessionInv, TypeOK

LEMMA SyncDevicesResettled ==
    ASSUME SessionInv, NEW reg
    PROVE  Resettled(Now, SyncDevices(reg))
  <1>1. Resettled(Now, Now)
    BY NowTyped DEF SessionInv, Resettled, Session
  <1>2. (reg = "paused") \in BOOLEAN
    OBVIOUS
  <1>3. QED
    BY <1>1, <1>2, NowTyped, SyncResettled DEF SyncDevices, SessionInv

LEMMA SameSession ==
    ASSUME SessionInv, UNCHANGED <<jobs, devices, disk, made, current>>
    PROVE  /\ jobs' \in [Slots -> Job]
           /\ devices' \in [Devices -> Device]
           /\ disk' \subseteq Slots \cup {NoJob}
           /\ made' \in 0 .. MaxDevices
           /\ current' \in 0 .. made'
           /\ \A d \in Devices : devices'[d].open <=> (d = current' /\ d # 0)
           /\ made <= made'
           /\ OneTalker'
  BY DEF SessionInv, TypeOK, OneTalker, Talking

LEMMA DeferTyped ==
    ASSUME SessionInv, NEW n \in {1, 2}, Defer(n)
    PROVE  syncs' \in 0 .. MaxSyncs
  BY PluginAssumption DEF Defer, SessionInv, TypeOK, PluginAssumption

LEMMA SessionPlugin ==
    ASSUME SessionInv,
           \/ \E loads \in BOOLEAN : Start(loads) \/ DeferredSync(loads)
           \/ \E to \in {"none", "gcode", "other"} : MachineChanges(to)
           \/ Stop
           \/ \E loads \in BOOLEAN : RefreshNow(loads)
           \/ \E address \in Addresses : UpdateConfiguration(address)
    PROVE  SessionInv'
  <1>1. ASSUME NEW loads \in BOOLEAN, Start(loads) PROVE SessionInv'
    <2>1. UNCHANGED <<jobs, devices, disk, made, current>>
      BY <1>1 DEF Start
    <2>2. registrar' \in {"none", "active", "paused"}
      BY <1>1, EnsuredTyped DEF Start
    <2>3. syncs' \in 0 .. MaxSyncs /\ signals' \in BOOLEAN
      BY <1>1, DeferTyped DEF Start, SessionInv, TypeOK
    <2>4. QED
      BY <1>1, <2>1, <2>2, <2>3, SameSession DEF Start, SessionInv, TypeOK
  <1>2. ASSUME NEW loads \in BOOLEAN, DeferredSync(loads) PROVE SessionInv'
    <2>1. syncs' \in 0 .. MaxSyncs
      BY <1>2, PluginAssumption
         DEF DeferredSync, SessionInv, TypeOK, PluginAssumption
    <2>2. CASE started
      <3>1. registrar' \in {"none", "active", "paused"}
        BY <1>2, <2>2, EnsuredTyped DEF DeferredSync
      <3>2. Become(SyncDevices(registrar'))
        BY <1>2, <2>2 DEF DeferredSync
      <3>3. Resettled(Now, SyncDevices(registrar'))
        BY SyncDevicesResettled
      <3>4. QED
        BY <1>2, <2>1, <3>1, <3>2, <3>3, BecomeKeeps
           DEF DeferredSync, SessionInv, TypeOK
    <2>3. CASE ~started
      BY <1>2, <2>1, <2>3, SameSession DEF DeferredSync, SessionInv, TypeOK
    <2>4. QED
      BY <2>2, <2>3
  <1>3. ASSUME NEW to \in {"none", "gcode", "other"}, MachineChanges(to)
        PROVE  SessionInv'
    <2>1. syncs' \in 0 .. MaxSyncs
      BY <1>3, DeferTyped DEF MachineChanges, SessionInv, TypeOK
    <2>2. QED
      BY <1>3, <2>1, SameSession DEF MachineChanges, SessionInv, TypeOK
  <1>4. CASE Stop
    <2> DEFINE s == IF registrar = "none" THEN Now ELSE Remove(Now)
    <2>1. Resettled(Now, s)
      BY NowTyped, RemoveResettled DEF SessionInv, Resettled, Session
    <2>2. /\ Become(s)
          /\ started' = FALSE /\ signals' = FALSE
          /\ UNCHANGED <<registrar, config, stack, syncs, wanted, granted>>
      BY <1>4 DEF Stop
    <2> HIDE DEF s
    <2>3. /\ jobs' \in [Slots -> Job]
          /\ devices' \in [Devices -> Device]
          /\ disk' \subseteq Slots \cup {NoJob}
          /\ made' \in 0 .. MaxDevices
          /\ current' \in 0 .. made'
          /\ \A d \in Devices : devices'[d].open <=> (d = current' /\ d # 0)
          /\ made <= made'
          /\ OneTalker'
      BY <2>1, <2>2, BecomeKeeps
    <2>4. granted' \in 0 .. made'
      BY <2>2, <2>3 DEF SessionInv, TypeOK
    <2>5. QED
      BY <2>2, <2>3, <2>4 DEF SessionInv, TypeOK
  <1>5. ASSUME NEW loads \in BOOLEAN, RefreshNow(loads) PROVE SessionInv'
    <2>1. registrar' \in {"none", "active", "paused"}
      BY <1>5, EnsuredTyped DEF RefreshNow
    <2>2. Become(SyncDevices(registrar'))
      BY <1>5 DEF RefreshNow
    <2>3. Resettled(Now, SyncDevices(registrar'))
      BY SyncDevicesResettled
    <2>4. QED
      BY <1>5, <2>1, <2>2, <2>3, BecomeKeeps
         DEF RefreshNow, SessionInv, TypeOK
  <1>6. ASSUME NEW address \in Addresses, UpdateConfiguration(address)
        PROVE  SessionInv'
    <2> DEFINE paused == current # 0 /\ devices[current].paused
               removed == IF registrar = "none" THEN Now ELSE Remove(Now)
    <2>1. Resettled(Now, removed)
      BY NowTyped, RemoveResettled DEF SessionInv, Resettled, Session
    <2>2. paused \in BOOLEAN
      <3>1. CASE current = 0
        BY <3>1
      <3>2. CASE current # 0
        <4>1. current \in Devices /\ devices[current] \in Device
          BY <3>2, BoundsAssumption
             DEF SessionInv, TypeOK, Devices, BoundsAssumption
        <4>2. QED
          BY <4>1 DEF Device
      <3>3. QED
        BY <3>1, <3>2
    <2>3. /\ Become(Sync(removed, paused))
          /\ config' = address
          /\ registrar' = IF paused THEN "paused" ELSE "active"
          /\ started' = TRUE
          /\ UNCHANGED <<signals, stack, syncs, wanted, granted>>
      BY <1>6 DEF UpdateConfiguration
    <2> HIDE DEF paused, removed
    <2>4. Resettled(removed, Sync(removed, paused))
      BY <2>1, <2>2, SyncResettled DEF Resettled
    <2>5. Resettled(Now, Sync(removed, paused))
      BY <2>1, <2>4, NowTyped, ResettledTwice DEF SessionInv
    <2>6. QED
      BY <2>3, <2>5, BecomeKeeps DEF SessionInv, TypeOK
  <1>7. QED
    BY <1>1, <1>2, <1>3, <1>4, <1>5, <1>6
LEMMA ManagedResettled ==
    ASSUME SessionInv, NEW loads \in BOOLEAN
    PROVE  Resettled(Now, Managed(loads))
  <1>1. Resettled(Now, Now)
    BY NowTyped DEF SessionInv, Resettled, Session
  <1>2. QED
    BY <1>1, SyncDevicesResettled DEF Managed

LEMMA SessionEnabled ==
    ASSUME SessionInv, NEW enabled \in BOOLEAN, NEW loads \in BOOLEAN,
           SetEnabled(enabled, loads)
    PROVE  SessionInv'
  <1> DEFINE s == Managed(loads)
             t == IF enabled THEN Resume(s, s.current) ELSE Pause(s, s.current)
  <1>1. /\ started' = (started \/ current = 0)
        /\ registrar' = IF current = 0 THEN Ensured(loads) ELSE registrar
        /\ UNCHANGED <<signals, config, stack, syncs>>
        /\ \/ Become(s) /\ UNCHANGED <<wanted, granted>>
           \/ /\ s.current # 0
              /\ wanted' = enabled
              /\ granted' = IF ~enabled /\ GrantsAccess(s.devices[s.current])
                            THEN s.current ELSE 0
              /\ Become(t)
    BY DEF SetEnabled
  <1>2. Resettled(Now, s) /\ s \in Session /\ OneOpen(s)
    BY ManagedResettled DEF Resettled
  <1>3. registrar' \in {"none", "active", "paused"} /\ started' \in BOOLEAN
    BY <1>1, EnsuredTyped DEF SessionInv, TypeOK
  <1>4. CASE Become(s) /\ UNCHANGED <<wanted, granted>>
    <2> HIDE DEF s
    <2>1. QED
      BY <1>1, <1>2, <1>3, <1>4, BecomeKeeps DEF SessionInv, TypeOK
  <1>5. CASE s.current # 0 /\ Become(t)
    <2> HIDE DEF s
    <2>1. s.current \in Devices
      BY <1>2, <1>5, BoundsAssumption DEF Session, Devices, BoundsAssumption
    <2>2. Handled(s, t)
      BY <1>2, <2>1, PauseHandled, ResumeHandled
    <2>3. Resettled(Now, t) /\ t.current = s.current
      BY <1>2, <2>2, NowTyped, HandledResettled, ResettledTwice
         DEF SessionInv, Handled
    <2> HIDE DEF t
    <2>4. current' = s.current
      BY <1>5, <2>3 DEF Become
    <2>5. s.current \in Nat
      BY <1>2 DEF Session
    <2>6. /\ made' \in 0 .. MaxDevices /\ current' \in 0 .. made'
          /\ made <= made'
      BY <1>5, <2>3, BecomeKeeps
    <2>7. granted' \in 0 .. made' /\ wanted' \in BOOLEAN
      BY <1>1, <2>4, <2>5, <2>6 DEF SessionInv, TypeOK
    <2>8. QED
      BY <1>1, <1>3, <1>5, <2>3, <2>7, BecomeKeeps DEF SessionInv, TypeOK
  <1>6. QED
    BY <1>1, <1>4, <1>5

LEMMA SessionWorkers ==
    ASSUME SessionInv, Workers
    PROVE  SessionInv'
  <1>1. ASSUME NEW j \in Slots, Acquire(j) PROVE SessionInv'
    <2> DEFINE d == jobs[j].device
    <2>1. /\ jobs[j].state = "waiting" /\ Talking = {}
          /\ jobs' = [jobs EXCEPT ![j].state = "talking"]
          /\ devices' \in {devices, [devices EXCEPT ![d].overtaken = @ + 1]}
          /\ UNCHANGED <<disk, pluginVars>>
      BY <1>1 DEF Acquire, AcquireLock, LockFree
    <2>2. jobs[j] \in Job /\ d \in Devices
      BY <2>1 DEF SessionInv, TypeOK, Job, Idle
    <2>3. jobs' \in [Slots -> Job] /\ Talking' = {j}
      <3>1. [jobs[j] EXCEPT !.state = "talking"] \in Job
        BY <2>1, <2>2 DEF Job, Idle
      <3>2. jobs' = [jobs EXCEPT ![j] = [jobs[j] EXCEPT !.state = "talking"]]
        BY <2>1
      <3>3. jobs'[j].state = "talking"
        BY <2>2, <3>2 DEF SessionInv, TypeOK, Job, Idle
      <3>4. \A k \in Slots \ {j} : jobs'[k] = jobs[k]
        BY <3>2 DEF SessionInv, TypeOK
      <3>5. QED
        BY <2>1, <3>1, <3>2, <3>3, <3>4 DEF SessionInv, TypeOK, Talking
    <2>4. /\ devices' \in [Devices -> Device]
          /\ \A e \in Devices : devices'[e].open = devices[e].open
      <3>1. devices[d] \in Device
        BY <2>2 DEF SessionInv, TypeOK
      <3>2. [devices[d] EXCEPT !.overtaken = @ + 1] \in Device
        BY <3>1 DEF Device
      <3>3. [devices[d] EXCEPT !.overtaken = @ + 1].open = devices[d].open
        BY <3>1 DEF Device
      <3>4. QED
        BY <2>1, <2>2, <3>2, <3>3 DEF SessionInv, TypeOK
    <2>5. QED
      BY <2>1, <2>3, <2>4 DEF SessionInv, TypeOK, OneTalker, pluginVars
  <1>2. ASSUME NEW j \in Slots, Return(j) PROVE SessionInv'
    <2>1. /\ jobs[j].state = "talking"
          /\ jobs' = [jobs EXCEPT ![j] = [jobs[j] EXCEPT !.state = "returned"]]
          /\ UNCHANGED <<devices, disk, pluginVars>>
      BY <1>2 DEF Return, JobReturns
    <2>2. [jobs[j] EXCEPT !.state = "returned"] \in Job
      BY <2>1 DEF SessionInv, TypeOK, Job, Idle
    <2>3. jobs' \in [Slots -> Job] /\ Talking' \subseteq Talking
      BY <2>1, <2>2 DEF SessionInv, TypeOK, Talking
    <2>4. QED
      BY <2>1, <2>3 DEF SessionInv, TypeOK, OneTalker, pluginVars
  <1>3. ASSUME NEW j \in Slots, Deliver(j) PROVE SessionInv'
    <2> DEFINE d == jobs[j].device
               s == [Now EXCEPT !.jobs[j] = Idle]
    <2>1. /\ jobs[j].state = "returned"
          /\ UNCHANGED pluginOnly
          /\ \/ \E outcome \in {"Connected", "Error"} :
                    Become(MonitorFinished(s, d, j, outcome))
             \/ Become(UploadFinished(s, d))
      BY <1>3 DEF Deliver
    <2>2. d \in Devices
      BY <2>1 DEF SessionInv, TypeOK, Job, Idle
    <2>3. Idle \in Job /\ Idle.state # "talking"
      BY DEF Idle, Job
    <2>4. Handled(Now, s) /\ s \in Session
      BY <2>3, NowTyped, SlotHandled DEF SessionInv, Handled
    <2> HIDE DEF s
    <2>5. \A outcome \in {"Connected", "Error"} :
              Handled(Now, MonitorFinished(s, d, j, outcome))
      BY <2>2, <2>4, MonitorHandled, HandledTwice
    <2>6. Handled(Now, UploadFinished(s, d))
      BY <2>2, <2>4, UploadHandled, HandledTwice
    <2>7. QED
      BY <2>1, <2>5, <2>6, HandlerStep
  <1>4. QED
    BY <1>1, <1>2, <1>3 DEF Workers

LEMMA SessionDevice ==
    ASSUME SessionInv,
           RequestWrite \/ \E d \in Devices : PollTimer(d)
    PROVE  SessionInv'
  <1>1. ASSUME NEW d \in Devices, PollTimer(d) PROVE SessionInv'
    BY <1>1, NowTyped, UpdateHandled, HandlerStep DEF PollTimer, SessionInv
  <1>2. CASE RequestWrite
    <2> DEFINE s == BeginUpload(Now, current)
    <2>1. /\ current # 0 /\ FreeSlots(jobs) # {}
          /\ UNCHANGED pluginOnly
          /\ \/ \E leaves \in BOOLEAN :
                    Become(PreparationFails(s, current, leaves))
             \/ Become(StartUpload(s, current))
      BY <1>2 DEF RequestWrite
    <2>2. current \in Devices
      BY <2>1, BoundsAssumption
         DEF SessionInv, TypeOK, Devices, BoundsAssumption
    <2>3. Handled(Now, s) /\ s \in Session
      BY <2>2, NowTyped, BeginHandled DEF SessionInv, Handled
    <2>4. FreeSlots(s.jobs) # {}
      BY <2>1, NowTyped DEF BeginUpload, SessionInv, Session
    <2> HIDE DEF s
    <2>5. Handled(Now, StartUpload(s, current))
      BY <2>2, <2>3, <2>4, StartUploadHandled, HandledTwice
    <2>6. \A leaves \in BOOLEAN :
              Handled(Now, PreparationFails(s, current, leaves))
      BY <2>2, <2>3, PreparationHandled, HandledTwice
    <2>7. QED
      BY <2>1, <2>5, <2>6, HandlerStep
  <1>3. QED
    BY <1>1, <1>2

LEMMA SessionNext == SessionInv /\ [Next]_vars => SessionInv'
  <1> SUFFICES ASSUME SessionInv, [Next]_vars PROVE SessionInv'
    OBVIOUS
  <1>1. CASE Workers
    BY <1>1, SessionWorkers
  <1>2. CASE User
    BY <1>2, SessionDevice, SessionPlugin, SessionEnabled DEF User
  <1>3. CASE Cura
    BY <1>3, SessionDevice, SessionPlugin DEF Cura
  <1>4. CASE UNCHANGED vars
    BY <1>4 DEF SessionInv, TypeOK, OneTalker, Talking, vars, pluginVars
  <1>5. QED
    BY <1>1, <1>2, <1>3, <1>4 DEF Next

\* The session keeps its types: in particular at most one device polls, and
\* it is the registered one.
THEOREM SessionTypes == Spec => []TypeOK
  <1>1. SessionInv => TypeOK
    BY DEF SessionInv
  <1>2. QED
    BY <1>1, SessionInit, SessionNext, PTL DEF Spec

\* QIDI_PROTOCOL_LOCK: whatever devices come and go, no two jobs of the
\* session are ever on the wire together.
THEOREM OneOnTheWire == Spec => []OneTalker
  <1>1. SessionInv => OneTalker
    BY DEF SessionInv
  <1>2. QED
    BY <1>1, SessionInit, SessionNext, PTL DEF Spec
=============================================================================
