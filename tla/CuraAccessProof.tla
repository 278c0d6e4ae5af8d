-------------------------- MODULE CuraAccessProof --------------------------
(***************************************************************************)
(* The Cura session implements ExclusiveAccess, for any number of devices, *)
(* jobs and addresses.                                                     *)
(*                                                                         *)
(* To the outside a job is its kind and its device (Face); a device has at *)
(* most one job of a kind (Owned, of CuraJobsProof), so nothing is lost    *)
(* when slots become a set.  Of a handler it is enough to know whether it  *)
(* takes a slot for a poll (Grown), and what becomes of the registered     *)
(* device.                                                                 *)
(***************************************************************************)
EXTENDS CuraJobsProof

Alive == {"waiting", "talking", "returned"}

Face(job) == [kind |-> job.kind, device |-> job.device]

\* Outside(states), of any slots.
Seen(js, states) == {Face(js[j]) : j \in {k \in Slots : js[k].state \in states}}

Taken(js, j, kind, d) == [js EXCEPT ![j] = Waiting(kind, d)]

\* At most a poll of device d has been added.
Grown(js, ks, d) ==
    \/ ks = js
    \/ \E j \in FreeSlots(js) : ks = Taken(js, j, "monitor", d)

\* The state ExclusiveAccess speaks of.
Mute == current # 0 /\ devices[current].paused
Asked == Outside(Alive)
Served == Outside({"returned"})
Any(faces) == CHOOSE job \in faces : TRUE
OnTheWire == IF Talking = {} THEN [kind |-> "none", device |-> 0]
             ELSE Any(Outside({"talking"}))

LEMMA OutsideSeen == \A states : Outside(states) = Seen(jobs, states)
  BY DEF Outside, Seen, Face

(***************************************************************************)
(* Slots and what they look like                                           *)
(***************************************************************************)

LEMMA SlotTaken ==
    ASSUME NEW js \in [Slots -> Job], NEW j \in FreeSlots(js),
           NEW kind \in {"monitor", "upload"}, NEW d \in Devices,
           NEW ks, ks = Taken(js, j, kind, d)
    PROVE  /\ Seen(ks, Alive)
                = Seen(js, Alive) \cup {[kind |-> kind, device |-> d]}
           /\ Seen(ks, {"talking"}) = Seen(js, {"talking"})
           /\ Seen(ks, {"returned"}) = Seen(js, {"returned"})
  <1>1. j \in Slots /\ js[j] = Idle /\ Idle.state = "none"
    BY IdleJob DEF FreeSlots
  <1>2. /\ ks[j].state = "waiting"
        /\ Face(ks[j]) = [kind |-> kind, device |-> d]
        /\ \A k \in Slots : k # j => ks[k] = js[k]
    BY <1>1 DEF Taken, Waiting, Face
  <1>3. \A k \in Slots : /\ ks[k].state \in Alive <=> js[k].state \in Alive \/ k = j
                         /\ ks[k].state = "talking" <=> js[k].state = "talking"
                         /\ ks[k].state = "returned" <=> js[k].state = "returned"
    BY <1>1, <1>2 DEF Alive
  <1>4. \A k \in Slots : js[k].state \in Alive => k # j
    BY <1>1 DEF Alive
  <1>5. Seen(ks, Alive)
            = Seen(js, Alive) \cup {[kind |-> kind, device |-> d]}
    BY <1>1, <1>2, <1>3, <1>4 DEF Seen
  <1>6. \A k \in Slots : js[k].state \in {"talking", "returned"} => k # j
    BY <1>1
  <1>7. Seen(ks, {"talking"}) = Seen(js, {"talking"})
    BY <1>2, <1>3, <1>6 DEF Seen
  <1>8. Seen(ks, {"returned"}) = Seen(js, {"returned"})
    BY <1>2, <1>3, <1>6 DEF Seen
  <1>9. QED
    BY <1>5, <1>7, <1>8

\* A slot that is not idle is the only one of its face.
LEMMA FacesDiffer ==
    ASSUME JobsInv, NEW j \in Slots, NEW k \in Slots,
           jobs[j].state \in Alive, jobs[k].state \in Alive,
           Face(jobs[j]) = Face(jobs[k])
    PROVE  j = k
  <1>1. jobs[j] \in Job /\ jobs[k] \in Job
    BY DEF JobsInv, SessionInv, TypeOK
  <1>2. jobs[j].kind = jobs[k].kind /\ jobs[j].device = jobs[k].device
    BY DEF Face
  <1>3. jobs[j].kind \in {"monitor", "upload"} /\ jobs[j].device \in Devices
    BY <1>1 DEF Job, Idle, Alive
  <1>4. Owned(jobs, devices[jobs[j].device], jobs[j].device)
    BY <1>3 DEF JobsInv, Tracked, Fits, Now
  <1>5. QED
    BY <1>2, <1>3, <1>4 DEF Owned

LEMMA GrownSeen ==
    ASSUME NEW js \in [Slots -> Job], NEW d \in Devices, NEW ks, Grown(js, ks, d)
    PROVE  /\ \/ Seen(ks, Alive) = Seen(js, Alive)
              \/ /\ ks # js
                 /\ Seen(ks, Alive) = Seen(js, Alive) \cup {Access!Poll(d)}
           /\ Seen(ks, {"talking"}) = Seen(js, {"talking"})
           /\ Seen(ks, {"returned"}) = Seen(js, {"returned"})
  <1>1. CASE ks = js
    BY <1>1
  <1>2. CASE ks # js
    <2>1. PICK j \in FreeSlots(js) : ks = Taken(js, j, "monitor", d)
      BY <1>2 DEF Grown
    <2> DEFINE poll == [kind |-> "monitor", device |-> d]
    <2>2. /\ Seen(ks, Alive) = Seen(js, Alive) \cup {poll}
          /\ Seen(ks, {"talking"}) = Seen(js, {"talking"})
          /\ Seen(ks, {"returned"}) = Seen(js, {"returned"})
      BY <2>1, SlotTaken
    <2>3. poll = Access!Poll(d)
      BY DEF Access!Poll
    <2>4. QED
      BY <1>2, <2>2, <2>3
  <1>3. QED
    BY <1>1, <1>2

LEMMA SlotGivenUp ==
    ASSUME JobsInv, NEW j \in Slots, jobs[j].state = "returned",
           NEW ks, ks = [jobs EXCEPT ![j] = Idle]
    PROVE  /\ Seen(ks, Alive) = Seen(jobs, Alive) \ {Face(jobs[j])}
           /\ Seen(ks, {"talking"}) = Seen(jobs, {"talking"})
           /\ Seen(ks, {"returned"}) = Seen(jobs, {"returned"}) \ {Face(jobs[j])}
  <1>1. jobs \in [Slots -> Job]
    BY DEF JobsInv, SessionInv, TypeOK
  <1>2. ks[j].state = "none" /\ \A k \in Slots : k # j => ks[k] = jobs[k]
    BY <1>1, IdleJob
  <1>3. \A k \in Slots : k # j /\ jobs[k].state \in Alive => Face(jobs[k]) # Face(jobs[j])
    BY FacesDiffer DEF Alive
  <1>4. Seen(ks, Alive) = Seen(jobs, Alive) \ {Face(jobs[j])}
    BY <1>2, <1>3 DEF Seen, Alive
  <1>5. Seen(ks, {"talking"}) = Seen(jobs, {"talking"})
    BY <1>2 DEF Seen
  <1>6. Seen(ks, {"returned"}) = Seen(jobs, {"returned"}) \ {Face(jobs[j])}
    BY <1>2, <1>3 DEF Seen, Alive
  <1>7. QED
    BY <1>4, <1>5, <1>6

(***************************************************************************)
(* The abstract state and its steps                                        *)
(***************************************************************************)

LEMMA Appearance ==
    /\ Asked = Seen(jobs, Alive) /\ Asked' = Seen(jobs', Alive)
    /\ Served = Seen(jobs, {"returned"}) /\ Served' = Seen(jobs', {"returned"})
  BY DEF Asked, Served, Outside, Seen, Face

LEMMA SameWire ==
    ASSUME Seen(jobs', {"talking"}) = Seen(jobs, {"talking"})
    PROVE  OnTheWire' = OnTheWire
  <1>1. /\ Outside({"talking"}) = Seen(jobs, {"talking"})
        /\ Outside({"talking"})' = Seen(jobs', {"talking"})
    BY DEF Outside, Seen, Face
  <1>2. /\ Talking = {} <=> Seen(jobs, {"talking"}) = {}
        /\ Talking' = {} <=> Seen(jobs', {"talking"}) = {}
    BY DEF Talking, Seen
  <1>3. QED
    BY <1>1, <1>2 DEF OnTheWire

LEMMA SetMaps ==
    ASSUME current # 0, UNCHANGED <<made, current, OnTheWire, Served>>,
           \/ Asked' = Asked
           \/ /\ ~Mute'
              /\ Access!Upload(current) \notin Asked
              /\ Asked' = Asked \cup {Access!Poll(current)}
    PROVE  Access!Set
  BY DEF Access!Set, Access!Asks, Mute, Asked, Served, OnTheWire, Any, Alive

LEMMA RegisterMaps ==
    ASSUME made' = made + 1, current' = made', UNCHANGED <<OnTheWire, Served>>,
           Asked' = Asked \/ Asked' = Asked \cup {Access!Poll(current')}
    PROVE  Access!Register
  BY DEF Access!Register, Mute, Asked, Served, OnTheWire, Any, Alive

LEMMA DeregisterMaps ==
    ASSUME current' = 0, UNCHANGED <<made, Asked, OnTheWire, Served>>
    PROVE  Access!Deregister
  BY DEF Access!Deregister, Mute, Asked, Served, OnTheWire, Any, Alive

LEMMA AskUploadMaps ==
    ASSUME current # 0, ~Mute, Access!Upload(current) \notin Asked,
           Asked' = Asked \cup {Access!Upload(current)},
           UNCHANGED <<made, current, Mute, OnTheWire, Served>>
    PROVE  Access!AskUpload
  BY DEF Access!AskUpload, Mute, Asked, Served, OnTheWire, Any, Alive

LEMMA GrantMaps ==
    ASSUME OnTheWire = Access!NoJob, OnTheWire' \in Asked \ Served,
           UNCHANGED <<made, current, Mute, Asked, Served>>
    PROVE  Access!Grant
  BY DEF Access!Grant, Mute, Asked, Served, OnTheWire, Any, Alive

LEMMA ReleaseMaps ==
    ASSUME OnTheWire # Access!NoJob, OnTheWire' = Access!NoJob,
           Served' = Served \cup {OnTheWire},
           UNCHANGED <<made, current, Mute, Asked>>
    PROVE  Access!Release
  BY DEF Access!Release, Mute, Asked, Served, OnTheWire, Any, Alive

LEMMA ReportMaps ==
    ASSUME NEW job \in Served, Served' = Served \ {job},
           UNCHANGED <<made, current, Mute, OnTheWire>>,
           \/ Asked' = Asked \ {job}
           \/ /\ current # 0
              /\ ~Mute
              /\ Access!Upload(current) \notin Asked \ {job}
              /\ Asked' = (Asked \ {job}) \cup {Access!Poll(current)}
    PROVE  Access!Report
  BY DEF Access!Report, Access!Asks, Mute, Asked, Served, OnTheWire, Any, Alive

LEMMA StutterMaps ==
    ASSUME UNCHANGED <<made, current, Mute, Asked, OnTheWire, Served>>
    PROVE  UNCHANGED Access!accessVars
  BY DEF Access!accessVars, Mute, Asked, Served, OnTheWire, Any, Alive

(***************************************************************************)
(* What the handlers take and what they leave alone                        *)
(***************************************************************************)

Manner(s, d) == s.devices[d].paused

LEMMA UpdateGrows ==
    ASSUME NEW s \in Session, NEW d \in Devices
    PROVE  /\ Grown(s.jobs, Update(s, d).jobs, d)
           /\ Update(s, d).jobs # s.jobs => PollStarts(s.devices[d])
           /\ \A e \in Devices : Manner(Update(s, d), e) = Manner(s, e)
  <1>1. CASE ~(PollStarts(s.devices[d]) /\ FreeSlots(s.jobs) # {})
    BY <1>1 DEF Update, Grown
  <1>2. CASE PollStarts(s.devices[d]) /\ FreeSlots(s.jobs) # {}
    <2> DEFINE j == NextSlot(s.jobs)
    <2>1. j \in FreeSlots(s.jobs)
      BY <1>2 DEF NextSlot
    <2> HIDE DEF j
    <2>2. /\ Update(s, d).jobs = Taken(s.jobs, j, "monitor", d)
          /\ Update(s, d).devices = [s.devices EXCEPT ![d].monitor = j]
      BY <1>2 DEF Update, Taken, Session, j
    <2>3. \A e \in Devices : Manner(Update(s, d), e) = Manner(s, e)
      BY <2>2 DEF Manner, Session, Device
    <2>4. QED
      BY <1>2, <2>1, <2>2, <2>3 DEF Grown
  <1>3. QED
    BY <1>1, <1>2

LEMMA DeviceReplaced ==
    ASSUME NEW s \in Session, NEW d \in Devices, NEW r \in Device,
           NEW files \in SUBSET (Slots \cup {NoJob})
    PROVE  LET x == Changed(s, d, r, s.jobs, files)
           IN  /\ x \in Session /\ x.jobs = s.jobs /\ x.devices[d] = r
               /\ r.paused = s.devices[d].paused
                      => \A e \in Devices : Manner(x, e) = Manner(s, e)
  BY DEF Changed, Session, Manner

LEMMA PreparationGrows ==
    ASSUME NEW s \in Session, NEW d \in Devices, NEW leaves \in BOOLEAN
    PROVE  LET t == PreparationFails(s, d, leaves)
           IN  /\ Grown(s.jobs, t.jobs, d)
               /\ t.jobs # s.jobs => ~Manner(s, d)
               /\ \A e \in Devices : Manner(t, e) = Manner(s, e)
  <1> DEFINE files == IF leaves THEN s.disk \cup {NoJob} ELSE s.disk
             r == [s.devices[d] EXCEPT !.uploading = FALSE, !.conn = "Connecting"]
             x == Changed(s, d, r, s.jobs, files)
  <1>1. r \in Device /\ r.paused = s.devices[d].paused
    BY DEF Session, Device, Connections
  <1>2. files \in SUBSET (Slots \cup {NoJob})
    BY DEF Session
  <1>3. PreparationFails(s, d, leaves) =
            Update([s EXCEPT !.devices[d].uploading = FALSE,
                             !.devices[d].conn = "Connecting",
                             !.disk = files], d)
    BY DEF PreparationFails
  <1> HIDE DEF files
  <1>4. [s EXCEPT !.devices[d].uploading = FALSE,
                  !.devices[d].conn = "Connecting",
                  !.disk = files] = x
    BY DEF Session, Changed
  <1>5. PreparationFails(s, d, leaves) = Update(x, d)
    BY <1>3, <1>4
  <1> HIDE DEF r
  <1>6. /\ x \in Session /\ x.jobs = s.jobs /\ x.devices[d] = r
        /\ \A e \in Devices : Manner(x, e) = Manner(s, e)
    BY <1>1, <1>2, DeviceReplaced
  <1> HIDE DEF x
  <1>7. QED
    BY <1>1, <1>5, <1>6, UpdateGrows DEF PollStarts, PollingAllowed, Manner

LEMMA UploadGrows ==
    ASSUME NEW s \in Session, NEW d \in Devices
    PROVE  LET t == UploadFinished(s, d)
           IN  /\ Grown(s.jobs, t.jobs, d)
               /\ t.jobs # s.jobs => ~Manner(s, d) /\ s.devices[d].open
               /\ \A e \in Devices : Manner(t, e) = Manner(s, e)
  <1> DEFINE c == CleanupTempFile(s, d)
             cleaned == [s.devices[d] EXCEPT !.temp = NoJob]
             conn == IF s.devices[d].paused THEN "Closed" ELSE "Connecting"
             r == [cleaned EXCEPT !.writing = FALSE, !.upload = NoJob,
                                  !.uploading = FALSE, !.conn = conn]
             x == Changed(c, d, r, c.jobs, c.disk)
  <1>1. /\ cleaned \in Device /\ r \in Device
        /\ cleaned.paused = s.devices[d].paused
        /\ r.paused = s.devices[d].paused /\ r.open = s.devices[d].open
    BY DEF Session, Device, Connections, NoJob
  <1> HIDE DEF cleaned
  <1>2. c = Changed(s, d, cleaned, s.jobs, s.disk \ {s.devices[d].temp})
    BY DEF CleanupTempFile, Session, Changed, cleaned
  <1>3. /\ c \in Session /\ c.jobs = s.jobs /\ c.devices[d] = cleaned
        /\ \A e \in Devices : Manner(c, e) = Manner(s, e)
    <2>1. s.disk \ {s.devices[d].temp} \in SUBSET (Slots \cup {NoJob})
      BY DEF Session
    <2>2. QED
      BY <1>1, <1>2, <2>1, DeviceReplaced
  <1>4. UploadFinished(s, d) =
            Update([c EXCEPT !.devices[d].writing = FALSE,
                             !.devices[d].upload = NoJob,
                             !.devices[d].uploading = FALSE,
                             !.devices[d].conn = conn], d)
    BY <1>1, <1>3 DEF UploadFinished
  <1> HIDE DEF c, conn
  <1>5. [c EXCEPT !.devices[d].writing = FALSE,
                  !.devices[d].upload = NoJob,
                  !.devices[d].uploading = FALSE,
                  !.devices[d].conn = conn] = [c EXCEPT !.devices[d] = r]
    <2> DEFINE p == [c.devices[d] EXCEPT !.writing = FALSE, !.upload = NoJob,
                                         !.uploading = FALSE, !.conn = conn]
    <2>1. [c EXCEPT !.devices[d].writing = FALSE,
                    !.devices[d].upload = NoJob,
                    !.devices[d].uploading = FALSE,
                    !.devices[d].conn = conn] = [c EXCEPT !.devices[d] = p]
      <3>1. c \in Session
        BY <1>3
      <3>2. QED
        BY <3>1 DEF Session
    <2>2. p = r
      BY <1>3
    <2> HIDE DEF p, r
    <2>3. QED
      BY <2>1, <2>2
  <1> HIDE DEF r
  <1>6. [c EXCEPT !.devices[d] = r] = x
    <2>1. c \in Session
      BY <1>3
    <2>2. QED
      BY <2>1 DEF Session, Changed
  <1>7. /\ x \in Session /\ x.jobs = c.jobs /\ x.devices[d] = r
        /\ \A e \in Devices : Manner(x, e) = Manner(c, e)
    <2>1. c.disk \in SUBSET (Slots \cup {NoJob})
      BY <1>3 DEF Session
    <2>2. r.paused = c.devices[d].paused
      BY <1>1, <1>3
    <2>3. QED
      BY <1>1, <1>3, <2>1, <2>2, DeviceReplaced
  <1> HIDE DEF x
  <1>8. QED
    BY <1>1, <1>3, <1>4, <1>5, <1>6, <1>7, UpdateGrows
       DEF PollStarts, PollingAllowed, Manner

LEMMA ResumeGrows ==
    ASSUME NEW s \in Session, NEW d \in Devices
    PROVE  LET t == Resume(s, d)
           IN  /\ Grown(s.jobs, t.jobs, d)
               /\ t.jobs # s.jobs => ~s.devices[d].uploading
               /\ ~Manner(t, d)
  <1>1. CASE s.devices[d].uploading
    BY <1>1 DEF Resume, Grown, Manner, Session, Device
  <1>2. CASE ~s.devices[d].uploading
    <2> DEFINE r == [s.devices[d] EXCEPT !.paused = FALSE, !.conn = "Connecting"]
               x == Changed(s, d, r, s.jobs, s.disk)
    <2>1. r \in Device /\ ~r.paused
      BY DEF Session, Device, Connections
    <2>2. Resume(s, d) = Update(x, d)
      BY <1>2 DEF Resume, Changed, Session
    <2> HIDE DEF r
    <2>3. x \in Session /\ x.jobs = s.jobs /\ x.devices[d] = r
      BY <2>1 DEF Changed, Session
    <2> HIDE DEF x
    <2>4. QED
      BY <1>2, <2>1, <2>2, <2>3, UpdateGrows DEF Manner
  <1>3. QED
    BY <1>1, <1>2

LEMMA MonitorKeeps ==
    ASSUME NEW s \in Session, NEW d \in Devices, NEW j \in Slots,
           NEW outcome \in {"Connected", "Error"}
    PROVE  LET t == MonitorFinished(s, d, j, outcome)
           IN  /\ t.jobs = s.jobs
               /\ \A e \in Devices : Manner(t, e) = Manner(s, e)
  BY DEF MonitorFinished, Discard, Manner, Session, Device

LEMMA StartTakes ==
    ASSUME NEW s \in Session, NEW d \in Devices, FreeSlots(s.jobs) # {}
    PROVE  LET t == StartUpload(s, d)
           IN  /\ \E j \in FreeSlots(s.jobs) : t.jobs = Taken(s.jobs, j, "upload", d)
               /\ \A e \in Devices : Manner(t, e) = Manner(s, e)
  <1> DEFINE j == NextSlot(s.jobs)
  <1>1. j \in FreeSlots(s.jobs)
    BY DEF NextSlot
  <1> HIDE DEF j
  <1>2. StartUpload(s, d).jobs = Taken(s.jobs, j, "upload", d)
    BY DEF StartUpload, Taken, Session, j
  <1>3. \A e \in Devices : Manner(StartUpload(s, d), e) = Manner(s, e)
    BY DEF StartUpload, Manner, Session, Device
  <1>4. QED
    BY <1>1, <1>2, <1>3

LEMMA RegisterGrows ==
    ASSUME NEW s \in Session, s.made < MaxDevices, NEW paused \in BOOLEAN
    PROVE  LET t == Register(s, paused)
           IN  /\ Grown(s.jobs, t.jobs, s.made + 1)
               /\ t.made = s.made + 1 /\ t.current = s.made + 1
  <1> DEFINE d == s.made + 1
             r == [Unborn EXCEPT !.open = TRUE, !.paused = paused,
                                 !.conn = IF paused THEN "Closed"
                                          ELSE "Connecting"]
             x == [s EXCEPT !.made = d, !.current = d,
                            !.devices = [s.devices EXCEPT ![d] = r]]
  <1>1. d \in Devices /\ d \in 0 .. MaxDevices
    BY BoundsAssumption DEF Session, Devices
  <1>2. r \in Device
    BY DEF Unborn, Device, Connections, NoJob
  <1>3. Register(s, paused) = Update(x, d)
    BY DEF Register, Construct, Session
  <1> HIDE DEF r
  <1>4. x \in Session /\ x.jobs = s.jobs /\ x.made = d /\ x.current = d
    BY <1>1, <1>2 DEF Session
  <1> HIDE DEF x
  <1>5. Handled(x, Update(x, d)) /\ Grown(x.jobs, Update(x, d).jobs, d)
    BY <1>1, <1>4, UpdateHandled, UpdateGrows
  <1>6. QED
    BY <1>3, <1>4, <1>5 DEF Handled

(***************************************************************************)
(* The steps                                                               *)
(***************************************************************************)

LEMMA GrownMaps ==
    ASSUME JobsInv, NEW d \in Devices, Grown(jobs, jobs', d)
    PROVE  /\ \/ Asked' = Asked
              \/ jobs' # jobs /\ Asked' = Asked \cup {Access!Poll(d)}
           /\ UNCHANGED <<OnTheWire, Served>>
  <1>1. jobs \in [Slots -> Job]
    BY DEF JobsInv, SessionInv, TypeOK
  <1>2. QED
    BY <1>1, GrownSeen, Appearance, SameWire

LEMMA SameJobs ==
    ASSUME jobs' = jobs
    PROVE  UNCHANGED <<Asked, OnTheWire, Served>>
  BY Appearance, SameWire

LEMMA NoUploadAsked ==
    ASSUME JobsInv, NEW d \in Devices, ~devices[d].uploading
    PROVE  Access!Upload(d) \notin Asked
  <1>1. Live("upload", d) = {}
    BY DeviceKnows DEF Shown
  <1>2. \A j \in Slots : jobs[j].state \in Alive
            => ~(jobs[j].kind = "upload" /\ jobs[j].device = d)
    BY <1>1 DEF Live, Alive
  <1>3. QED
    BY <1>2, Appearance DEF Seen, Face, Access!Upload

LEMMA MuteKept ==
    ASSUME JobsInv, current' = current,
           \A e \in Devices : devices'[e].paused = devices[e].paused
    PROVE  Mute' = Mute
  <1>1. current = 0 \/ current \in Devices
    BY CurrentDevice DEF JobsInv
  <1>2. QED
    BY <1>1 DEF Mute

LEMMA TalksAlone ==
    ASSUME JobsInv, NEW j \in Slots, jobs[j].state = "talking"
    PROVE  OnTheWire = Face(jobs[j])
  <1>1. Talking = {j}
    BY DEF JobsInv, SessionInv, OneTalker, Talking
  <1>2. Outside({"talking"}) = {Face(jobs[j])}
    BY <1>1, OutsideSeen DEF Talking, Seen
  <1>3. QED
    BY <1>1, <1>2 DEF OnTheWire, Any

\* A slot that keeps its job and takes a state that is not idle.
LEMMA StateAdvances ==
    ASSUME JobsInv, NEW j \in Slots, jobs[j].state \in Alive,
           NEW state \in Alive, jobs' = [jobs EXCEPT ![j].state = state]
    PROVE  /\ Asked' = Asked
           /\ jobs'[j].state = state
           /\ Face(jobs'[j]) = Face(jobs[j])
           /\ \A k \in Slots \ {j} : jobs'[k] = jobs[k]
  <1>1. jobs \in [Slots -> Job] /\ jobs[j] \in Job
    BY DEF JobsInv, SessionInv, TypeOK
  <1>2. /\ jobs'[j] = [jobs[j] EXCEPT !.state = state]
        /\ \A k \in Slots \ {j} : jobs'[k] = jobs[k]
    BY <1>1
  <1>3. jobs'[j].state = state /\ Face(jobs'[j]) = Face(jobs[j])
    BY <1>1, <1>2 DEF Job, Idle, Face
  <1>4. Seen(jobs', Alive) = Seen(jobs, Alive)
    BY <1>2, <1>3 DEF Seen
  <1>5. QED
    BY <1>2, <1>3, <1>4, Appearance

LEMMA AcquireMaps ==
    ASSUME JobsInv, NEW j \in Slots, Acquire(j)
    PROVE  Access!Grant
  <1> DEFINE d == jobs[j].device
  <1>1. /\ jobs[j].state = "waiting" /\ Talking = {}
        /\ jobs' = [jobs EXCEPT ![j].state = "talking"]
        /\ devices' \in {devices, [devices EXCEPT ![d].overtaken = @ + 1]}
        /\ UNCHANGED <<made, current>>
    BY DEF Acquire, AcquireLock, LockFree, pluginVars
  <1>2. /\ Asked' = Asked /\ jobs'[j].state = "talking"
        /\ Face(jobs'[j]) = Face(jobs[j])
        /\ \A k \in Slots \ {j} : jobs'[k] = jobs[k]
    BY <1>1, StateAdvances DEF Alive
  <1>3. OnTheWire = Access!NoJob
    BY <1>1 DEF OnTheWire, Access!NoJob
  <1>4. OnTheWire' = Face(jobs[j])
    <2>1. Talking' = {j}
      BY <1>1, <1>2 DEF Talking
    <2>2. Outside({"talking"})' = {Face(jobs[j])}
      <3>1. Outside({"talking"})' = Seen(jobs', {"talking"})
        BY DEF Outside, Seen, Face
      <3>2. Seen(jobs', {"talking"}) = {Face(jobs'[j])}
        BY <2>1 DEF Seen, Talking
      <3>3. QED
        BY <1>2, <3>1, <3>2
    <2>3. QED
      BY <2>1, <2>2 DEF OnTheWire, Any
  <1>5. Served' = Served
    BY <1>1, <1>2, Appearance DEF Seen
  <1>6. Face(jobs[j]) \in Asked
    BY <1>1, Appearance DEF Seen, Alive
  <1>7. Face(jobs[j]) \notin Served
    <2>1. ASSUME NEW k \in Slots, jobs[k].state = "returned",
                 Face(jobs[k]) = Face(jobs[j])
          PROVE  FALSE
      BY <1>1, <2>1, FacesDiffer DEF Alive
    <2>2. QED
      BY <2>1, Appearance DEF Seen
  <1>8. Mute' = Mute
    <2>1. \A e \in Devices : devices'[e].paused = devices[e].paused
      BY <1>1 DEF JobsInv, SessionInv, TypeOK, Device
    <2>2. QED
      BY <1>1, <2>1, MuteKept
  <1>9. QED
    BY <1>1, <1>2, <1>3, <1>4, <1>5, <1>6, <1>7, <1>8, GrantMaps

LEMMA ReturnMaps ==
    ASSUME JobsInv, NEW j \in Slots, Return(j)
    PROVE  Access!Release
  <1>1. /\ jobs[j].state = "talking"
        /\ jobs' = [jobs EXCEPT ![j].state = "returned"]
        /\ UNCHANGED <<made, current, devices>>
    BY DEF Return, JobReturns, pluginVars
  <1>2. /\ Asked' = Asked /\ jobs'[j].state = "returned"
        /\ Face(jobs'[j]) = Face(jobs[j])
        /\ \A k \in Slots \ {j} : jobs'[k] = jobs[k]
    BY <1>1, StateAdvances DEF Alive
  <1>3. OnTheWire = Face(jobs[j])
    BY <1>1, TalksAlone
  <1>4. OnTheWire # Access!NoJob
    <2>1. jobs[j] \in Job
      BY DEF JobsInv, SessionInv, TypeOK
    <2>2. jobs[j].kind # "none"
      BY <1>1, <2>1, JobKinds
    <2>3. QED
      BY <1>3, <2>2 DEF Face, Access!NoJob
  <1>5. Talking = {j}
    BY <1>1 DEF JobsInv, SessionInv, OneTalker, Talking
  <1>6. OnTheWire' = Access!NoJob
    <2>1. Talking' = {}
      BY <1>2, <1>5 DEF Talking
    <2>2. QED
      BY <2>1 DEF OnTheWire, Access!NoJob
  <1>7. Served' = Served \cup {OnTheWire}
    BY <1>1, <1>2, <1>3, Appearance DEF Seen
  <1>8. Mute' = Mute
    BY <1>1 DEF Mute
  <1>9. QED
    BY <1>1, <1>2, <1>4, <1>6, <1>7, <1>8, ReleaseMaps

LEMMA DeliverMaps ==
    ASSUME JobsInv, NEW j \in Slots, Deliver(j)
    PROVE  Access!Report
  <1> DEFINE d == jobs[j].device
             s == [Now EXCEPT !.jobs[j] = Idle]
             job == Face(jobs[j])
  <1>1. /\ jobs[j].state = "returned"
        /\ \/ /\ jobs[j].kind = "monitor"
              /\ \E outcome \in {"Connected", "Error"} :
                     Become(MonitorFinished(s, d, j, outcome))
           \/ /\ jobs[j].kind = "upload"
              /\ Become(UploadFinished(s, d))
    <2>1. jobs[j] \in Job
      BY DEF JobsInv, SessionInv, TypeOK
    <2>2. jobs[j].state = "returned" => jobs[j].kind \in {"monitor", "upload"}
      BY <2>1 DEF Job, Idle
    <2>3. QED
      BY <2>2 DEF Deliver
  <1>2. /\ Now \in Session /\ OneOpen(Now)
        /\ Now.jobs = jobs /\ Now.devices = devices
        /\ Now.made = made /\ Now.current = current
    BY NowTyped DEF JobsInv, SessionInv
  <1>3. d \in Devices
    <2>1. jobs[j] \in Job
      BY DEF JobsInv, SessionInv, TypeOK
    <2>2. QED
      BY <1>1, <2>1 DEF Job, Idle
  <1>4. /\ s \in Session /\ s.jobs = [jobs EXCEPT ![j] = Idle]
        /\ s.devices = devices /\ s.made = made /\ s.current = current
    BY <1>2, IdleJob DEF Session
  <1> HIDE DEF s
  <1>5. /\ Seen(s.jobs, Alive) = Asked \ {job}
        /\ Seen(s.jobs, {"talking"}) = Seen(jobs, {"talking"})
        /\ Seen(s.jobs, {"returned"}) = Served \ {job}
    BY <1>1, <1>4, SlotGivenUp, Appearance
  <1>6. job \in Served
    BY <1>1, Appearance DEF Seen
  <1>7. CASE jobs[j].kind = "monitor"
    <2>1. PICK outcome \in {"Connected", "Error"} :
              Become(MonitorFinished(s, d, j, outcome))
      BY <1>1, <1>7
    <2> DEFINE t == MonitorFinished(s, d, j, outcome)
    <2>2. /\ t.jobs = s.jobs /\ Handled(s, t)
          /\ \A e \in Devices : Manner(t, e) = Manner(s, e)
      BY <1>3, <1>4, MonitorKeeps, MonitorHandled
    <2> HIDE DEF t
    <2>3. /\ jobs' = s.jobs /\ made' = made /\ current' = current
          /\ \A e \in Devices : devices'[e].paused = devices[e].paused
      BY <1>4, <2>1, <2>2 DEF Become, Handled, Manner, t
    <2> HIDE DEF d, job
    <2>4. Asked' = Asked \ {job} /\ Served' = Served \ {job} /\ OnTheWire' = OnTheWire
      BY <1>5, <2>3, Appearance, SameWire
    <2>5. QED
      BY <1>6, <2>3, <2>4, MuteKept, ReportMaps
  <1>8. CASE jobs[j].kind = "upload"
    <2> DEFINE t == UploadFinished(s, d)
    <2>1. /\ Grown(s.jobs, t.jobs, d) /\ Handled(s, t)
          /\ t.jobs # s.jobs => ~Manner(s, d) /\ s.devices[d].open
          /\ \A e \in Devices : Manner(t, e) = Manner(s, e)
      BY <1>3, <1>4, UploadGrows, UploadHandled
    <2>2. Become(t)
      BY <1>1, <1>8
    <2> HIDE DEF t
    <2>3. /\ jobs' = t.jobs /\ made' = made /\ current' = current
          /\ \A e \in Devices : devices'[e].paused = devices[e].paused
      BY <1>4, <2>1, <2>2 DEF Become, Handled, Manner
    <2>4. job = Access!Upload(d)
      BY <1>8 DEF Face, Access!Upload
    <2> HIDE DEF d, job
    <2>5. Mute' = Mute
      BY <2>3, MuteKept
    <2>6. s.jobs \in [Slots -> Job]
      BY <1>4 DEF Session
    <2>7. /\ \/ Seen(jobs', Alive) = Asked \ {job}
             \/ /\ jobs' # s.jobs
                /\ Seen(jobs', Alive) = (Asked \ {job}) \cup {Access!Poll(d)}
          /\ Seen(jobs', {"talking"}) = Seen(jobs, {"talking"})
          /\ Seen(jobs', {"returned"}) = Served \ {job}
      BY <1>3, <1>5, <2>1, <2>3, <2>6, GrownSeen
    <2>8. Served' = Served \ {job} /\ OnTheWire' = OnTheWire
      BY <2>7, Appearance, SameWire
    <2>9. CASE Seen(jobs', Alive) = Asked \ {job}
      BY <1>6, <2>3, <2>5, <2>8, <2>9, Appearance, ReportMaps
    <2>10. CASE /\ jobs' # s.jobs
                /\ Seen(jobs', Alive) = (Asked \ {job}) \cup {Access!Poll(d)}
      <3>1. devices[d].open /\ ~devices[d].paused
        BY <1>4, <2>1, <2>3, <2>10 DEF Manner
      <3>2. current = d /\ current # 0
        BY <1>2, <1>3, <3>1 DEF OneOpen
      <3>3. ~Mute
        BY <3>1, <3>2 DEF Mute
      <3>4. Asked' = (Asked \ {job}) \cup {Access!Poll(current)}
        BY <2>10, <3>2, Appearance
      <3>5. QED
        BY <1>6, <2>3, <2>4, <2>5, <2>8, <3>2, <3>3, <3>4, ReportMaps
    <2>11. QED
      BY <2>7, <2>9, <2>10
  <1>9. QED
    BY <1>1, <1>7, <1>8

LEMMA WorkersMap ==
    ASSUME JobsInv, Workers
    PROVE  Access!Next
  BY AcquireMaps, ReturnMaps, DeliverMaps DEF Workers, Access!Next

\* The registered device may take a slot for a poll.
LEMMA PollMaps ==
    ASSUME JobsInv, current # 0, made' = made, current' = current,
           Grown(jobs, jobs', current),
           jobs' # jobs => ~Mute' /\ ~devices[current].uploading
    PROVE  Access!Set
  <1>1. current \in Devices
    BY CurrentDevice DEF JobsInv
  <1>2. /\ \/ Asked' = Asked
           \/ jobs' # jobs /\ Asked' = Asked \cup {Access!Poll(current)}
        /\ UNCHANGED <<OnTheWire, Served>>
    BY <1>1, GrownMaps
  <1>3. CASE Asked' = Asked
    BY <1>2, <1>3, SetMaps
  <1>4. CASE jobs' # jobs /\ Asked' = Asked \cup {Access!Poll(current)}
    <2>1. Access!Upload(current) \notin Asked
      BY <1>1, <1>4, NoUploadAsked
    <2>2. QED
      BY <1>2, <1>4, <2>1, SetMaps
  <1>5. QED
    BY <1>2, <1>3, <1>4

LEMMA PollTimerMaps ==
    ASSUME JobsInv, NEW d \in Devices, PollTimer(d)
    PROVE  Access!Set
  <1> DEFINE t == Update(Now, d)
  <1>1. /\ Now \in Session /\ OneOpen(Now)
        /\ Now.jobs = jobs /\ Now.devices = devices
        /\ Now.made = made /\ Now.current = current
    BY NowTyped DEF JobsInv, SessionInv
  <1>2. devices[d].open /\ Become(t)
    BY DEF PollTimer
  <1>3. /\ Handled(Now, t) /\ Grown(jobs, t.jobs, d)
        /\ t.jobs # jobs => PollStarts(devices[d])
        /\ \A e \in Devices : Manner(t, e) = Manner(Now, e)
    BY <1>1, UpdateHandled, UpdateGrows
  <1> HIDE DEF t
  <1>4. d = current /\ current # 0
    BY <1>1, <1>2 DEF OneOpen
  <1>5. /\ jobs' = t.jobs /\ made' = made /\ current' = current
        /\ \A e \in Devices : devices'[e].paused = devices[e].paused
    BY <1>1, <1>2, <1>3 DEF Become, Handled, Manner
  <1>6. jobs' # jobs => ~Mute' /\ ~devices[current].uploading
    BY <1>3, <1>4, <1>5 DEF Mute, PollStarts, PollingAllowed
  <1>7. QED
    BY <1>3, <1>4, <1>5, <1>6, PollMaps

LEMMA RequestWriteMaps ==
    ASSUME JobsInv, RequestWrite
    PROVE  Access!Set \/ Access!AskUpload
  <1> DEFINE s == BeginUpload(Now, current)
  <1>1. /\ current \in Devices /\ current # 0
        /\ ~devices[current].paused /\ ~devices[current].uploading
        /\ FreeSlots(jobs) # {}
    BY CurrentDevice DEF RequestWrite, AcceptsUpload, JobsInv
  <1>2. /\ Now \in Session /\ Now.jobs = jobs /\ Now.devices = devices
        /\ Now.made = made /\ Now.current = current
    BY NowTyped DEF JobsInv, SessionInv
  <1>3. /\ s \in Session /\ s.jobs = jobs /\ s.made = made /\ s.current = current
        /\ \A e \in Devices : Manner(s, e) = devices[e].paused
    <2>1. Handled(Now, s)
      BY <1>1, <1>2, BeginHandled
    <2>2. s.jobs = jobs /\ \A e \in Devices : Manner(s, e) = devices[e].paused
      BY <1>1, <1>2 DEF BeginUpload, Manner, Session, Device
    <2>3. QED
      BY <1>2, <2>1, <2>2 DEF Handled
  <1>4. \/ \E leaves \in BOOLEAN : Become(PreparationFails(s, current, leaves))
        \/ Become(StartUpload(s, current))
    BY DEF RequestWrite
  <1> HIDE DEF s
  <1>5. ASSUME NEW leaves \in BOOLEAN, Become(PreparationFails(s, current, leaves))
        PROVE  Access!Set
    <2> DEFINE t == PreparationFails(s, current, leaves)
    <2>1. /\ Handled(s, t) /\ Grown(jobs, t.jobs, current)
          /\ \A e \in Devices : Manner(t, e) = Manner(s, e)
      BY <1>1, <1>3, PreparationHandled, PreparationGrows
    <2>2. Become(t)
      BY <1>5
    <2> HIDE DEF t
    <2>3. /\ jobs' = t.jobs /\ made' = made /\ current' = current
          /\ \A e \in Devices : devices'[e].paused = devices[e].paused
      BY <1>3, <2>1, <2>2 DEF Become, Handled, Manner
    <2>4. ~Mute'
      BY <1>1, <2>3 DEF Mute
    <2>5. QED
      BY <1>1, <2>1, <2>3, <2>4, PollMaps
  <1>6. CASE Become(StartUpload(s, current))
    <2> DEFINE t == StartUpload(s, current)
    <2>1. /\ Handled(s, t)
          /\ \E j \in FreeSlots(jobs) : t.jobs = Taken(jobs, j, "upload", current)
          /\ \A e \in Devices : Manner(t, e) = Manner(s, e)
      BY <1>1, <1>3, StartUploadHandled, StartTakes
    <2>2. Become(t)
      BY <1>6
    <2> HIDE DEF t
    <2>3. /\ jobs' = t.jobs /\ made' = made /\ current' = current
          /\ \A e \in Devices : devices'[e].paused = devices[e].paused
      BY <1>3, <2>1, <2>2 DEF Become, Handled, Manner
    <2>4. PICK j \in FreeSlots(jobs) : jobs' = Taken(jobs, j, "upload", current)
      BY <2>1, <2>3
    <2> DEFINE upload == [kind |-> "upload", device |-> current]
    <2>5. /\ Seen(jobs', Alive) = Seen(jobs, Alive) \cup {upload}
          /\ Seen(jobs', {"talking"}) = Seen(jobs, {"talking"})
          /\ Seen(jobs', {"returned"}) = Seen(jobs, {"returned"})
      <3>1. jobs \in [Slots -> Job]
        BY DEF JobsInv, SessionInv, TypeOK
      <3>2. QED
        BY <1>1, <2>4, <3>1, SlotTaken
    <2>6. upload = Access!Upload(current)
      BY DEF Access!Upload
    <2> HIDE DEF upload
    <2>7. /\ Asked' = Asked \cup {Access!Upload(current)}
          /\ UNCHANGED <<OnTheWire, Served>>
      BY <2>5, <2>6, Appearance, SameWire
    <2>8. ~Mute /\ Mute' = Mute
      BY <1>1, <2>3, MuteKept DEF Mute
    <2>9. QED
      BY <1>1, <2>3, <2>7, <2>8, NoUploadAsked, AskUploadMaps
  <1>7. QED
    BY <1>4, <1>5, <1>6

(***************************************************************************)
(* The registrar                                                           *)
(***************************************************************************)

\* Nothing happens, the device is removed, or there is a new one.
Shifts(s, t) ==
    \/ t = s
    \/ t.jobs = s.jobs /\ t.made = s.made /\ t.current = 0
    \/ /\ t.made = s.made + 1 /\ t.current = t.made /\ t.made \in Devices
       /\ Grown(s.jobs, t.jobs, t.made)

LEMMA RemoveShifts ==
    ASSUME NEW s \in Session
    PROVE  Remove(s).jobs = s.jobs /\ Remove(s).made = s.made /\ Shifts(s, Remove(s))
  BY DEF Remove, Close, Session, Shifts

LEMMA SyncShifts ==
    ASSUME NEW s \in Session, NEW paused \in BOOLEAN
    PROVE  Shifts(s, Sync(s, paused))
  <1>1. CASE stack = "other"
    BY <1>1, RemoveShifts DEF Sync
  <1>2. CASE /\ stack # "other" /\ stack # "none"
             /\ s.current = 0 /\ s.made < MaxDevices
    <2>1. s.made + 1 \in Devices
      BY <1>2, BoundsAssumption DEF Session, Devices
    <2>2. Sync(s, paused) = Register(s, paused)
      BY <1>2 DEF Sync
    <2>3. QED
      BY <1>2, <2>1, <2>2, RegisterGrows DEF Shifts
  <1>3. CASE /\ stack # "other"
             /\ stack = "none" \/ ~(s.current = 0 /\ s.made < MaxDevices)
    BY <1>3 DEF Sync, Shifts
  <1>4. QED
    BY <1>1, <1>2, <1>3

LEMMA SyncDevicesShifts ==
    ASSUME SessionInv, NEW reg
    PROVE  Shifts(Now, SyncDevices(reg))
  <1>1. Now \in Session /\ (reg = "paused") \in BOOLEAN
    BY NowTyped DEF SessionInv
  <1>2. QED
    BY <1>1, SyncShifts DEF SyncDevices, Shifts

LEMMA ShiftMaps ==
    ASSUME JobsInv, NEW t, Shifts(Now, t), Become(t)
    PROVE  Access!Next \/ UNCHANGED Access!accessVars
  <1>1. /\ Now.jobs = jobs /\ Now.devices = devices
        /\ Now.made = made /\ Now.current = current
    BY NowTyped DEF JobsInv, SessionInv
  <1>2. CASE t = Now
    <2>1. UNCHANGED <<jobs, devices, made, current>>
      BY <1>1, <1>2 DEF Become
    <2>2. QED
      BY <2>1, SameJobs, StutterMaps DEF Mute
  <1>3. CASE t.jobs = jobs /\ t.made = made /\ t.current = 0
    <2>1. jobs' = jobs /\ made' = made /\ current' = 0
      BY <1>3 DEF Become
    <2>2. QED
      BY <2>1, SameJobs, DeregisterMaps DEF Access!Next
  <1>4. CASE /\ t.made = made + 1 /\ t.current = t.made /\ t.made \in Devices
             /\ Grown(jobs, t.jobs, t.made)
    <2>1. /\ made' = made + 1 /\ current' = made' /\ made' \in Devices
          /\ Grown(jobs, jobs', made')
      BY <1>4 DEF Become
    <2>2. /\ Asked' = Asked \/ Asked' = Asked \cup {Access!Poll(current')}
          /\ UNCHANGED <<OnTheWire, Served>>
      BY <2>1, GrownMaps
    <2>3. QED
      BY <2>1, <2>2, RegisterMaps DEF Access!Next
  <1>5. QED
    BY <1>1, <1>2, <1>3, <1>4 DEF Shifts

LEMMA PluginMaps ==
    ASSUME JobsInv,
           \/ \E loads \in BOOLEAN : Start(loads) \/ DeferredSync(loads)
           \/ \E to \in {"none", "gcode", "other"} : MachineChanges(to)
           \/ Stop
           \/ \E loads \in BOOLEAN : RefreshNow(loads)
           \/ \E address \in Addresses : UpdateConfiguration(address)
    PROVE  Access!Next \/ UNCHANGED Access!accessVars
  <1>1. /\ SessionInv /\ Now \in Session
        /\ Now.jobs = jobs /\ Now.devices = devices
        /\ Now.made = made /\ Now.current = current
    BY NowTyped DEF JobsInv, SessionInv
  <1>2. ASSUME UNCHANGED <<jobs, devices, made, current>>
        PROVE  UNCHANGED Access!accessVars
    BY <1>2, SameJobs, StutterMaps DEF Mute
  <1>3. ASSUME NEW loads \in BOOLEAN, Start(loads) \/ DeferredSync(loads)
        PROVE  Access!Next \/ UNCHANGED Access!accessVars
    <2>1. \/ UNCHANGED <<jobs, devices, made, current>>
          \/ Become(SyncDevices(registrar'))
      BY <1>3 DEF Start, DeferredSync
    <2>2. QED
      BY <1>1, <1>2, <2>1, SyncDevicesShifts, ShiftMaps
  <1>4. ASSUME NEW to \in {"none", "gcode", "other"}, MachineChanges(to)
        PROVE  UNCHANGED Access!accessVars
    BY <1>2, <1>4 DEF MachineChanges
  <1>5. CASE Stop
    <2>1. Become(Now) \/ Become(Remove(Now))
      BY <1>5 DEF Stop
    <2>2. Shifts(Now, Now) /\ Shifts(Now, Remove(Now))
      BY <1>1, RemoveShifts DEF Shifts
    <2>3. QED
      BY <2>1, <2>2, ShiftMaps
  <1>6. ASSUME NEW loads \in BOOLEAN, RefreshNow(loads)
        PROVE  Access!Next \/ UNCHANGED Access!accessVars
    BY <1>1, <1>6, SyncDevicesShifts, ShiftMaps DEF RefreshNow
  <1>7. ASSUME NEW address \in Addresses, UpdateConfiguration(address)
        PROVE  Access!Next \/ UNCHANGED Access!accessVars
    <2> DEFINE paused == current # 0 /\ devices[current].paused
               removed == IF registrar = "none" THEN Now ELSE Remove(Now)
               t == Sync(removed, paused)
    <2>1. Become(t)
      BY <1>7 DEF UpdateConfiguration
    <2>2. paused \in BOOLEAN
      OBVIOUS
    <2>3. /\ removed \in Session
          /\ removed.jobs = jobs /\ removed.made = made
          /\ removed = Now \/ removed.current = 0
      <3>1. OneOpen(Now)
        BY NowTyped DEF JobsInv, SessionInv
      <3>2. QED
        BY <1>1, <3>1, RemoveResettled, RemoveShifts DEF Resettled
    <2> HIDE DEF removed, paused
    <2>4. Shifts(removed, t)
      BY <2>2, <2>3, SyncShifts
    <2> HIDE DEF t
    <2>5. Shifts(Now, t)
      BY <1>1, <2>3, <2>4 DEF Shifts
    <2>6. QED
      BY <2>1, <2>5, ShiftMaps
  <1>8. QED
    BY <1>3, <1>4, <1>5, <1>6, <1>7

\* The dialog may have made the device it pauses or resumes.
LEMMA EnabledMaps ==
    ASSUME JobsInv, NEW enabled \in BOOLEAN, NEW loads \in BOOLEAN,
           SetEnabled(enabled, loads)
    PROVE  Access!Next \/ UNCHANGED Access!accessVars
  <1> DEFINE s == Managed(loads)
             d == s.current
             t == IF enabled THEN Resume(s, d) ELSE Pause(s, d)
  <1>1. /\ SessionInv /\ Now \in Session /\ OneOpen(Now)
        /\ Now.jobs = jobs /\ Now.devices = devices
        /\ Now.made = made /\ Now.current = current
    BY NowTyped DEF JobsInv, SessionInv
  <1>2. \/ Become(s)
        \/ d # 0 /\ Become(t)
    <2>1. IF d = 0 \/ enabled = ~s.devices[d].paused THEN Become(s) ELSE Become(t)
      BY Zenon DEF SetEnabled
    <2> HIDE DEF s, d, t
    <2>2. QED
      BY <2>1, Zenon
  <1>3. Shifts(Now, s) /\ (current # 0 => s = Now)
    BY <1>1, SyncDevicesShifts DEF Managed, Shifts
  <1>4. s \in Session /\ OneOpen(s)
    BY <1>1, ManagedResettled DEF Resettled
  <1> HIDE DEF s
  <1>5. CASE Become(s)
    BY <1>3, <1>5, ShiftMaps
  <1>6. CASE d # 0 /\ Become(t)
    <2>1. d \in Devices
      BY <1>4, <1>6, BoundsAssumption DEF Session, Devices
    <2>2. /\ Handled(s, t) /\ Grown(s.jobs, t.jobs, d)
          /\ t.jobs # s.jobs => ~Manner(t, d) /\ ~s.devices[d].uploading
      <3>1. CASE enabled
        BY <1>4, <2>1, <3>1, ResumeHandled, ResumeGrows
      <3>2. CASE ~enabled
        <4>1. Pause(s, d).jobs = s.jobs
          BY <1>4 DEF Pause, Session
        <4>2. QED
          BY <1>4, <2>1, <3>2, <4>1, PauseHandled DEF Grown
      <3>3. QED
        BY <3>1, <3>2
    <2> HIDE DEF t
    <2>3. /\ jobs' = t.jobs /\ made' = s.made /\ current' = d
          /\ Manner(t, d) = devices'[d].paused
      BY <1>6, <2>2 DEF Become, Handled, Manner
    <2>4. CASE current # 0
      <3>1. /\ d = current /\ s.jobs = jobs /\ s.devices = devices
            /\ made' = made
        BY <1>1, <1>3, <2>3, <2>4
      <3>2. jobs' # jobs => ~Mute' /\ ~devices[current].uploading
        BY <2>2, <2>3, <3>1 DEF Mute
      <3>3. QED
        BY <2>2, <2>3, <2>4, <3>1, <3>2, PollMaps DEF Access!Next
    <2>5. CASE current = 0
      <3>1. /\ s.made = made + 1 /\ d = s.made /\ Grown(jobs, s.jobs, d)
        BY <1>1, <1>3, <1>6, <2>5 DEF Shifts
      <3>2. jobs \in [Slots -> Job] /\ s.jobs \in [Slots -> Job]
        BY <1>1, <1>4 DEF SessionInv, TypeOK, Session
      <3> HIDE DEF d
      <3>3. /\ \/ Seen(s.jobs, Alive) = Seen(jobs, Alive)
               \/ Seen(s.jobs, Alive) = Seen(jobs, Alive) \cup {Access!Poll(d)}
            /\ Seen(s.jobs, {"talking"}) = Seen(jobs, {"talking"})
            /\ Seen(s.jobs, {"returned"}) = Seen(jobs, {"returned"})
        BY <2>1, <3>1, <3>2, GrownSeen
      <3>4. /\ \/ Seen(jobs', Alive) = Seen(s.jobs, Alive)
               \/ Seen(jobs', Alive) = Seen(s.jobs, Alive) \cup {Access!Poll(d)}
            /\ Seen(jobs', {"talking"}) = Seen(s.jobs, {"talking"})
            /\ Seen(jobs', {"returned"}) = Seen(s.jobs, {"returned"})
        BY <2>1, <2>2, <2>3, <3>2, GrownSeen
      <3>5. /\ Asked' = Asked \/ Asked' = Asked \cup {Access!Poll(d)}
            /\ UNCHANGED <<OnTheWire, Served>>
        BY <3>3, <3>4, Appearance, SameWire
      <3>6. made' = made + 1 /\ current' = made' /\ current' = d
        BY <2>3, <3>1
      <3>7. QED
        BY <3>5, <3>6, RegisterMaps DEF Access!Next
    <2>6. QED
      BY <2>4, <2>5
  <1>7. QED
    BY <1>2, <1>5, <1>6

LEMMA AccessInit == Init => Access!Init
  <1> SUFFICES ASSUME Init PROVE Access!Init
    OBVIOUS
  <1>1. /\ \A j \in Slots : jobs[j].state = "none"
        /\ made = 0 /\ current = 0
    BY IdleJob DEF Init, PluginInit, DeviceInit
  <1>2. Talking = {} /\ Outside(Alive) = {} /\ Outside({"returned"}) = {}
    BY <1>1 DEF Talking, Outside, Alive
  <1>3. QED
    BY <1>1, <1>2 DEF Access!Init, Access!NoJob, Alive

LEMMA AccessStep ==
    ASSUME JobsInv, [Next]_vars
    PROVE  Access!Next \/ UNCHANGED Access!accessVars
  <1>1. CASE Workers
    BY <1>1, WorkersMap
  <1>2. CASE User
    BY <1>2, RequestWriteMaps, PluginMaps, EnabledMaps DEF User, Access!Next
  <1>3. CASE Cura
    BY <1>3, PollTimerMaps, PluginMaps DEF Cura, Access!Next
  <1>4. CASE UNCHANGED vars
    BY <1>4, SameJobs, StutterMaps DEF vars, pluginVars, Mute
  <1>5. QED
    BY <1>1, <1>2, <1>3, <1>4 DEF Next

\* docs/exclusive-communication.md: with all its threads, late callbacks and
\* devices that come and go, the session does nothing that exclusive access
\* to the printer does not allow.
THEOREM SessionImplementsAccess == Spec => ImplementsAccess
  <1>1. JobsInv /\ [Next]_vars => [Access!Next]_(Access!accessVars)
    BY AccessStep
  <1>2. QED
    BY AccessInit, <1>1, AlwaysJobs, PTL DEF Spec, ImplementsAccess, Access!Spec
=============================================================================
