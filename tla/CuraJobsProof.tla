--------------------------- MODULE CuraJobsProof ---------------------------
(***************************************************************************)
(* Whatever devices come and go, every device knows its jobs, shows what   *)
(* it does, and is silent once it has said so, for any number of devices,  *)
(* jobs and addresses.                                                     *)
(*                                                                         *)
(* The invariant is about session records, as the handlers are (Tracked):  *)
(* slot by slot, which device a job belongs to and which of its fields     *)
(* names the slot.  What a handler does to one device and one slot leaves  *)
(* the other devices alone (SlotOfAnother), so that for each handler only  *)
(* the device itself is left to be looked at.                              *)
(***************************************************************************)
EXTENDS CuraSessionProof

\* The jobs of device d, by the fields of its record r.
Owned(js, r, d) ==
    \A j \in Slots :
        /\ (js[j].kind = "monitor" /\ js[j].device = d) <=> j = r.monitor
        /\ (js[j].kind = "upload" /\ js[j].device = d) <=> j = r.upload

Shown(r) ==
    /\ r.uploading <=> r.upload # NoJob
    /\ r.writing <=> r.uploading
    /\ r.temp = r.upload
    /\ r.uploading /\ r.open => r.conn = "Busy"
    /\ r.open /\ r.paused /\ ~r.uploading /\ r.monitor = NoJob => r.conn = "Closed"

\* The poll that is waiting is the only one that can still overtake.
Ahead(js, r) ==
    r.uploading =>
        /\ r.overtaken <= 1
        /\ r.monitor # NoJob /\ js[r.monitor].state = "waiting" => r.overtaken = 0

Fits(js, r, d) == Owned(js, r, d) /\ Shown(r) /\ Ahead(js, r)

Tracked(s) ==
    /\ \A d \in Devices : Fits(s.jobs, s.devices[d], d)
    /\ \A d \in Devices : d > s.made => /\ s.devices[d].monitor = NoJob
                                        /\ s.devices[d].upload = NoJob
    /\ \A j \in Slots : j \in s.disk <=> s.jobs[j].kind = "upload"

\* A device that has no job and will not start one before it is resumed.
Silent(r) ==
    /\ r.monitor = NoJob
    /\ r.upload = NoJob
    /\ r.paused \/ ~r.open

\* t comes from s by a step that keeps track, and in which no silent device
\* is disturbed and only open ones get a job.
Follows(s, t) ==
    /\ t \in Session
    /\ Tracked(t)
    /\ s.made <= t.made
    /\ \A d \in Devices :
           d <= s.made /\ Silent(s.devices[d]) => Silent(t.devices[d])
    /\ \A j \in Slots : \/ t.jobs[j] = s.jobs[j]
                        \/ t.jobs[j] = Idle
                        \/ t.devices[t.jobs[j].device].open

\* s with another record of device d, other slots and other files.
Changed(s, d, r, js, files) ==
    [s EXCEPT !.devices = [s.devices EXCEPT ![d] = r],
              !.jobs = js,
              !.disk = files]

LEMMA MadeNumber ==
    ASSUME NEW s \in Session
    PROVE  s.made \in Int
  BY DEF Session

LEMMA FollowsTwice ==
    ASSUME NEW s \in Session, NEW t, NEW u, Follows(s, t), Follows(t, u),
           \/ t.jobs = s.jobs
           \/ \A d \in Devices : t.devices[d].open => u.devices[d].open
    PROVE  Follows(s, u)
  <1>1. \A d \in Devices :
            d <= s.made /\ Silent(s.devices[d]) => Silent(u.devices[d])
    BY DEF Follows, Session, Devices
  <1>2. ASSUME NEW j \in Slots
        PROVE  \/ u.jobs[j] = s.jobs[j]
               \/ u.jobs[j] = Idle
               \/ u.devices[u.jobs[j].device].open
    <2>1. CASE t.jobs = s.jobs
      BY <2>1 DEF Follows
    <2>2. CASE \A d \in Devices : t.devices[d].open => u.devices[d].open
      <3>1. t.jobs[j] # Idle => t.jobs[j].device \in Devices
        BY DEF Follows, Session, Job
      <3>2. QED
        BY <2>2, <3>1 DEF Follows
    <2>3. QED
      BY <2>1, <2>2
  <1>3. s.made <= u.made
    BY DEF Follows, Session
  <1>4. QED
    BY <1>1, <1>2, <1>3 DEF Follows

LEMMA IdleJob == Idle \in Job /\ Idle.kind = "none" /\ Idle.state = "none"
  BY DEF Idle, Job

\* A job is idle or has a kind and a device.
LEMMA JobKinds ==
    ASSUME NEW job \in Job
    PROVE  /\ job.kind \in {"none", "monitor", "upload"}
           /\ job.kind = "none" <=> job = Idle
           /\ job.kind = "none" <=> job.state = "none"
           /\ job # Idle => job.device \in Devices
  BY DEF Idle, Job

\* A slot that is taken, given up or advanced by another device.
LEMMA SlotOfAnother ==
    ASSUME NEW js \in [Slots -> Job], NEW j \in Slots, NEW new \in Job,
           NEW e \in Devices, NEW r \in Device, Fits(js, r, e),
           js[j] = Idle \/ js[j].device # e,
           new = Idle \/ new.device # e
    PROVE  Fits([js EXCEPT ![j] = new], r, e)
  <1> DEFINE ks == [js EXCEPT ![j] = new]
  <1>1. /\ ks[j] = new
        /\ \A k \in Slots \ {j} : ks[k] = js[k]
    OBVIOUS
  <1>2. j # r.monitor /\ j # r.upload
    BY IdleJob DEF Fits, Owned
  <1> HIDE DEF ks
  <1>3. Owned(ks, r, e)
    BY <1>1, <1>2, IdleJob DEF Fits, Owned
  <1>4. Ahead(ks, r)
    <2>1. r.monitor # NoJob => r.monitor \in Slots \ {j}
      BY <1>2 DEF Device
    <2>2. QED
      BY <1>1, <2>1 DEF Fits, Ahead
  <1>5. QED
    BY <1>3, <1>4 DEF Fits, ks

\* A handler replaces the record of one device.
LEMMA DeviceTracked ==
    ASSUME NEW s \in Session, Tracked(s), NEW d \in Devices, d <= s.made,
           NEW r \in Device, Fits(s.jobs, r, d),
           NEW files \in SUBSET (Slots \cup {NoJob}),
           \A k \in Slots : k \in files <=> k \in s.disk,
           NEW t, t = Changed(s, d, r, s.jobs, files)
    PROVE  /\ t \in Session /\ Tracked(t)
           /\ t.jobs = s.jobs /\ t.made = s.made
           /\ t.devices[d] = r
           /\ \A e \in Devices \ {d} : t.devices[e] = s.devices[e]
  <1>1. /\ t \in Session /\ t.jobs = s.jobs /\ t.made = s.made /\ t.disk = files
        /\ t.devices[d] = r
        /\ \A e \in Devices \ {d} : t.devices[e] = s.devices[e]
    BY DEF Session, Changed
  <1>2. \A e \in Devices : Fits(t.jobs, t.devices[e], e)
    BY <1>1 DEF Tracked
  <1>3. \A e \in Devices : e > t.made => e # d
    BY <1>1 DEF Session, Devices
  <1>4. QED
    BY <1>1, <1>2, <1>3 DEF Tracked

\* A handler replaces the record of one device and one of its slots.
LEMMA SlotTracked ==
    ASSUME NEW s \in Session, Tracked(s), NEW d \in Devices, d <= s.made,
           NEW r \in Device, NEW j \in Slots, NEW new \in Job,
           s.jobs[j] = Idle \/ s.jobs[j].device = d,
           new = Idle \/ new.device = d,
           NEW js, js = [s.jobs EXCEPT ![j] = new], Fits(js, r, d),
           NEW files \in SUBSET (Slots \cup {NoJob}),
           \A k \in Slots \ {j} : k \in files <=> k \in s.disk,
           j \in files <=> new.kind = "upload",
           NEW t, t = Changed(s, d, r, js, files)
    PROVE  /\ t \in Session /\ Tracked(t)
           /\ t.made = s.made
           /\ t.jobs[j] = new
           /\ \A k \in Slots \ {j} : t.jobs[k] = s.jobs[k]
           /\ t.devices[d] = r
           /\ \A e \in Devices \ {d} : t.devices[e] = s.devices[e]
  <1>1. /\ t \in Session /\ t.made = s.made /\ t.disk = files
        /\ t.jobs = [s.jobs EXCEPT ![j] = new]
        /\ t.jobs[j] = new
        /\ \A k \in Slots \ {j} : t.jobs[k] = s.jobs[k]
        /\ t.devices[d] = r
        /\ \A e \in Devices \ {d} : t.devices[e] = s.devices[e]
    BY DEF Session, Changed
  <1>2. ASSUME NEW e \in Devices \ {d}
        PROVE  Fits(t.jobs, s.devices[e], e)
    <2>1. s.devices[e] \in Device /\ s.jobs \in [Slots -> Job]
      BY DEF Session
    <2>2. Fits(s.jobs, s.devices[e], e)
      BY DEF Tracked
    <2>3. s.jobs[j] = Idle \/ s.jobs[j].device # e
      OBVIOUS
    <2>4. QED
      BY <1>1, <2>1, <2>2, <2>3, SlotOfAnother
  <1>3. \A e \in Devices : Fits(t.jobs, t.devices[e], e)
    BY <1>1, <1>2
  <1>4. \A e \in Devices : e > t.made => e # d
    BY <1>1 DEF Session, Devices
  <1>5. \A k \in Slots : k \in t.disk <=> t.jobs[k].kind = "upload"
    BY <1>1 DEF Tracked
  <1>6. QED
    BY <1>1, <1>3, <1>4, <1>5 DEF Tracked

LEMMA FollowsItself ==
    ASSUME NEW s \in Session, Tracked(s)
    PROVE  Follows(s, s)
  BY DEF Follows, Session

\* A handler of device d that leaves the slots alone.
LEMMA DeviceFollows ==
    ASSUME NEW s \in Session, Tracked(s), NEW d \in Devices, d <= s.made,
           NEW r \in Device, Shown(r), Ahead(s.jobs, r),
           r.monitor = s.devices[d].monitor, r.upload = s.devices[d].upload,
           Silent(s.devices[d]) => r.paused \/ ~r.open,
           NEW files \in SUBSET (Slots \cup {NoJob}),
           \A k \in Slots : k \in files <=> k \in s.disk,
           NEW t, t = Changed(s, d, r, s.jobs, files)
    PROVE  Follows(s, t)
  <1>1. Fits(s.jobs, r, d)
    BY DEF Tracked, Fits, Owned
  <1>2. /\ t \in Session /\ Tracked(t)
        /\ t.jobs = s.jobs /\ t.made = s.made
        /\ t.devices[d] = r
        /\ \A e \in Devices \ {d} : t.devices[e] = s.devices[e]
    <2>1. t \in Session /\ Tracked(t)
      BY <1>1, DeviceTracked
    <2>2. t.jobs = s.jobs /\ t.made = s.made /\ t.devices[d] = r
      BY <1>1, DeviceTracked
    <2>3. \A e \in Devices \ {d} : t.devices[e] = s.devices[e]
      BY DEF Changed, Session
    <2>4. QED
      BY <2>1, <2>2, <2>3
  <1>3. Silent(s.devices[d]) => Silent(r)
    BY DEF Silent
  <1>4. QED
    BY <1>2, <1>3 DEF Follows, Session

LEMMA UpdateFollows ==
    ASSUME NEW s \in Session, Tracked(s), NEW d \in Devices, d <= s.made
    PROVE  /\ Follows(s, Update(s, d))
           /\ \A e \in Devices : Update(s, d).devices[e].open = s.devices[e].open
  <1>1. CASE PollStarts(s.devices[d]) /\ FreeSlots(s.jobs) # {}
    <2> DEFINE j == NextSlot(s.jobs)
               old == s.devices[d]
               r == [old EXCEPT !.monitor = j]
               new == Waiting("monitor", d)
               js == [s.jobs EXCEPT ![j] = new]
               t == Update(s, d)
    <2>1. j \in Slots /\ s.jobs[j] = Idle /\ old \in Device /\ new \in Job
      BY <1>1, NextSlotFree, WaitingJob DEF Session
    <2>2. ~old.paused /\ ~old.uploading /\ old.open /\ old.monitor = NoJob
      BY <1>1 DEF PollStarts, PollingAllowed
    <2>3. t = Changed(s, d, r, js, s.disk)
      BY <1>1, <2>1 DEF Update, Session, Changed
    <2>4. new.kind = "monitor" /\ new.device = d /\ new.state = "waiting"
      BY DEF Waiting
    <2> HIDE DEF j, new, t
    <2>5. /\ js[j] = new
          /\ \A k \in Slots \ {j} : js[k] = s.jobs[k]
      BY <2>1 DEF Session
    <2>6. /\ r \in Device /\ r.monitor = j /\ r.upload = old.upload
          /\ r.paused = old.paused /\ r.uploading = old.uploading
          /\ r.writing = old.writing /\ r.temp = old.temp /\ r.open = old.open
      BY <2>1 DEF Device
    <2> HIDE DEF r, js, old
    <2>7. Fits(s.jobs, old, d)
      BY DEF Tracked, old
    <2>8. Owned(js, r, d)
      BY <2>1, <2>2, <2>4, <2>5, <2>6, <2>7, IdleJob DEF Fits, Owned, NoJob, Slots
    <2>9. Shown(r) /\ Ahead(js, r)
      BY <2>2, <2>6, <2>7 DEF Fits, Shown, Ahead
    <2>10. j \notin s.disk
      BY <2>1, IdleJob DEF Tracked
    <2>11. s.disk \in SUBSET (Slots \cup {NoJob})
      BY DEF Session
    <2>12. Fits(js, r, d)
      BY <2>8, <2>9 DEF Fits
    <2>13. /\ t \in Session /\ Tracked(t) /\ t.made = s.made
           /\ t.jobs[j] = new
           /\ \A k \in Slots \ {j} : t.jobs[k] = s.jobs[k]
           /\ t.devices[d] = r
           /\ \A e \in Devices \ {d} : t.devices[e] = s.devices[e]
      BY <2>1, <2>3, <2>4, <2>6, <2>10, <2>11, <2>12, SlotTracked DEF js
    <2>14. ~Silent(s.devices[d])
      BY <2>2 DEF Silent, old
    <2>15. r.open
      BY <2>2, <2>6
    <2>16. Follows(s, t)
      BY <2>4, <2>13, <2>14, <2>15 DEF Follows, Session
    <2>17. \A e \in Devices : t.devices[e].open = s.devices[e].open
      BY <2>6, <2>13 DEF old
    <2>18. QED
      BY <2>16, <2>17 DEF t
  <1>2. CASE ~(PollStarts(s.devices[d]) /\ FreeSlots(s.jobs) # {})
    BY <1>2, FollowsItself DEF Update
  <1>3. QED
    BY <1>1, <1>2

\* A slot is given up, and with it the device's reference to it.
LEMMA GivenUpFollows ==
    ASSUME NEW s \in Session, Tracked(s), NEW j \in Slots, s.jobs[j] # Idle,
           NEW d \in Devices, d = s.jobs[j].device, NEW r \in Device,
           Shown(r), r.uploading => r.overtaken <= 1 /\ r.monitor = NoJob,
           r.open = s.devices[d].open,
           \/ /\ s.jobs[j].kind = "monitor"
              /\ r.monitor = NoJob
              /\ r.upload = s.devices[d].upload
           \/ /\ s.jobs[j].kind = "upload"
              /\ r.upload = NoJob
              /\ r.monitor = s.devices[d].monitor,
           NEW t, t = Changed(s, d, r, [s.jobs EXCEPT ![j] = Idle], s.disk \ {j})
    PROVE  /\ Follows(s, t) /\ d <= t.made
           /\ \A e \in Devices : t.devices[e].open = s.devices[e].open
  <1> DEFINE js == [s.jobs EXCEPT ![j] = Idle]
  <1>1. /\ js[j] = Idle
        /\ \A k \in Slots \ {j} : js[k] = s.jobs[k]
    BY DEF Session
  <1>2. Fits(s.jobs, s.devices[d], d)
    BY DEF Tracked
  <1>3. j = s.devices[d].monitor \/ j = s.devices[d].upload
    BY <1>2 DEF Fits, Owned
  <1>4. d <= s.made /\ ~Silent(s.devices[d])
    BY <1>3 DEF Tracked, Silent, Session, Devices, Slots, NoJob
  <1> HIDE DEF js
  <1>5. Owned(js, r, d)
    BY <1>1, <1>2, IdleJob DEF Fits, Owned, Slots, NoJob
  <1>6. Fits(js, r, d)
    BY <1>5 DEF Fits, Ahead
  <1>7. /\ s.disk \ {j} \in SUBSET (Slots \cup {NoJob})
        /\ \A k \in Slots \ {j} : k \in s.disk \ {j} <=> k \in s.disk
        /\ j \notin s.disk \ {j}
    BY DEF Session
  <1>8. /\ t \in Session /\ Tracked(t) /\ t.made = s.made
        /\ t.jobs[j] = Idle
        /\ \A k \in Slots \ {j} : t.jobs[k] = s.jobs[k]
        /\ t.devices[d] = r
        /\ \A e \in Devices \ {d} : t.devices[e] = s.devices[e]
    BY <1>4, <1>6, <1>7, IdleJob, SlotTracked DEF js
  <1>9. \A e \in Devices :
            e <= s.made /\ Silent(s.devices[e]) => Silent(t.devices[e])
    BY <1>4, <1>8
  <1>10. s.made <= t.made
    BY <1>8, MadeNumber
  <1>11. QED
    BY <1>4, <1>8, <1>9, <1>10 DEF Follows
-----------------------------------------------------------------------------
(***************************************************************************)
(* The handlers.                                                           *)
(***************************************************************************)

LEMMA MonitorFollows ==
    ASSUME NEW s \in Session, Tracked(s), NEW j \in Slots,
           s.jobs[j].kind = "monitor", NEW outcome \in {"Connected", "Error"},
           NEW d, d = s.jobs[j].device
    PROVE  Follows(s, MonitorFinished([s EXCEPT !.jobs[j] = Idle], d, j, outcome))
  <1> DEFINE s0 == [s EXCEPT !.jobs[j] = Idle]
             old == s.devices[d]
             silenced == [old EXCEPT
                 !.monitor = NoJob,
                 !.conn = IF old.paused /\ ~old.uploading THEN "Closed" ELSE @]
             answered == [old EXCEPT
                 !.monitor = NoJob,
                 !.conn = IF old.open THEN outcome ELSE @]
             js == [s.jobs EXCEPT ![j] = Idle]
             files == s.disk \ {j}
  <1>1. s.jobs[j] \in Job /\ s.jobs[j] # Idle
    BY IdleJob DEF Session
  <1>2. d \in Devices /\ old \in Device
    BY <1>1, JobKinds DEF Session
  <1>3. Fits(s.jobs, old, d)
    BY <1>2 DEF Tracked
  <1>4. old.monitor = j /\ files = s.disk
    BY <1>3 DEF Fits, Owned, Tracked
  <1>5. MonitorFinished(s0, d, j, outcome) =
            Changed(s, d, IF PollingAllowed(old) THEN answered ELSE silenced, js, files)
    BY <1>2, <1>4 DEF MonitorFinished, Discard, Session, Changed
  <1>6. ASSUME ~PollingAllowed(old)
        PROVE  Follows(s, Changed(s, d, silenced, js, files))
    <2>1. /\ silenced \in Device /\ silenced.monitor = NoJob
          /\ silenced.upload = old.upload /\ silenced.open = old.open
          /\ silenced.paused = old.paused /\ silenced.uploading = old.uploading
          /\ silenced.writing = old.writing /\ silenced.temp = old.temp
          /\ silenced.overtaken = old.overtaken
          /\ silenced.conn = IF old.paused /\ ~old.uploading THEN "Closed" ELSE old.conn
      BY <1>2 DEF Device, Connections, NoJob
    <2> HIDE DEF silenced, files, js, old
    <2>2. Shown(silenced) /\ (silenced.uploading => silenced.overtaken <= 1)
      BY <1>3, <2>1 DEF Fits, Shown, Ahead
    <2>3. QED
      BY <1>1, <1>2, <2>1, <2>2, GivenUpFollows DEF js, files, old
  <1>7. ASSUME PollingAllowed(old)
        PROVE  Follows(s, Changed(s, d, answered, js, files))
    <2>1. /\ answered \in Device /\ answered.monitor = NoJob
          /\ answered.upload = old.upload /\ answered.open = old.open
          /\ answered.paused = old.paused /\ answered.uploading = old.uploading
          /\ answered.writing = old.writing /\ answered.temp = old.temp
          /\ answered.overtaken = old.overtaken
      BY <1>2 DEF Device, Connections, NoJob
    <2>2. ~old.paused /\ ~old.uploading
      BY <1>7 DEF PollingAllowed
    <2> HIDE DEF answered, files, js, old
    <2>3. Shown(answered) /\ ~answered.uploading
      BY <1>3, <2>1, <2>2 DEF Fits, Shown
    <2>4. QED
      BY <1>1, <1>2, <2>1, <2>3, GivenUpFollows DEF js, files, old
  <1>8. QED
    BY <1>5, <1>6, <1>7

LEMMA FieldsAtOnce ==
    ASSUME NEW c \in Session, NEW d \in Devices, NEW conn
    PROVE  [c EXCEPT !.devices[d].writing = FALSE,
                     !.devices[d].upload = NoJob,
                     !.devices[d].uploading = FALSE,
                     !.devices[d].conn = conn]
           = [c EXCEPT !.devices[d] = [c.devices[d] EXCEPT
                                           !.writing = FALSE, !.upload = NoJob,
                                           !.uploading = FALSE, !.conn = conn]]
  BY DEF Session

LEMMA FinishedChanges ==
    ASSUME NEW s \in Session, NEW d \in Devices, NEW j \in Slots,
           s.devices[d].temp = j
    PROVE  UploadFinished([s EXCEPT !.jobs[j] = Idle], d) =
               Update(Changed(s, d,
                              [s.devices[d] EXCEPT
                                  !.temp = NoJob, !.writing = FALSE,
                                  !.upload = NoJob, !.uploading = FALSE,
                                  !.conn = IF s.devices[d].paused THEN "Closed"
                                           ELSE "Connecting"],
                              [s.jobs EXCEPT ![j] = Idle], s.disk \ {j}), d)
  <1> DEFINE s0 == [s EXCEPT !.jobs[j] = Idle]
             old == s.devices[d]
             conn == IF old.paused THEN "Closed" ELSE "Connecting"
             cleaned == [old EXCEPT !.temp = NoJob]
             c == Changed(s, d, cleaned, [s.jobs EXCEPT ![j] = Idle], s.disk \ {j})
             q == [cleaned EXCEPT !.writing = FALSE, !.upload = NoJob,
                                  !.uploading = FALSE, !.conn = conn]
             u == [c EXCEPT !.devices[d].writing = FALSE,
                            !.devices[d].upload = NoJob,
                            !.devices[d].uploading = FALSE,
                            !.devices[d].conn = conn]
  <1>1. CleanupTempFile(s0, d) = c
    BY DEF CleanupTempFile, Session, Changed
  <1>2. cleaned \in Device /\ cleaned.paused = old.paused
    BY DEF Session, Device, NoJob
  <1>3. q = [old EXCEPT !.temp = NoJob, !.writing = FALSE, !.upload = NoJob,
                        !.uploading = FALSE, !.conn = conn]
    BY DEF Session, Device
  <1> HIDE DEF cleaned
  <1>4. c \in Session /\ c.devices[d] = cleaned
    BY <1>2, IdleJob DEF Session, Changed
  <1>5. UploadFinished(s0, d) = Update(u, d)
    BY <1>1, <1>2, <1>4 DEF UploadFinished
  <1> HIDE DEF conn
  <1>6. Changed(s, d, q, [s.jobs EXCEPT ![j] = Idle], s.disk \ {j}) =
            [c EXCEPT !.devices[d] = q]
    <2> HIDE DEF q
    <2>1. QED
      BY DEF Session, Changed
  <1> HIDE DEF c
  <1>7. u = [c EXCEPT !.devices[d] = q]
    <2> DEFINE p == [c.devices[d] EXCEPT !.writing = FALSE, !.upload = NoJob,
                                         !.uploading = FALSE, !.conn = conn]
    <2>1. u = [c EXCEPT !.devices[d] = p]
      <3>1. c \in Session
        BY <1>4
      <3>2. QED
        BY <3>1 DEF Session
    <2>2. p = q
      BY <1>4
    <2> HIDE DEF p, q
    <2>3. QED
      BY <2>1, <2>2
  <1> HIDE DEF u, q, s0
  <1>8. QED
    BY <1>3, <1>5, <1>6, <1>7 DEF conn, s0

LEMMA UploadFollows ==
    ASSUME NEW s \in Session, Tracked(s), NEW j \in Slots,
           s.jobs[j].kind = "upload", NEW d, d = s.jobs[j].device
    PROVE  Follows(s, UploadFinished([s EXCEPT !.jobs[j] = Idle], d))
  <1> DEFINE s0 == [s EXCEPT !.jobs[j] = Idle]
             old == s.devices[d]
             r == [old EXCEPT !.temp = NoJob, !.writing = FALSE,
                              !.upload = NoJob, !.uploading = FALSE,
                              !.conn = IF old.paused THEN "Closed"
                                       ELSE "Connecting"]
             t == Changed(s, d, r, [s.jobs EXCEPT ![j] = Idle], s.disk \ {j})
  <1>1. s.jobs[j] \in Job /\ s.jobs[j] # Idle
    BY IdleJob DEF Session
  <1>2. d \in Devices /\ old \in Device
    BY <1>1, JobKinds DEF Session
  <1>3. Fits(s.jobs, old, d)
    BY <1>2 DEF Tracked
  <1>4. old.temp = j
    BY <1>3 DEF Fits, Owned, Shown
  <1>5. UploadFinished(s0, d) = Update(t, d)
    BY <1>2, <1>4, FinishedChanges
  <1>6. /\ r \in Device /\ r.monitor = old.monitor /\ r.upload = NoJob
        /\ r.open = old.open /\ r.paused = old.paused /\ ~r.uploading
        /\ ~r.writing /\ r.temp = NoJob
        /\ r.conn = IF r.paused THEN "Closed" ELSE "Connecting"
    BY <1>2 DEF Device, Connections, NoJob
  <1>7. Shown(r)
    BY <1>6 DEF Shown
  <1> HIDE DEF r, old
  <1>8. /\ Follows(s, t) /\ d <= t.made
        /\ \A e \in Devices : t.devices[e].open = s.devices[e].open
    BY <1>1, <1>2, <1>6, <1>7, GivenUpFollows DEF old
  <1> HIDE DEF t, s0
  <1>9. Follows(t, Update(t, d))
        /\ \A e \in Devices : Update(t, d).devices[e].open = t.devices[e].open
    BY <1>2, <1>8, UpdateFollows DEF Follows
  <1>10. Follows(s, Update(t, d))
    BY <1>8, <1>9, FollowsTwice
  <1>11. QED
    BY <1>5, <1>10 DEF s0

\* An upload that cannot be prepared.
LEMMA PreparationFollows ==
    ASSUME NEW s \in Session, Tracked(s), NEW d \in Devices, d <= s.made,
           s.devices[d].open, AcceptsUpload(s.devices[d]), NEW leaves \in BOOLEAN
    PROVE  Follows(s, PreparationFails(BeginUpload(s, d), d, leaves))
  <1> DEFINE old == s.devices[d]
             r == [old EXCEPT !.uploading = FALSE, !.conn = "Connecting",
                              !.overtaken = 0]
             files == IF leaves THEN s.disk \cup {NoJob} ELSE s.disk
             t == Changed(s, d, r, s.jobs, files)
  <1>1. old \in Device /\ ~old.paused /\ ~old.uploading
    BY DEF Session, AcceptsUpload
  <1>2. PreparationFails(BeginUpload(s, d), d, leaves) = Update(t, d)
    <2> DEFINE busy == [old EXCEPT !.uploading = TRUE, !.conn = "Busy",
                                   !.overtaken = 0]
               b == [s EXCEPT !.devices[d] = busy]
    <2>1. BeginUpload(s, d) = b
      BY DEF BeginUpload, Session
    <2>2. r = [busy EXCEPT !.uploading = FALSE, !.conn = "Connecting"]
      BY <1>1 DEF Device
    <2>3. busy \in Device
      BY <1>1 DEF Device, Connections
    <2> HIDE DEF busy, r
    <2>4. b \in Session /\ b.devices[d] = busy /\ b.disk = s.disk
      BY <2>3 DEF Session
    <2>5. [[b EXCEPT !.devices[d] = r] EXCEPT !.disk = files] = t
      BY DEF Session, Changed
    <2> HIDE DEF b, t
    <2>6. PreparationFails(b, d, leaves) =
              Update([b EXCEPT !.devices[d].uploading = FALSE,
                               !.devices[d].conn = "Connecting",
                               !.disk = files], d)
      BY <2>4 DEF PreparationFails
    <2> HIDE DEF files
    <2>7. [b EXCEPT !.devices[d].uploading = FALSE,
                    !.devices[d].conn = "Connecting",
                    !.disk = files] = t
      <3> DEFINE p == [b.devices[d] EXCEPT !.uploading = FALSE, !.conn = "Connecting"]
      <3>1. [b EXCEPT !.devices[d].uploading = FALSE,
                      !.devices[d].conn = "Connecting",
                      !.disk = files]
            = [[b EXCEPT !.devices[d] = p] EXCEPT !.disk = files]
        <4>1. b \in Session
          BY <2>4
        <4>2. QED
          BY <4>1 DEF Session
      <3>2. p = r
        BY <2>2, <2>4
      <3> HIDE DEF p
      <3>3. QED
        BY <2>5, <3>1, <3>2
    <2>8. QED
      BY <2>1, <2>6, <2>7
  <1>3. /\ r \in Device /\ r.monitor = old.monitor /\ r.upload = old.upload
        /\ r.open = old.open /\ r.paused = old.paused /\ ~r.uploading
        /\ r.writing = old.writing /\ r.temp = old.temp
    BY <1>1 DEF Device, Connections
  <1>4. /\ files \in SUBSET (Slots \cup {NoJob})
        /\ \A k \in Slots : k \in files <=> k \in s.disk
    BY DEF Session, Slots, NoJob
  <1>5. Shown(old)
    BY DEF Tracked, Fits
  <1> HIDE DEF r, files, old
  <1>6. Shown(r) /\ Ahead(s.jobs, r)
    BY <1>1, <1>3, <1>5 DEF Shown, Ahead
  <1>7. Follows(s, t)
    BY <1>3, <1>4, <1>6, DeviceFollows DEF old, Silent
  <1>8. t.made = s.made
    BY DEF Changed, Session
  <1> HIDE DEF t
  <1>9. Follows(t, Update(t, d))
        /\ \A e \in Devices : Update(t, d).devices[e].open = t.devices[e].open
    BY <1>7, <1>8, UpdateFollows DEF Follows
  <1>10. QED
    BY <1>2, <1>7, <1>9, FollowsTwice

LEMMA StartAtOnce ==
    ASSUME NEW s \in Session, NEW d \in Devices, NEW j \in Slots,
           NextSlot(s.jobs) = j
    PROVE  StartUpload(s, d) =
               Changed(s, d,
                       [s.devices[d] EXCEPT !.temp = j, !.upload = j,
                                            !.writing = TRUE],
                       [s.jobs EXCEPT ![j] = Waiting("upload", d)],
                       s.disk \cup {j})
  BY DEF StartUpload, Changed, Session

LEMMA StartFollows ==
    ASSUME NEW s \in Session, Tracked(s), NEW d \in Devices, d <= s.made,
           s.devices[d].open, AcceptsUpload(s.devices[d]), FreeSlots(s.jobs) # {}
    PROVE  Follows(s, StartUpload(BeginUpload(s, d), d))
  <1> DEFINE old == s.devices[d]
             j == NextSlot(s.jobs)
             new == Waiting("upload", d)
             r == [old EXCEPT !.uploading = TRUE, !.conn = "Busy",
                              !.overtaken = 0, !.temp = j, !.upload = j,
                              !.writing = TRUE]
             js == [s.jobs EXCEPT ![j] = new]
             t == Changed(s, d, r, js, s.disk \cup {j})
  <1>1. old \in Device /\ ~old.paused /\ ~old.uploading
    BY DEF Session, AcceptsUpload
  <1>2. j \in Slots /\ s.jobs[j] = Idle /\ new \in Job
    BY NextSlotFree, WaitingJob
  <1>3. new.kind = "upload" /\ new.device = d
    BY DEF Waiting
  <1>4. StartUpload(BeginUpload(s, d), d) = t
    <2> DEFINE busy == [old EXCEPT !.uploading = TRUE, !.conn = "Busy",
                                   !.overtaken = 0]
               b == [s EXCEPT !.devices[d] = busy]
    <2>1. BeginUpload(s, d) = b
      BY DEF BeginUpload, Session
    <2>2. r = [busy EXCEPT !.temp = j, !.upload = j, !.writing = TRUE]
      BY <1>1 DEF Device
    <2>3. busy \in Device
      BY <1>1 DEF Device, Connections
    <2> HIDE DEF busy, r, new
    <2>4. b \in Session /\ b.devices[d] = busy /\ b.jobs = s.jobs
      BY <2>3 DEF Session
    <2>5. NextSlot(b.jobs) = j
      BY <2>4
    <2> HIDE DEF j
    <2>6. Changed(b, d, r, js, s.disk \cup {j}) = t
      BY DEF Session, Changed
    <2>7. b.jobs = s.jobs /\ b.disk = s.disk
      BY DEF Session
    <2> HIDE DEF b, t
    <2> DEFINE p == [b.devices[d] EXCEPT !.temp = j, !.upload = j, !.writing = TRUE]
               ks == [b.jobs EXCEPT ![j] = Waiting("upload", d)]
    <2>8. StartUpload(b, d) = Changed(b, d, p, ks, b.disk \cup {j})
      <3>1. b \in Session
        BY <2>4
      <3>2. QED
        BY <1>2, <2>5, <3>1, StartAtOnce
    <2>9. p = r /\ ks = js
      BY <2>2, <2>4 DEF new
    <2> HIDE DEF p, ks
    <2>10. QED
      BY <2>1, <2>6, <2>7, <2>8, <2>9
  <1>5. /\ r \in Device /\ r.monitor = old.monitor /\ r.upload = j
        /\ r.open /\ r.paused = old.paused /\ r.uploading
        /\ r.writing /\ r.temp = j /\ r.conn = "Busy" /\ r.overtaken = 0
    BY <1>1, <1>2 DEF Device, Connections
  <1>6. Fits(s.jobs, old, d)
    BY DEF Tracked
  <1> HIDE DEF r, old, new, js, j
  <1>7. js[j] = new /\ \A k \in Slots \ {j} : js[k] = s.jobs[k]
    BY <1>2 DEF js, Session
  <1>8. Owned(js, r, d)
    BY <1>1, <1>2, <1>3, <1>5, <1>6, <1>7, IdleJob DEF Fits, Owned, Shown, NoJob, Slots
  <1>9. Shown(r) /\ Ahead(js, r)
    BY <1>2, <1>5 DEF Shown, Ahead, Slots, NoJob
  <1>10. Fits(js, r, d)
    BY <1>8, <1>9 DEF Fits
  <1>11. /\ s.disk \cup {j} \in SUBSET (Slots \cup {NoJob})
         /\ \A k \in Slots \ {j} : k \in s.disk \cup {j} <=> k \in s.disk
         /\ j \in s.disk \cup {j}
    BY <1>2 DEF Session
  <1> HIDE DEF t
  <1>12. /\ t \in Session /\ Tracked(t) /\ t.made = s.made
         /\ t.jobs[j] = new
         /\ \A k \in Slots \ {j} : t.jobs[k] = s.jobs[k]
         /\ t.devices[d] = r
         /\ \A e \in Devices \ {d} : t.devices[e] = s.devices[e]
    BY <1>2, <1>3, <1>5, <1>10, <1>11, SlotTracked DEF js, t
  <1>13. ~Silent(s.devices[d])
    BY <1>1 DEF Silent, old
  <1>14. Follows(s, t)
    <2>1. s.made <= t.made
      BY <1>12, MadeNumber
    <2>2. QED
      BY <1>3, <1>5, <1>12, <1>13, <2>1 DEF Follows
  <1>15. QED
    BY <1>4, <1>14

LEMMA PauseFollows ==
    ASSUME NEW s \in Session, Tracked(s), NEW d \in Devices, d <= s.made
    PROVE  Follows(s, Pause(s, d))
  <1> DEFINE old == s.devices[d]
             r == [old EXCEPT !.paused = TRUE,
                              !.conn = IF GrantsAccess(old) THEN "Closed" ELSE @]
  <1>1. old \in Device
    BY DEF Session
  <1>2. Pause(s, d) = Changed(s, d, r, s.jobs, s.disk)
    BY DEF Pause, Changed, Session
  <1>3. /\ r \in Device /\ r.monitor = old.monitor /\ r.upload = old.upload
        /\ r.open = old.open /\ r.paused /\ r.uploading = old.uploading
        /\ r.writing = old.writing /\ r.temp = old.temp
        /\ r.overtaken = old.overtaken
        /\ r.conn = IF GrantsAccess(old) THEN "Closed" ELSE old.conn
    BY <1>1 DEF Device, Connections
  <1>4. Fits(s.jobs, old, d) /\ s.disk \in SUBSET (Slots \cup {NoJob})
    BY DEF Tracked, Session
  <1> HIDE DEF r, old
  <1>5. Shown(r) /\ Ahead(s.jobs, r)
    BY <1>3, <1>4 DEF Fits, Shown, Ahead, GrantsAccess
  <1>6. QED
    BY <1>2, <1>3, <1>4, <1>5, DeviceFollows DEF old

\* What a step does that may disturb a silent device: it is resumed.
Continues(s, t) ==
    /\ t \in Session
    /\ Tracked(t)
    /\ s.made <= t.made
    /\ \A j \in Slots : \/ t.jobs[j] = s.jobs[j]
                        \/ t.jobs[j] = Idle
                        \/ t.devices[t.jobs[j].device].open

LEMMA ResumeContinues ==
    ASSUME NEW s \in Session, Tracked(s), NEW d \in Devices, d <= s.made
    PROVE  Continues(s, Resume(s, d))
  <1> DEFINE old == s.devices[d]
             quiet == [old EXCEPT !.paused = FALSE]
             live == [old EXCEPT !.paused = FALSE, !.conn = "Connecting"]
             t(r) == Changed(s, d, r, s.jobs, s.disk)
  <1>1. old \in Device /\ Fits(s.jobs, old, d)
    BY DEF Session, Tracked
  <1>2. Resume(s, d) = IF old.uploading THEN t(quiet) ELSE Update(t(live), d)
    BY DEF Resume, Changed, Session
  <1>3. ASSUME NEW r \in Device, Fits(s.jobs, r, d), r.open = old.open
        PROVE  /\ Continues(s, t(r)) /\ t(r).made = s.made
               /\ t(r).jobs = s.jobs
    <2>1. s.disk \in SUBSET (Slots \cup {NoJob})
      BY DEF Session
    <2>2. /\ t(r) \in Session /\ Tracked(t(r))
          /\ t(r).jobs = s.jobs /\ t(r).made = s.made
      BY <1>3, <2>1, DeviceTracked
    <2>3. QED
      BY <2>2, MadeNumber DEF Continues
  <1>4. CASE old.uploading
    <2>1. /\ quiet \in Device /\ quiet.monitor = old.monitor
          /\ quiet.upload = old.upload /\ quiet.open = old.open
          /\ ~quiet.paused /\ quiet.uploading = old.uploading
          /\ quiet.writing = old.writing /\ quiet.temp = old.temp
          /\ quiet.overtaken = old.overtaken /\ quiet.conn = old.conn
      BY <1>1 DEF Device
    <2> HIDE DEF quiet, old
    <2>2. Fits(s.jobs, quiet, d)
      BY <1>1, <2>1 DEF Fits, Owned, Shown, Ahead
    <2>3. QED
      BY <1>2, <1>3, <1>4, <2>1, <2>2
  <1>5. CASE ~old.uploading
    <2>1. /\ live \in Device /\ live.monitor = old.monitor
          /\ live.upload = old.upload /\ live.open = old.open
          /\ ~live.paused /\ live.uploading = old.uploading
          /\ live.writing = old.writing /\ live.temp = old.temp
      BY <1>1 DEF Device, Connections
    <2> HIDE DEF live, old
    <2>2. Fits(s.jobs, live, d)
      BY <1>1, <1>5, <2>1 DEF Fits, Owned, Shown, Ahead
    <2>3. /\ Continues(s, t(live)) /\ t(live).made = s.made
          /\ t(live).jobs = s.jobs
      BY <1>3, <2>1, <2>2
    <2> HIDE DEF t
    <2>4. Follows(t(live), Update(t(live), d))
      BY <2>3, UpdateFollows DEF Continues
    <2>5. Continues(s, Update(t(live), d))
      BY <2>3, <2>4 DEF Continues, Follows
    <2>6. QED
      BY <1>2, <1>5, <2>5
  <1>6. QED
    BY <1>1, <1>4, <1>5 DEF Device
-----------------------------------------------------------------------------
(***************************************************************************)
(* The registrar.                                                          *)
(***************************************************************************)

LEMMA RemoveFollows ==
    ASSUME NEW s \in Session, Tracked(s), OneOpen(s)
    PROVE  Follows(s, Remove(s)) /\ Remove(s).jobs = s.jobs
  <1>1. CASE s.current = 0
    BY <1>1, FollowsItself DEF Remove
  <1>2. CASE s.current # 0
    <2> DEFINE d == s.current
               old == s.devices[d]
               r == [old EXCEPT !.open = FALSE, !.conn = "Closed"]
               t == Changed(s, d, r, s.jobs, s.disk)
    <2>1. d \in Devices /\ old \in Device /\ d <= s.made
      BY <1>2, BoundsAssumption DEF Session, Devices, OneOpen
    <2>2. Remove(s) = [t EXCEPT !.current = 0]
      BY <1>2, <2>1 DEF Remove, Close, Changed, Session
    <2>3. /\ r \in Device /\ r.monitor = old.monitor /\ r.upload = old.upload
          /\ ~r.open /\ r.paused = old.paused /\ r.uploading = old.uploading
          /\ r.writing = old.writing /\ r.temp = old.temp
          /\ r.overtaken = old.overtaken
      BY <2>1 DEF Device, Connections
    <2>4. Fits(s.jobs, old, d) /\ s.disk \in SUBSET (Slots \cup {NoJob})
      BY <2>1 DEF Tracked, Session
    <2> HIDE DEF r, old
    <2>5. Shown(r) /\ Ahead(s.jobs, r)
      BY <2>3, <2>4 DEF Fits, Shown, Ahead
    <2>6. Follows(s, t)
      BY <2>1, <2>3, <2>4, <2>5, DeviceFollows DEF old
    <2>7. t.jobs = s.jobs
      BY DEF Changed, Session
    <2> HIDE DEF t
    <2>8. /\ [t EXCEPT !.current = 0] \in Session
          /\ [t EXCEPT !.current = 0].jobs = t.jobs
          /\ [t EXCEPT !.current = 0].devices = t.devices
          /\ [t EXCEPT !.current = 0].made = t.made
          /\ [t EXCEPT !.current = 0].disk = t.disk
      BY <2>6, BoundsAssumption DEF Follows, Session
    <2> DEFINE u == [t EXCEPT !.current = 0]
    <2> HIDE DEF u
    <2>9. Follows(s, u) /\ u.jobs = s.jobs
      BY <2>6, <2>7, <2>8 DEF Follows, Tracked, u
    <2>10. QED
      BY <2>2, <2>9 DEF u
  <1>3. QED
    BY <1>1, <1>2

LEMMA RegisterFollows ==
    ASSUME NEW s \in Session, Tracked(s), OneOpen(s), s.current = 0,
           s.made < MaxDevices, NEW paused \in BOOLEAN
    PROVE  Follows(s, Register(s, paused))
  <1> DEFINE d == s.made + 1
             r == [Unborn EXCEPT !.open = TRUE, !.paused = paused,
                                 !.conn = IF paused THEN "Closed"
                                          ELSE "Connecting"]
             t == [s EXCEPT !.made = d, !.current = d,
                            !.devices = [s.devices EXCEPT ![d] = r]]
  <1>1. d \in Devices /\ d \in 0 .. MaxDevices /\ s.made \in Int
    BY BoundsAssumption DEF Session, Devices
  <1>2. /\ r \in Device /\ r.open /\ r.paused = paused
        /\ r.monitor = NoJob /\ r.upload = NoJob /\ r.temp = NoJob
        /\ ~r.uploading /\ ~r.writing
        /\ r.conn = IF paused THEN "Closed" ELSE "Connecting"
    BY DEF Unborn, Device, Connections, NoJob
  <1>3. Register(s, paused) = Update(t, d)
    BY DEF Register, Construct, Session
  <1> HIDE DEF r
  <1>4. /\ t \in Session /\ t.jobs = s.jobs /\ t.disk = s.disk /\ t.made = d
        /\ t.devices[d] = r
        /\ \A e \in Devices \ {d} : t.devices[e] = s.devices[e]
    BY <1>1, <1>2 DEF Session
  <1>5. s.devices[d].monitor = NoJob /\ s.devices[d].upload = NoJob
        /\ Fits(s.jobs, s.devices[d], d)
    BY <1>1 DEF Tracked
  <1>6. Fits(s.jobs, r, d)
    BY <1>2, <1>5 DEF Fits, Owned, Shown, Ahead
  <1>7. \A e \in Devices : e > d => e # d /\ e > s.made
    BY <1>1 DEF Devices
  <1>8. Tracked(t)
    BY <1>4, <1>6, <1>7 DEF Tracked
  <1>9. \A e \in Devices : e <= s.made => e # d
    BY <1>1 DEF Devices
  <1>10. s.made <= d /\ d <= d
    BY <1>1
  <1>11. Follows(s, t)
    BY <1>4, <1>8, <1>9, <1>10 DEF Follows
  <1> HIDE DEF t
  <1>12. /\ Follows(t, Update(t, d))
         /\ \A e \in Devices : Update(t, d).devices[e].open = t.devices[e].open
    BY <1>1, <1>4, <1>8, <1>10, UpdateFollows
  <1>13. QED
    BY <1>3, <1>11, <1>12, FollowsTwice

LEMMA SyncFollows ==
    ASSUME NEW s \in Session, Tracked(s), OneOpen(s), NEW paused \in BOOLEAN
    PROVE  Follows(s, Sync(s, paused))
  BY FollowsItself, RemoveFollows, RegisterFollows DEF Sync
-----------------------------------------------------------------------------
(***************************************************************************)
(* The steps.                                                              *)
(***************************************************************************)

\* The device that told the user to go ahead is silent.
Granted == granted # 0 => Silent(devices[granted])

JobsInv ==
    /\ SessionInv
    /\ Tracked(Now)
    /\ Granted

\* Of what a step does: no device that is closed afterwards has got a job.
StartsNone ==
    \A d \in Devices, kind \in {"monitor", "upload"} :
        ~devices'[d].open => Live(kind, d)' \subseteq Live(kind, d)

\* A step that makes a session record the next state.
LEMMA ContinuedStep ==
    ASSUME SessionInv, NEW s, Continues(Now, s), Become(s)
    PROVE  Tracked(Now)' /\ StartsNone
  <1>1. /\ devices' = s.devices /\ jobs' = s.jobs /\ disk' = s.disk
        /\ made' = s.made /\ current' = s.current
    BY DEF Become
  <1>2. Now' = [devices |-> s.devices, jobs |-> s.jobs, disk |-> s.disk,
                made |-> s.made, current |-> s.current]
    BY <1>1 DEF Now
  <1>3. Now' = s
    BY <1>2 DEF Continues, Session
  <1>4. Tracked(Now')
    BY <1>3 DEF Continues
  <1>5. \A j \in Slots : \/ jobs'[j] = jobs[j]
                         \/ jobs'[j] = Idle
                         \/ devices'[jobs'[j].device].open
    BY <1>1, NowTyped DEF Continues, SessionInv
  <1>6. StartsNone
    BY <1>5, IdleJob DEF StartsNone, Live
  <1>7. QED
    BY <1>4, <1>6

LEMMA FollowsContinues ==
    ASSUME NEW s, NEW t, Follows(s, t)
    PROVE  Continues(s, t)
  BY DEF Follows, Continues

\* A device that has told the user to go ahead is not disturbed.
LEMMA FollowedStep ==
    ASSUME JobsInv, NEW s, Follows(Now, s), Become(s), granted' = granted
    PROVE  Tracked(Now)' /\ Granted' /\ StartsNone
  <1>1. Tracked(Now)' /\ StartsNone
    BY FollowsContinues, ContinuedStep DEF JobsInv
  <1>2. devices' = s.devices
    BY DEF Become
  <1>3. /\ granted # 0 => granted \in Devices /\ granted <= made
        /\ Now.devices = devices /\ Now.made = made
    BY BoundsAssumption, NowTyped DEF JobsInv, SessionInv, TypeOK, Devices
  <1>4. Granted'
    BY <1>2, <1>3 DEF JobsInv, Granted, Follows
  <1>5. QED
    BY <1>1, <1>4

\* A step that leaves jobs, devices and files alone.
LEMMA IdleStep ==
    ASSUME JobsInv, UNCHANGED <<jobs, devices, disk, made, granted>>
    PROVE  Tracked(Now)' /\ Granted' /\ StartsNone
  <1>1. /\ Now'.jobs = jobs /\ Now'.devices = devices /\ Now'.disk = disk
        /\ Now'.made = made
    BY DEF Now
  <1>2. /\ Now.jobs = jobs /\ Now.devices = devices /\ Now.disk = disk
        /\ Now.made = made
    BY DEF Now
  <1>3. Tracked(Now')
    BY <1>1, <1>2 DEF JobsInv, Tracked
  <1>4. QED
    BY <1>3 DEF JobsInv, Granted, StartsNone, Live

LEMMA CurrentDevice ==
    ASSUME SessionInv, current # 0
    PROVE  current \in Devices /\ current <= Now.made /\ devices[current].open
           /\ Now.devices = devices
  BY BoundsAssumption, NowTyped DEF SessionInv, TypeOK, Devices

\* A job takes the lock or returns: it stays its device's job.
LEMMA AdvancedStep ==
    ASSUME JobsInv, NEW j \in Slots, NEW new, new.kind = jobs[j].kind,
           new.device = jobs[j].device, new.state # "none", jobs[j].state # "none",
           jobs' = [jobs EXCEPT ![j] = new],
           UNCHANGED <<disk, made, granted>>,
           \A e \in Devices :
               /\ devices'[e].monitor = devices[e].monitor
               /\ devices'[e].upload = devices[e].upload
               /\ devices'[e].open = devices[e].open
               /\ devices'[e].paused = devices[e].paused
               /\ Shown(devices'[e])
               /\ Ahead(jobs', devices'[e])
    PROVE  Tracked(Now)' /\ Granted' /\ StartsNone
  <1>1. /\ jobs'[j] = new
        /\ \A k \in Slots \ {j} : jobs'[k] = jobs[k]
    BY DEF JobsInv, SessionInv, TypeOK
  <1>2. \A k \in Slots : /\ jobs'[k].kind = jobs[k].kind
                         /\ jobs'[k].device = jobs[k].device
                         /\ jobs'[k].state # "none" => jobs[k].state # "none"
    BY <1>1
  <1>3. /\ Now'.jobs = jobs' /\ Now'.devices = devices' /\ Now'.disk = disk
        /\ Now'.made = made
        /\ Now.jobs = jobs /\ Now.devices = devices /\ Now.disk = disk
        /\ Now.made = made
    BY DEF Now
  <1>4. ASSUME NEW e \in Devices PROVE Fits(jobs', devices'[e], e)
    <2>1. Owned(jobs, devices[e], e)
      BY <1>3 DEF JobsInv, Tracked, Fits
    <2>2. Owned(jobs', devices'[e], e)
      BY <1>2, <2>1 DEF Owned
    <2>3. QED
      BY <2>2 DEF Fits
  <1>5. Tracked(Now')
    <2>1. \A d \in Devices : Fits(Now'.jobs, Now'.devices[d], d)
      BY <1>3, <1>4
    <2>2. \A d \in Devices : d > Now'.made => /\ Now'.devices[d].monitor = NoJob
                                              /\ Now'.devices[d].upload = NoJob
      BY <1>3 DEF JobsInv, Tracked
    <2>3. \A k \in Slots : k \in Now'.disk <=> Now'.jobs[k].kind = "upload"
      BY <1>2, <1>3 DEF JobsInv, Tracked
    <2>4. QED
      BY <2>1, <2>2, <2>3 DEF Tracked
  <1>6. StartsNone
    BY <1>2 DEF StartsNone, Live
  <1>7. Granted'
    <2>1. granted # 0 => granted \in Devices
      BY BoundsAssumption DEF JobsInv, SessionInv, TypeOK, Devices
    <2>2. QED
      BY <2>1 DEF JobsInv, Granted, Silent
  <1>8. QED
    BY <1>5, <1>6, <1>7

\* Among the jobs of device e only its poll matters to the order.
LEMMA AheadOfAnother ==
    ASSUME SessionInv, Tracked(Now), NEW j \in Slots, NEW e \in Devices,
           jobs[j].device # e \/ jobs[j].kind = "upload",
           NEW new, jobs' = [jobs EXCEPT ![j] = new],
           devices'[e] = devices[e]
    PROVE  Shown(devices'[e]) /\ Ahead(jobs', devices'[e])
  <1>1. /\ Now.jobs = jobs /\ Now.devices = devices
        /\ devices[e] \in Device
        /\ \A k \in Slots \ {j} : jobs'[k] = jobs[k]
    BY NowTyped DEF SessionInv, TypeOK
  <1>2. Fits(jobs, devices[e], e)
    BY <1>1 DEF Tracked
  <1>3. devices[e].monitor # j
    BY <1>2 DEF Fits, Owned
  <1>4. devices[e].monitor # NoJob => devices[e].monitor \in Slots \ {j}
    BY <1>1, <1>3 DEF Device
  <1>5. QED
    BY <1>1, <1>2, <1>4 DEF Fits, Ahead

LEMMA TrackedWorkers ==
    ASSUME JobsInv, Workers
    PROVE  Tracked(Now)' /\ Granted' /\ StartsNone
  <1>1. SessionInv /\ Tracked(Now)
    BY DEF JobsInv
  <1>2. Now \in Session /\ Now.jobs = jobs /\ Now.devices = devices
    BY <1>1, NowTyped DEF SessionInv
  <1>3. ASSUME NEW j \in Slots, jobs[j].state # "none"
        PROVE  /\ jobs[j] \in Job /\ jobs[j].kind \in {"monitor", "upload"}
               /\ jobs[j].device \in Devices
               /\ Fits(jobs, devices[jobs[j].device], jobs[j].device)
               /\ devices[jobs[j].device] \in Device
    <2>1. jobs[j] \in Job
      BY <1>1 DEF SessionInv, TypeOK
    <2>2. jobs[j].kind \in {"monitor", "upload"} /\ jobs[j].device \in Devices
      BY <1>3, <2>1, JobKinds
    <2>3. QED
      BY <1>1, <1>2, <2>1, <2>2 DEF Tracked, SessionInv, TypeOK
  <1>4. ASSUME NEW j \in Slots, Acquire(j)
        PROVE  Tracked(Now)' /\ Granted' /\ StartsNone
    <2> DEFINE d == jobs[j].device
               new == [jobs[j] EXCEPT !.state = "talking"]
               ahead == jobs[j].kind = "monitor" /\ devices[d].uploading
               counted == [devices[d] EXCEPT !.overtaken = @ + 1]
    <2>1. /\ jobs[j].state = "waiting"
          /\ jobs' = [jobs EXCEPT ![j] = new]
          /\ devices' = IF ahead THEN [devices EXCEPT ![d] = counted] ELSE devices
          /\ UNCHANGED <<disk, made, granted>>
      BY <1>4 DEF Acquire, AcquireLock, pluginVars
    <2>2. /\ jobs[j] \in Job /\ jobs[j].kind \in {"monitor", "upload"}
          /\ d \in Devices /\ Fits(jobs, devices[d], d) /\ devices[d] \in Device
      BY <1>3, <2>1
    <2>3. /\ new.kind = jobs[j].kind /\ new.device = d /\ new.state = "talking"
      BY <2>1, <2>2 DEF Job, Idle
    <2>4. /\ counted.monitor = devices[d].monitor
          /\ counted.upload = devices[d].upload
          /\ counted.open = devices[d].open /\ counted.paused = devices[d].paused
          /\ counted.uploading = devices[d].uploading
          /\ counted.writing = devices[d].writing
          /\ counted.temp = devices[d].temp /\ counted.conn = devices[d].conn
          /\ counted.overtaken = devices[d].overtaken + 1
      BY <2>2 DEF Device
    <2> HIDE DEF new, counted
    <2>5. /\ jobs'[j] = new
          /\ \A e \in Devices \ {d} : devices'[e] = devices[e]
          /\ devices'[d] = IF ahead THEN counted ELSE devices[d]
      BY <1>1, <2>1, <2>2 DEF SessionInv, TypeOK
    <2>6. ASSUME jobs[j].kind = "monitor"
          PROVE  Shown(devices'[d]) /\ Ahead(jobs', devices'[d])
      <3>1. devices[d].monitor = j /\ j # NoJob
        BY <2>2, <2>6 DEF Fits, Owned, Slots, NoJob
      <3>2. devices[d].uploading => devices[d].overtaken = 0
        BY <2>1, <2>2, <3>1 DEF Fits, Ahead
      <3>3. Shown(devices[d])
        BY <2>2 DEF Fits
      <3>4. CASE ahead
        <4>1. Shown(counted)
          BY <2>4, <3>3 DEF Shown
        <4>2. counted.overtaken <= 1 /\ jobs'[counted.monitor].state # "waiting"
          BY <2>3, <2>4, <2>5, <3>1, <3>2, <3>4
        <4>3. QED
          BY <2>5, <3>4, <4>1, <4>2 DEF Ahead
      <3>5. CASE ~ahead
        BY <2>5, <2>6, <3>3, <3>5 DEF Ahead
      <3>6. QED
        BY <3>4, <3>5
    <2>7. \A e \in Devices : Shown(devices'[e]) /\ Ahead(jobs', devices'[e])
      <3>1. ASSUME NEW e \in Devices \ {d}
            PROVE  Shown(devices'[e]) /\ Ahead(jobs', devices'[e])
        BY <1>1, <2>1, <2>5, AheadOfAnother
      <3>2. CASE jobs[j].kind = "upload"
        <4>1. devices'[d] = devices[d]
          BY <2>5, <3>2
        <4>2. QED
          BY <1>1, <2>1, <2>2, <3>1, <3>2, <4>1, AheadOfAnother
      <3>3. QED
        BY <2>2, <2>6, <3>1, <3>2
    <2>8. \A e \in Devices : /\ devices'[e].monitor = devices[e].monitor
                             /\ devices'[e].upload = devices[e].upload
                             /\ devices'[e].open = devices[e].open
                             /\ devices'[e].paused = devices[e].paused
      BY <2>4, <2>5
    <2>9. QED
      BY <2>1, <2>3, <2>7, <2>8, AdvancedStep
  <1>5. ASSUME NEW j \in Slots, Return(j)
        PROVE  Tracked(Now)' /\ Granted' /\ StartsNone
    <2> DEFINE d == jobs[j].device
               new == [jobs[j] EXCEPT !.state = "returned"]
    <2>1. /\ jobs[j].state = "talking"
          /\ jobs' = [jobs EXCEPT ![j] = new]
          /\ UNCHANGED <<devices, disk, made, granted>>
      BY <1>5 DEF Return, JobReturns, pluginVars
    <2>2. /\ jobs[j] \in Job /\ jobs[j].kind \in {"monitor", "upload"}
          /\ d \in Devices /\ Fits(jobs, devices[d], d) /\ devices[d] \in Device
      BY <1>3, <2>1
    <2>3. /\ new.kind = jobs[j].kind /\ new.device = d /\ new.state = "returned"
      BY <2>1, <2>2 DEF Job, Idle
    <2> HIDE DEF new
    <2>4. jobs'[j] = new
      BY <1>1, <2>1 DEF SessionInv, TypeOK
    <2>5. \A e \in Devices : Shown(devices'[e]) /\ Ahead(jobs', devices'[e])
      <3>1. ASSUME NEW e \in Devices, e # d \/ jobs[j].kind = "upload"
            PROVE  Shown(devices'[e]) /\ Ahead(jobs', devices'[e])
        BY <1>1, <2>1, <3>1, AheadOfAnother
      <3>2. CASE jobs[j].kind = "monitor"
        <4>1. devices[d].monitor = j
          BY <2>2, <3>2 DEF Fits, Owned
        <4>2. QED
          BY <2>1, <2>2, <2>3, <2>4, <3>1, <4>1 DEF Fits, Ahead
      <3>3. QED
        BY <2>2, <3>1, <3>2
    <2>6. QED
      BY <2>1, <2>3, <2>5, AdvancedStep
  <1>6. ASSUME NEW j \in Slots, Deliver(j)
        PROVE  Tracked(Now)' /\ Granted' /\ StartsNone
    <2> DEFINE d == jobs[j].device
               s == [Now EXCEPT !.jobs[j] = Idle]
    <2>1. /\ jobs[j].state = "returned" /\ granted' = granted
          /\ IF jobs[j].kind = "monitor"
             THEN \E outcome \in {"Connected", "Error"} :
                      Become(MonitorFinished(s, d, j, outcome))
             ELSE Become(UploadFinished(s, d))
      BY <1>6 DEF Deliver, pluginOnly
    <2>2. jobs[j].kind \in {"monitor", "upload"}
      BY <1>3, <2>1
    <2>3. CASE jobs[j].kind = "monitor"
      <3>1. \A outcome \in {"Connected", "Error"} :
                Follows(Now, MonitorFinished(s, d, j, outcome))
        BY <1>1, <1>2, <2>3, MonitorFollows
      <3> HIDE DEF s, d
      <3>2. QED
        BY <2>1, <2>3, <3>1, FollowedStep
    <2>4. CASE jobs[j].kind = "upload"
      <3>1. Follows(Now, UploadFinished(s, d))
        BY <1>1, <1>2, <2>4, UploadFollows
      <3> HIDE DEF s, d
      <3>2. QED
        BY <2>1, <2>4, <3>1, FollowedStep
    <2>5. QED
      BY <2>2, <2>3, <2>4
  <1>7. QED
    BY <1>4, <1>5, <1>6 DEF Workers

LEMMA TrackedDevice ==
    ASSUME JobsInv, RequestWrite \/ \E d \in Devices : PollTimer(d)
    PROVE  Tracked(Now)' /\ Granted' /\ StartsNone
  <1>1. /\ SessionInv /\ Tracked(Now) /\ Now \in Session
        /\ Now.devices = devices /\ Now.jobs = jobs /\ Now.made = made
    BY NowTyped DEF JobsInv, SessionInv
  <1>2. ASSUME NEW d \in Devices, PollTimer(d)
        PROVE  Tracked(Now)' /\ Granted' /\ StartsNone
    <2>1. devices[d].open /\ Become(Update(Now, d)) /\ granted' = granted
      BY <1>2 DEF PollTimer, pluginOnly
    <2>2. d <= Now.made
      BY <1>1, <2>1 DEF SessionInv, TypeOK, Devices
    <2>3. Follows(Now, Update(Now, d))
      BY <1>1, <2>2, UpdateFollows
    <2>4. QED
      BY <2>1, <2>3, FollowedStep
  <1>3. CASE RequestWrite
    <2> DEFINE s == BeginUpload(Now, current)
    <2>1. /\ current # 0 /\ AcceptsUpload(devices[current])
          /\ FreeSlots(jobs) # {} /\ granted' = granted
          /\ \/ \E leaves \in BOOLEAN :
                    Become(PreparationFails(s, current, leaves))
             \/ Become(StartUpload(s, current))
      BY <1>3 DEF RequestWrite, pluginOnly
    <2>2. current \in Devices /\ current <= Now.made /\ devices[current].open
      BY <1>1, <2>1, CurrentDevice
    <2>3. \A leaves \in BOOLEAN :
              Follows(Now, PreparationFails(s, current, leaves))
      BY <1>1, <2>1, <2>2, PreparationFollows
    <2>4. Follows(Now, StartUpload(s, current))
      BY <1>1, <2>1, <2>2, StartFollows
    <2> HIDE DEF s
    <2>5. QED
      BY <2>1, <2>3, <2>4, FollowedStep
  <1>4. QED
    BY <1>2, <1>3

LEMMA SyncDevicesFollows ==
    ASSUME JobsInv, NEW reg
    PROVE  Follows(Now, SyncDevices(reg))
  <1>1. Now \in Session /\ OneOpen(Now) /\ Tracked(Now)
    BY NowTyped DEF JobsInv, SessionInv
  <1>2. (reg = "paused") \in BOOLEAN
    OBVIOUS
  <1>3. QED
    BY <1>1, <1>2, FollowsItself, SyncFollows DEF SyncDevices

LEMMA TrackedPlugin ==
    ASSUME JobsInv,
           \/ \E loads \in BOOLEAN : Start(loads) \/ DeferredSync(loads)
           \/ \E to \in {"none", "gcode", "other"} : MachineChanges(to)
           \/ Stop
           \/ \E loads \in BOOLEAN : RefreshNow(loads)
           \/ \E address \in Addresses : UpdateConfiguration(address)
    PROVE  Tracked(Now)' /\ Granted' /\ StartsNone
  <1>1. Now \in Session /\ OneOpen(Now) /\ Tracked(Now) /\ SessionInv
    BY NowTyped DEF JobsInv, SessionInv
  <1>2. ASSUME NEW loads \in BOOLEAN, Start(loads)
        PROVE  Tracked(Now)' /\ Granted' /\ StartsNone
    BY <1>2, IdleStep DEF Start
  <1>3. ASSUME NEW loads \in BOOLEAN, DeferredSync(loads)
        PROVE  Tracked(Now)' /\ Granted' /\ StartsNone
    <2>1. CASE started
      BY <1>3, <2>1, SyncDevicesFollows, FollowedStep DEF DeferredSync
    <2>2. CASE ~started
      BY <1>3, <2>2, IdleStep DEF DeferredSync
    <2>3. QED
      BY <2>1, <2>2
  <1>4. ASSUME NEW to \in {"none", "gcode", "other"}, MachineChanges(to)
        PROVE  Tracked(Now)' /\ Granted' /\ StartsNone
    BY <1>4, IdleStep DEF MachineChanges
  <1>5. CASE Stop
    <2> DEFINE s == IF registrar = "none" THEN Now ELSE Remove(Now)
    <2>1. Become(s) /\ granted' = granted
      BY <1>5 DEF Stop
    <2>2. Follows(Now, s)
      BY <1>1, FollowsItself, RemoveFollows
    <2> HIDE DEF s
    <2>3. QED
      BY <2>1, <2>2, FollowedStep
  <1>6. ASSUME NEW loads \in BOOLEAN, RefreshNow(loads)
        PROVE  Tracked(Now)' /\ Granted' /\ StartsNone
    BY <1>6, SyncDevicesFollows, FollowedStep DEF RefreshNow
  <1>7. ASSUME NEW address \in Addresses, UpdateConfiguration(address)
        PROVE  Tracked(Now)' /\ Granted' /\ StartsNone
    <2> DEFINE paused == current # 0 /\ devices[current].paused
               s == IF registrar = "none" THEN Now ELSE Remove(Now)
    <2>1. Become(Sync(s, paused)) /\ granted' = granted
      BY <1>7 DEF UpdateConfiguration
    <2>2. paused \in BOOLEAN
      <3>1. current # 0 => devices[current] \in Device
        BY <1>1, CurrentDevice DEF SessionInv, TypeOK
      <3>2. QED
        BY <3>1 DEF Device
    <2>3. Follows(Now, s) /\ s.jobs = Now.jobs
      BY <1>1, FollowsItself, RemoveFollows
    <2>4. OneOpen(s) /\ s \in Session /\ Tracked(s)
      BY <1>1, <2>3, RemoveResettled DEF Resettled, Follows
    <2> HIDE DEF s, paused
    <2>5. Follows(s, Sync(s, paused))
      BY <2>2, <2>4, SyncFollows
    <2>6. Follows(Now, Sync(s, paused))
      BY <1>1, <2>3, <2>5, FollowsTwice
    <2>7. QED
      BY <2>1, <2>6, FollowedStep
  <1>8. QED
    BY <1>2, <1>3, <1>4, <1>5, <1>6, <1>7

LEMMA TrackedEnabled ==
    ASSUME JobsInv, NEW enabled \in BOOLEAN, NEW loads \in BOOLEAN,
           SetEnabled(enabled, loads)
    PROVE  Tracked(Now)' /\ Granted' /\ StartsNone
  <1> DEFINE s == Managed(loads)
             d == s.current
  <1>1. /\ Now \in Session /\ OneOpen(Now) /\ Tracked(Now) /\ SessionInv
        /\ Now.jobs = jobs
    BY NowTyped DEF JobsInv, SessionInv
  <1>2. \/ Become(s) /\ granted' = granted
        \/ /\ d # 0
           /\ enabled # ~s.devices[d].paused
           /\ granted' = IF ~enabled /\ GrantsAccess(s.devices[d]) THEN d ELSE 0
           /\ Become(IF enabled THEN Resume(s, d) ELSE Pause(s, d))
    BY DEF SetEnabled
  <1>3. Follows(Now, s)
    BY <1>1, FollowsItself, SyncDevicesFollows DEF Managed
  <1>4. s \in Session /\ OneOpen(s) /\ Tracked(s)
    BY <1>1, <1>3, ManagedResettled DEF Resettled, Follows
  <1>5. CASE Become(s) /\ granted' = granted
    <2> HIDE DEF s
    <2>1. QED
      BY <1>3, <1>5, FollowedStep
  <1>6. CASE d # 0 /\ ~enabled /\ Become(Pause(s, d))
             /\ granted' = IF GrantsAccess(s.devices[d]) THEN d ELSE 0
    <2> HIDE DEF s
    <2>1. d \in Devices /\ d <= s.made
      BY <1>4, <1>6, BoundsAssumption DEF Session, Devices, OneOpen
    <2>2. /\ Follows(s, Pause(s, d)) /\ Handled(s, Pause(s, d))
      BY <1>4, <2>1, PauseFollows, PauseHandled
    <2>3. Follows(Now, Pause(s, d))
      BY <1>1, <1>3, <2>2, FollowsTwice DEF Handled
    <2>4. Tracked(Now)' /\ StartsNone
      BY <1>1, <1>6, <2>3, FollowsContinues, ContinuedStep
    <2>5. Granted'
      <3>1. CASE ~GrantsAccess(s.devices[d])
        BY <1>6, <3>1 DEF Granted
      <3>2. CASE GrantsAccess(s.devices[d])
        <4>1. granted' = d /\ devices' = Pause(s, d).devices
          BY <1>6, <3>2 DEF Become
        <4>2. Pause(s, d).devices[d] = [s.devices[d] EXCEPT !.paused = TRUE,
                                                           !.conn = "Closed"]
          BY <1>4, <2>1, <3>2 DEF Pause, Session
        <4>3. s.devices[d] \in Device /\ Shown(s.devices[d])
          BY <1>4, <2>1 DEF Session, Tracked, Fits
        <4>4. s.devices[d].monitor = NoJob /\ s.devices[d].upload = NoJob
          BY <3>2, <4>3 DEF GrantsAccess, Shown
        <4>5. Silent(devices'[d])
          BY <4>1, <4>2, <4>3, <4>4 DEF Silent, Device
        <4>6. QED
          BY <4>1, <4>5 DEF Granted
      <3>3. QED
        BY <3>1, <3>2
    <2>6. QED
      BY <2>4, <2>5
  <1>7. CASE d # 0 /\ enabled /\ Become(Resume(s, d)) /\ granted' = 0
    <2> HIDE DEF s
    <2>1. d \in Devices /\ d <= s.made
      BY <1>4, <1>7, BoundsAssumption DEF Session, Devices, OneOpen
    <2>2. Continues(s, Resume(s, d)) /\ Handled(s, Resume(s, d))
      BY <1>4, <2>1, ResumeContinues, ResumeHandled
    <2> DEFINE t == Resume(s, d)
    <2> HIDE DEF t
    <2>3. Continues(Now, t)
      <3>1. ASSUME NEW j \in Slots
            PROVE  \/ t.jobs[j] = Now.jobs[j]
                   \/ t.jobs[j] = Idle
                   \/ t.devices[t.jobs[j].device].open
        <4>1. t.jobs[j] # Idle => t.jobs[j].device \in Devices
          BY <2>2 DEF Continues, Session, Job, t
        <4>2. QED
          BY <1>3, <2>2, <4>1 DEF Follows, Continues, Handled, t
      <3>2. Now.made <= t.made
        BY <1>1, <1>3, <1>4, <2>2, MadeNumber DEF Follows, Handled, t
      <3>3. QED
        BY <2>2, <3>1, <3>2 DEF Continues, t
    <2>4. Tracked(Now)' /\ StartsNone
      BY <1>1, <1>7, <2>3, ContinuedStep DEF t
    <2>5. QED
      BY <1>7, <2>4 DEF Granted
  <1>8. QED
    BY <1>2, <1>5, <1>6, <1>7

LEMMA JobsInit == Init => JobsInv
  <1> SUFFICES ASSUME Init PROVE JobsInv
    OBVIOUS
  <1>1. SessionInv
    BY SessionInit
  <1>2. /\ \A j \in Slots : Now.jobs[j] = Idle
        /\ \A d \in Devices : Now.devices[d] = Unborn
        /\ Now.disk = {}
        /\ granted = 0
    BY DEF Init, PluginInit, DeviceInit, Now
  <1>3. NoJob \notin Slots
    BY BoundsAssumption DEF NoJob, Slots
  <1>4. \A d \in Devices : Fits(Now.jobs, Now.devices[d], d)
    BY <1>2, <1>3, IdleJob DEF Fits, Owned, Shown, Ahead, Unborn
  <1>5. Tracked(Now)
    BY <1>2, <1>4, IdleJob DEF Tracked, Unborn
  <1>6. QED
    BY <1>1, <1>2, <1>5 DEF JobsInv, Granted

LEMMA JobsStep ==
    ASSUME JobsInv, [Next]_vars
    PROVE  Tracked(Now)' /\ Granted' /\ StartsNone
  <1>1. CASE Workers
    BY <1>1, TrackedWorkers
  <1>2. CASE User
    BY <1>2, TrackedDevice, TrackedPlugin, TrackedEnabled DEF User
  <1>3. CASE Cura
    BY <1>3, TrackedDevice, TrackedPlugin DEF Cura
  <1>4. CASE UNCHANGED vars
    BY <1>4, IdleStep DEF vars, pluginVars
  <1>5. QED
    BY <1>1, <1>2, <1>3, <1>4 DEF Next

LEMMA JobsNext == JobsInv /\ [Next]_vars => JobsInv'
  BY JobsStep, SessionNext DEF JobsInv

\* What the invariant says of one device.
LEMMA DeviceKnows ==
    ASSUME JobsInv, NEW d \in Devices
    PROVE  /\ Live("monitor", d) = {devices[d].monitor} \ {NoJob}
           /\ Live("upload", d) = {devices[d].upload} \ {NoJob}
           /\ Shown(devices[d])
           /\ Ahead(jobs, devices[d])
           /\ devices[d] \in Device
  <1>1. Owned(jobs, devices[d], d) /\ Shown(devices[d]) /\ Ahead(jobs, devices[d])
    BY DEF Now, JobsInv, Tracked, Fits
  <1>2. \A j \in Slots : jobs[j].state # "none" <=> jobs[j].kind # "none"
    BY JobKinds DEF JobsInv, SessionInv, TypeOK
  <1>3. devices[d] \in Device
    BY DEF JobsInv, SessionInv, TypeOK
  <1>4. /\ devices[d].monitor \in Slots \cup {NoJob}
        /\ devices[d].upload \in Slots \cup {NoJob}
        /\ NoJob \notin Slots
    BY <1>3, BoundsAssumption DEF Device, NoJob, Slots
  <1>5. Live("monitor", d) = {devices[d].monitor} \ {NoJob}
    BY <1>1, <1>2, <1>4 DEF Owned, Live
  <1>6. Live("upload", d) = {devices[d].upload} \ {NoJob}
    BY <1>1, <1>2, <1>4 DEF Owned, Live
  <1>7. QED
    BY <1>1, <1>3, <1>5, <1>6

LEMMA AlwaysJobs == Spec => []JobsInv
  BY JobsInit, JobsNext, PTL DEF Spec

\* BlockPolling: at most the poll already under way is served before an
\* upload of its device, however many polls and uploads have queued up.
THEOREM OnePollOvertakes == Spec => []PollsOvertake
  <1>1. JobsInv => PollsOvertake
    BY DeviceKnows DEF PollsOvertake, Ahead
  <1>2. QED
    BY <1>1, AlwaysJobs, PTL

\* _update and _monitor_job_finished: a device has at most one poll out and
\* knows it, whether or not it was closed and its callbacks came late.
THEOREM PollsAreKnown == Spec => []MonitorTracked
  <1>1. JobsInv => MonitorTracked
    BY DeviceKnows DEF MonitorTracked
  <1>2. QED
    BY <1>1, AlwaysJobs, PTL

\* _begin_upload to _upload_finished: the device is exclusive for exactly as
\* long as its upload job lives, and shows as busy while it is registered.
THEOREM UploadsAreExclusive == Spec => []ExclusiveWhileUploading
  <1>1. ASSUME JobsInv, NEW d \in Devices
        PROVE  /\ Live("upload", d) = {devices[d].upload} \ {NoJob}
               /\ devices[d].uploading <=> devices[d].upload # NoJob
               /\ devices[d].uploading = devices[d].writing
               /\ devices[d].uploading /\ devices[d].open
                      => devices[d].conn = "Busy"
    <2>1. /\ Shown(devices[d])
          /\ devices[d].uploading \in BOOLEAN /\ devices[d].writing \in BOOLEAN
      BY <1>1, DeviceKnows DEF Device
    <2>2. QED
      BY <1>1, <2>1, DeviceKnows DEF Shown
  <1>2. JobsInv => ExclusiveWhileUploading
    BY <1>1 DEF ExclusiveWhileUploading
  <1>3. QED
    BY <1>2, AlwaysJobs, PTL

\* set_communication_enabled(False): a registered device that has gone silent
\* says so, whichever of its jobs was the last to end.
THEOREM SilenceIsShown == Spec => []PausedShowsClosed
  <1>1. JobsInv => PausedShowsClosed
    BY DeviceKnows DEF PausedShowsClosed, Shown
  <1>2. QED
    BY <1>1, AlwaysJobs, PTL

\* _cleanup_temp_file: the source file of an upload lives exactly as long as
\* its job, however many uploads of however many devices are queued.
THEOREM SourcesBelong == Spec => []SourceMatchesJobs
  <1>1. ASSUME JobsInv PROVE SourceMatchesJobs
    <2>1. \A j \in Slots : /\ j \in disk <=> jobs[j].kind = "upload"
                           /\ jobs[j] \in Job
      BY <1>1 DEF Now, JobsInv, Tracked, SessionInv, TypeOK
    <2>2. disk \ {NoJob} \subseteq Slots /\ NoJob \notin Slots
      BY <1>1, BoundsAssumption DEF JobsInv, SessionInv, TypeOK, NoJob, Slots
    <2>3. \A j \in Slots : jobs[j].kind = "upload"
              <=> \E d \in Devices : j \in Live("upload", d)
      BY <2>1, JobKinds DEF Live
    <2>4. \A d \in Devices : Live("upload", d) \subseteq Slots
      BY DEF Live
    <2>5. QED
      BY <2>1, <2>2, <2>3, <2>4 DEF SourceMatchesJobs
  <1>2. QED
    BY <1>1, AlwaysJobs, PTL

\* set_communication_enabled(False) answers "may now use the printer
\* exclusively": of the device that answered, no job exists until it resumes.
THEOREM GrantsAreHonoured == Spec => []GrantHonoured
  <1>1. ASSUME JobsInv, granted # 0
        PROVE  Live("monitor", granted) \cup Live("upload", granted) = {}
    <2>1. granted \in Devices
      BY <1>1, BoundsAssumption DEF JobsInv, SessionInv, TypeOK, Devices
    <2>2. devices[granted].monitor = NoJob /\ devices[granted].upload = NoJob
      BY <1>1 DEF JobsInv, Granted, Silent
    <2>3. QED
      BY <1>1, <2>1, <2>2, DeviceKnows
  <1>2. QED
    BY <1>1, AlwaysJobs, PTL DEF GrantHonoured

\* close(): a device that has been removed starts no job, whichever of its
\* callbacks still arrives.
THEOREM ClosedStaysQuiet == Spec => ClosedNeverStarts
  <1>1. JobsInv /\ [Next]_vars
            => [\A d \in Devices, kind \in {"monitor", "upload"} :
                    ~devices[d].open /\ ~devices'[d].open
                        => Live(kind, d)' \subseteq Live(kind, d)]_vars
    BY JobsStep DEF StartsNone
  <1>2. QED
    BY <1>1, AlwaysJobs, PTL DEF Spec, ClosedNeverStarts
=============================================================================
