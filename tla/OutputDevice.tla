---------------------------- MODULE OutputDevice ----------------------------
(***************************************************************************)
(* ExclusiveQidiLegacyOutputDevice with its base QidiLegacyOutputDevice    *)
(* and the flags of QidiCommunicationState, as the UI thread runs them.    *)
(*                                                                         *)
(* A handler is one step of the UI thread, and handlers call each other    *)
(* (finishing an upload starts a poll, creating a device does too), so a   *)
(* method is an operator from a session record to the next: devices, jobs, *)
(* and disk, the temporary G-code files that exist, named by the job that  *)
(* sends them.                                                             *)
(***************************************************************************)
EXTENDS ProtocolJobs

VARIABLES
    devices,   \* every device created so far, by number
    disk       \* temporary files not yet removed

Unborn == [open |-> FALSE, paused |-> FALSE, uploading |-> FALSE,
           writing |-> FALSE, temp |-> NoJob, monitor |-> NoJob,
           upload |-> NoJob, conn |-> "Closed", overtaken |-> 0]

DeviceInit ==
    /\ jobs = [j \in Slots |-> Idle]
    /\ devices = [d \in Devices |-> Unborn]
    /\ disk = {}

PollsDuringUpload(r) == ~r.paused   \* slip: an upload does not silence polls

PollingAllowed(r) == ~r.paused /\ ~r.uploading

(***************************************************************************)
(* _update: start a status job unless one is out or silence is due.        *)
(***************************************************************************)

PollStartsWhenClosed(r) ==   \* slip: _monitoring_enabled not looked at
    PollingAllowed(r) /\ r.monitor = NoJob

PollStarts(r) == PollingAllowed(r) /\ r.open /\ r.monitor = NoJob

Update(s, d) ==
    IF PollStarts(s.devices[d]) /\ FreeSlots(s.jobs) # {}
    THEN LET j == NextSlot(s.jobs)
         IN  [s EXCEPT !.jobs[j] = Waiting("monitor", d),
                       !.devices[d].monitor = j]
    ELSE s

(***************************************************************************)
(* __init__ and close                                                      *)
(***************************************************************************)

\* connect() starts the poll timer; a paused device then shows as closed.
Construct(s, d, paused) ==
    Update([s EXCEPT !.devices[d] =
                [Unborn EXCEPT !.open = TRUE, !.paused = paused,
                               !.conn = IF paused THEN "Closed"
                                        ELSE "Connecting"]], d)

Close(s, d) ==
    [s EXCEPT !.devices[d].open = FALSE, !.devices[d].conn = "Closed"]

(***************************************************************************)
(* _on_monitor_finished                                                    *)
(***************************************************************************)

DiscardKeepsJob(s, d) == s   \* slip: the reference to the job is kept

DiscardLooksAlive(s, d) ==   \* slip: the paused device keeps its last state
    [s EXCEPT !.devices[d].monitor = NoJob]

\* A result that arrives in a silent phase is dropped.
Discard(s, d) ==
    LET r == s.devices[d]
    IN  [s EXCEPT !.devices[d].monitor = NoJob,
                  !.devices[d].conn =
                      IF r.paused /\ ~r.uploading THEN "Closed" ELSE @]

\* outcome: the worker's snapshot or its error
MonitorFinished(s, d, j, outcome) ==
    IF s.devices[d].monitor # j THEN s
    ELSE IF ~PollingAllowed(s.devices[d]) THEN Discard(s, d)
    ELSE [s EXCEPT !.devices[d].monitor = NoJob,
                   !.devices[d].conn = IF s.devices[d].open THEN outcome ELSE @]

(***************************************************************************)
(* requestWrite and _on_finished                                           *)
(***************************************************************************)

AcceptsWhilePaused(r) == ~r.uploading   \* slip: the pause is not looked at

AcceptsUpload(r) == ~r.paused /\ ~r.uploading

BeginUpload(s, d) ==
    [s EXCEPT !.devices[d].uploading = TRUE, !.devices[d].conn = "Busy",
              !.devices[d].overtaken = 0]

\* The writer is missing, or G-code or its file could not be produced.  A file
\* that was created before the error is left behind (leaves), owned by no job.
PreparationFails(s, d, leaves) ==
    Update([s EXCEPT !.devices[d].uploading = FALSE,
                     !.devices[d].conn = "Connecting",
                     !.disk = IF leaves THEN @ \cup {NoJob} ELSE @], d)

StartUpload(s, d) ==
    LET j == NextSlot(s.jobs)
    IN  [s EXCEPT !.jobs[j] = Waiting("upload", d),
                  !.disk = @ \cup {j},
                  !.devices[d].temp = j,
                  !.devices[d].upload = j,
                  !.devices[d].writing = TRUE]

CleanupForgotten(s, d) == s   \* slip: the temporary file stays behind

CleanupTempFile(s, d) ==
    [s EXCEPT !.disk = @ \ {s.devices[d].temp}, !.devices[d].temp = NoJob]

StaysExclusive(s, d) ==   \* slip: finish_upload is not reached
    LET r == CleanupTempFile(s, d)
    IN  [r EXCEPT !.devices[d].writing = FALSE, !.devices[d].upload = NoJob]

UploadFinished(s, d) ==
    LET r == CleanupTempFile(s, d)
    IN  Update([r EXCEPT !.devices[d].writing = FALSE,
                         !.devices[d].upload = NoJob,
                         !.devices[d].uploading = FALSE,
                         !.devices[d].conn = IF r.devices[d].paused
                                             THEN "Closed"
                                             ELSE "Connecting"], d)

(***************************************************************************)
(* pause_communication and resume_communication                            *)
(***************************************************************************)

GrantsDuringPoll(r) == ~r.uploading   \* slip: a poll in flight is forgotten

\* When the answer is that another client "may now use the printer".
GrantsAccess(r) == ~r.uploading /\ r.monitor = NoJob

Pause(s, d) ==
    [s EXCEPT !.devices[d].paused = TRUE,
              !.devices[d].conn = IF GrantsAccess(s.devices[d])
                                  THEN "Closed" ELSE @]

ResumesAnyway(s, d) ==   \* slip: the upload under way is not looked at
    Update([s EXCEPT !.devices[d].paused = FALSE,
                     !.devices[d].conn = "Connecting"], d)

Resume(s, d) ==
    IF s.devices[d].uploading
    THEN [s EXCEPT !.devices[d].paused = FALSE]
    ELSE Update([s EXCEPT !.devices[d].paused = FALSE,
                          !.devices[d].conn = "Connecting"], d)
=============================================================================
