# Verification of the QIDI legacy network tools

TLA+ models, TLC model checks and TLAPS proofs for the programs of this
repository: the `qidi_legacy` UDP client with its command-line diagnostics
(`src/src/qidi_legacy`), the emulator it is tested with, the Cura plugin
built on it (`src/cura_plugin/QidiLegacyNetwork`) and its installer. Paths below
are relative to the verification root, where the repository is `src/`.

Everything hard about this code comes from three facts. The legacy QIDI protocol
is a text over UDP with **no sequence numbers**: a reply says neither which
request it answers nor which attempt, so every timeout can turn a later reply
into the answer to the wrong question. Cura has one thread that runs every
handler, a pool of workers behind one lock, and output devices that are created
and dropped **while their workers still run**. And the plugin lives in files that
an installer and a dialog rewrite one after the other, **stopping anywhere**.

## 1. The system

| part | state | operations | talks to |
|---|---|---|---|
| UDP transport (`transport.py`) | the socket's receive buffer | `request` (discard, send, wait, retry), `request_sequence` (one send, collect until complete) | printer |
| upload client (`client.py`) | position, resends obeyed | `connect`, `upload_file`, `list_files`, `verify_remote_file_size`, calls of one command | transport, framing |
| block framing (`framing.py`) | none | frame, parse, checksum | client, printer |
| reference printer (`mock_printer.py`) | destination file, listing | M4001, M20, M28, M29, file blocks, plain commands | transport |
| guided motion diagnostic (`cli.py`, `diagnostic_cli.py`, `safe_diagnostic_cli.py`) | positioning mode, cycle, base height | clearance moves, Z hops, XY sweeps, selector exercise, prompts | transport, operator |
| command line (`cli.py`) | none | probe, status, upload, z-test, ... | client |
| discovery (`discovery.py`) | answers by address | broadcast and collect | network |
| response parsing (`parsing.py`, `models.py`, `monitor_state.py`) | none | text to records | client, poll |
| worker jobs and lock (`monitor_job.py`, `upload_job.py`, `protocol_lock.py`) | `QIDI_PROTOCOL_LOCK` | status poll, upload | client, UI thread by callbacks |
| output device (`output_device.py`, `exclusive_output_device.py`, `communication_state.py`) | paused, uploading, polling job, upload job, temporary file, connection state | `_update`, `requestWrite`, finished callbacks, pause, resume, close | jobs, Cura |
| plugin and registrar (`plugin.py`, `registration.py`) | registrar, current device, started | start, stop, machine change, refresh, address change, enable/disable | output device, Cura's signals |
| plugin configuration (`config.py`) | `config.json`, its temporary file | load, save | plugin |
| installer (`install_cura_plugin.py`) | the plugin directory, the resources | delete, copy, configure | Cura's configuration folder |
| dialogs, notifications, QML, machine resources | none | - | plugin |

Interaction. A Cura *upload* goes: UI thread `requestWrite` -> temporary file ->
`QidiUploadJob` on a worker -> lock -> client -> UDP -> printer, and back as a
finished callback the UI thread runs later. A *poll* goes the same way every few
seconds, with a client and a socket of its own; a command-line program, or a
test, calls several methods of *one* client. Handlers on the UI thread are
atomic with respect to each other and interleave arbitrarily with the workers;
the workers exclude each other by the lock; the network interleaves with
everything. Cura is closed while the installer runs.

What makes each part correct:

- *Upload*: a reported success means a file of the announced size, and when there
  was none of the name before, one in which every byte is the source's *unless a
  block was changed on its way in a way the checksum does not notice*. That this
  happens is documented: on 2026-07-28 an upload whose blocks were all
  acknowledged and whose remote size matched left spliced content of the same
  length in the printer (`docs/transport-integrity-incident-2026-07-28.md`,
  `src/README.md:24-32`, `upload_job.py:35-38`, `cli.py:521-523`), so "whole" is
  not claimed. Further: no resend, retry or duplicate moves a byte; a block goes out again only on request; a failed
  upload tries to close the file; every upload ends; a frame is parsed as what
  was framed or refused; a name that was checked stays the same name.
- *Session*: one talker at a time; an upload silences polls, and a pause both;
  the device always knows its own jobs; a temporary file lives exactly as long
  as its job; a removed device starts nothing; an upload ends and polling
  resumes. In one sentence: the session is one exclusive user of the printer.
- *Guided diagnostic*: the carriage moves only over a lowered bed; the bed never
  rises past where the gauge was set; relative mode is always left; the hops
  end where they began.
- *Calls*: a state or name that is shown was the printer's since the poll began;
  a confirmed command was obeyed, unless an earlier call of the same client left
  an answer to spare; the name query cannot harm the status; every
  call returns, and with it the lock.
- *Files*: after an installation every file is whole and of one release; devices
  are made only over whole code; the saved address survives a crash at any point
  of a save, and is the one in use.

`PROJECT.json` lists every component with its status, and every hazard with the
line where it bites and the properties that cover it.

## 2. Modules

```
Framing, RemoteNames ----------------------------- MCUploadSystem --- FormatsProof
LegacyWire ---- MockPrinter --+                      |
     |                        +-- UploadSystem ------+--- UploadSystemProof
     +--------- UploadClient -+        :
     |                                 +.... FileTransfer     (implements)
     +--------- MotionPrinter --- GuidedTest --- GuidedTestProof
     +--------- PrinterCalls --- PrinterCallsProof

ProtocolJobs --- OutputDevice --- QidiPlugin --- CuraSession --- CuraSessionProof
                                                     :                |
                                                     :           CuraJobsProof
                                                     :                |
                                  ExclusiveAccess ...+ (implements)  CuraAccessProof

PluginFiles --- PluginFilesProof
```

`MCUploadSystem`, `MCCuraSession`, `MCGuidedTest`, `MCPluginFiles` and
`MCPrinterCalls` instantiate the systems for TLC. Definitions whose comment
begins with *slip* are plausible programming errors; each is used only to show
that a property notices it.

### A. Upload protocol

**LegacyWire** is the path between one socket and the printer: two queues and
the faults the network may commit (`Faults`, at most `MaxFaults`): losing,
duplicating late, reordering, and damaging a block in a way the XOR checksum
detects. Damage it does not detect is `SpliceBlock` of `UploadSystem`, where the
bytes of a block have a meaning. The reply queue includes the socket's receive buffer, because to the
code a slow reply and an unread one are the same.

**MockPrinter** is `mock_printer.py`: what M28, M29, M20 and a block do to the
destination file, which replies they may get, and when a block is refused
(checksum), answered by a resend request, or stored. `StaleReplies` is its switch
`stale_handshake_before_file_list`, an old answer in front of a listing. Its
other switch about the listing, `file_list_size_delta`, is left out: with it the
emulator misreports the file it holds, and what a success says of the file would
then be about the emulator's lie. A stored byte is represented by the position
in the source it came from, so that *the right byte at the right place* is
`uploaded[i] = i - 1`; three markers stand for bytes of an older file, for
padding, and for bytes that were spliced.

**UploadClient** is `connect` followed by `upload_file`. `pc` is the command
outstanding, `attempt` how often it has been sent. `Transmit` is the send of
`UdpTransport.request`, which throws away what is in the socket before the
*first* attempt only; `Receive` takes the next datagram whatever it answers;
`GiveUp` is the timeout after the last attempt. A timeout before the last
attempt is the next `Transmit`. Both are possible at any time: a reply may
always be late. Replies are judged by the text the code looks at, for example
`StartsOk` is `response.text.lower().startswith("ok")`, which is also true of
the handshake and of the count that ends a file listing. `Fail` routes through
the `finally` clause: leaving the try block on an error or Ctrl-C runs the
best-effort M29.

**UploadSystem** composes the three and states the properties. `SpliceBlock` is
the incident: a block still on the wire keeps its length and its matching
checksum, and has other bytes and perhaps another address. **FileTransfer**
says what an upload promises with no protocol in it, spliced bytes included; `ImplementsTransfer` is the
refinement, with the printer's file as the stored file and `result` as the
verdict.

**Framing** is the block format byte by byte: payload, offset, XOR checksum,
marker, and what `parse_file_block` makes of a datagram. A byte, or an offset,
is the set of its bits that are one, so that the widths can be constants and the
XOR of many bytes is the set of the bits that occur in an odd number of them. It
justifies the two
things the modules above take for granted, that an undamaged block arrives as
what was sent, and that one damaged byte is noticed; damage to several bytes may
cancel in the XOR, which is why there is a `SpliceBlock`. **RemoteNames** is the
cleaning of a job name in the plugin and the check of a name in the client, which
is applied to its own result after the upload. `re.sub` of a run of characters
is stated by the positions that stay: the first of a run, and all outside runs.

### B. Cura session

**ProtocolJobs** has the workers: a job waits for the lock, talks, returns (the
lock is free again), and its callback is delivered. What is said on the wire
while it talks is module A for an upload and E for a poll. The lock is not fair.

**OutputDevice** has the handlers of the exclusive output device. A handler in
Cura runs to its end on the UI thread and calls others (finishing an upload
starts a poll; creating a device does too), so each method is an operator from
a session record to the next one, and an action applies the whole call tree.

**QidiPlugin** is the plugin and registrar: deferred registrations, machine
changes, address changes that recreate the device, pausing through the plugin
(which refreshes first when no device is registered), and stop.

**CuraSession** adds the jobs' steps and `requestWrite`, and the properties.
Devices are never reused: a removed device keeps its number and its jobs, since
that is where the interesting interleavings come from. `overtaken`, `wanted` and
`granted` are history variables: polls served ahead of an upload, the user's
last request, and the device that last told the user that another client may
use the printer.

**ExclusiveAccess** is the abstract specification: what
`docs/exclusive-communication.md` promises, with no lock, callbacks or
handlers in it. Devices are numbers, the jobs asked for are a *set* of (kind,
device), one of them may be on the wire, and the only asker is the registered
device, which asks for no poll from the moment it asks for an upload until that
is reported, and for nothing while paused. `ImplementsAccess` is the refinement: job
slots are forgotten, a device's open jobs are what it has asked for, and the
jobs of a removed device go on until they are reported.

### C. Guided motion diagnostic

**MotionPrinter** is external: the firmware is not in the repository, so it is
taken from how the two programs use it: M114 and M400 answers, G90/G91,
relative or absolute G1, errors where the programs look for them.

**GuidedTest** is both programs, the cold one of `cli.py` and the heated
one of `diagnostic_cli.py`, which differ in the Z hops, in the retries of M400 and
in the thermal step. A script is the sequence of commands between two prompts;
the operator agrees or declines at each prompt; errors, timeouts and Ctrl-C
leave the script through the `finally` clause if there is one. The number of
attempts (`--retries`) is chosen from `Tries` when a test begins.

### D. Plugin files

**PluginFiles** has the plugin's modules, the protocol package it bundles, the
machine resources, `config.json` and `.config.json.tmp`. A file is absent, torn
(created and not yet complete) or whole. The installer goes through its phases
in the code's order (delete the directory, copy the plugin, copy the package,
write the configuration, copy the resources), within a phase file by file in any
order, and may be interrupted at any step. Cura imports the plugin, makes
devices only over a configuration that loads, saves a new address aside and
renames it, switches the registrar over, and may fail or be killed between any
two of these. `installed` and `expected` are history variables.

### E. Calls

**PrinterCalls** has the status poll of the Monitor tab, and programs that open
a `QidiLegacyClient`, connect, and call its methods one after the other:
`firmware_version`, `status`, `pause`, `resume`, `cancel`, `start_print`. `Begin`
opens a client, which is a new local port: a poll has one for itself
(`monitor_job.py:21`), so what an earlier poll left on the wire still reaches the
printer, but its answers reach nobody. `Ask` is a method called on the client that
is open. It opens nothing and says no hello (`client.py:239-258`), so requests
still under way and answers not yet read from earlier calls of that client meet
it; `probe` and `status` of the command line are a connect and one `Ask`, and
`tests/test_mock_integration.py:17-26` is a connect and several. An error ends a
program, because it leaves the `with` statement that holds the client.
`spare` is a history variable: an earlier call of this client sent a request more
than once, or had an answer doubled.

The printer prints: prints begin and end at its panel, are paused, cancelled and
started by the calls, and it answers with its state in one of three forms (that
of the i-Fast V3.40 begins with `ok`), with a file name in quotes, with `ok`, with
an error, with some other text, or with a handshake whose `U:'utf-8'` has quotes
too. Answers are judged by their text alone, as the code does: `StartsOk` is true
of a plain `ok`, of a handshake, a status, a name and a firmware text that begin
with it. An upload on the same client is module A; the answers that it may
leave unread are judged here like those above, by whether they begin with `ok` or
`error`.

## 3. Model checking

Run inside `tla/`: `tlc -workers 2 -config <run>.cfg <module>`, with the module
`PROJECT.json` gives for the run. Every passing run ends within about two minutes.

### Upload (`MCUploadSystem`)

| run | network and instance | what it shows |
|---|---|---|
| `upload_faults` | loss, late duplicates, detected damage, splices; 2 faults; 3 blocks (5 bytes by 2), 2 attempts, 2 resends; a local file that shrinks to 3 bytes and grows back; a stale handshake before a listing | `SuccessMeansComplete`, `SentOncePerResend`, `FailureCloses`, `ImplementsTransfer`, types, and the constant formulas `FramesAreExact`, `NamesAgree` |
| `upload_reordered` | also reordering; 2 blocks (4 bytes by 2), an older file of 4 bytes, a local file that shrinks and grows back, after which position 3 cannot be framed; 1 resend; fair client | `StoredInPlace`: whatever overtakes what, no byte is stored in the wrong place, except a spliced one; `Terminates` |

Three blocks are the smallest file with a first, a middle and a short last
block; two attempts are the smallest number that leaves a spare reply; two
resends let one request be obeyed twice and a third be refused; two faults let a
loss be hidden by a duplicate. `ResendAt` lets the printer ask for a position
whenever the block is at or past it; the gap check (`AskMissing`) adds its own.
`MaxOffset` stands for 2^32 - 1: in `upload_reordered` it is 2, below the size of
the file, so that after a short read, from a file that shrank and grew again, a
later position cannot be framed, and the upload has to fail and close instead of
wrapping; in the other runs it is out of the way.

`SuccessMeansComplete` is the claim that is left of "the file is there". It rests on
the final verification and not on the acknowledgements: a slow M28 is answered
twice, and the second `ok` acknowledges the first block, lost or not
(`AcknowledgedIsStored`, given to `upload_faults` as an invariant, is violated; it
holds for one attempt and no doubled reply, section 4). The same happens to M29 in
the run `stale_save_ack`. What then protects the user is that the following block
leaves a gap and is answered by a resend request, or that the size in the final
listing is short.

Against a splice nothing protects: it is acknowledged like any block, and the size
does not change. `SuccessMeansComplete` therefore leaves spliced bytes out. A splice
at another address is covered: there it leaves a gap or a short file, or overwrites
bytes that are then spliced ones. Without the exception the claim is false:
`SuccessMeansSource`, as the invariant of `stale_save_ack`'s instance with one
attempt and `Faults = {"splice"}`, is violated by one spliced block of an
upload that is acknowledged, saved and size checked. This is the incident of
2026-07-28.

`FramesAreExact` tries every payload of up to 3 bytes of 4 values at every
offset of 3 bytes, and every value in place of every byte of every frame. The
formats treat all bytes alike, so more values only repeat the cases: 4 values are
two bits, enough for the XOR to cancel a bit and not another, and the marker
is among them. `NamesAgree` tries every name of up to 5 symbols against a limit
of 12, which a stem and the extension pass and a longer name does not; 5 symbols
are enough for an extension, a second one, and what is stripped from both ends.
Neither formula has variables; each is stated as `Init => ...`, so that TLC
evaluates it in the initial states and not in every state.

### Session (`MCCuraSession`)

| run | instance | what it shows |
|---|---|---|
| `session` | 2 devices, 5 job slots, 1 deferred registration, 2 addresses (symmetric) | all safety properties of section 1, and `ImplementsAccess` |
| `session_live` | 1 device, fair | `UploadEnds`, `PollingResumes` |

Two devices are a registered one and a removed one whose workers are still
alive, the case the code finds hard; a device has at most one poll and one
upload, so 4 slots would do. `MaxDevices` bounds the devices made in a session
(registration stops at the bound), and `MaxSyncs` the deferred registrations
outstanding. A deferred registration looks at the state when it runs, so more
of them only repeat the step.

### Guided diagnostic (`MCGuidedTest`)

| run | instance | what it shows |
|---|---|---|
| `ztest` | 1 or 2 attempts, 2 losses, 2 retransmissions, any motion command refused, 2 cycles; the bed 3 below zero, lowered by 2, hops of 1 | `MovesAreUnwound` and `HopsEndAtBase` whatever the attempts; with one, `SingleKeepsReference`, `EndsWhereReported`, `CarriageMovesClear` |

Both programs run in one instance (`hot`), one loop of each stress phase; a
longer loop repeats the same commands. A deadlock check makes no sense here: a
program that has ended stops, and a prompt may never be answered.
Losses are what one attempt can meet; two retransmissions let two commands of a
test be executed twice. `PromptsSettle` is a modelling choice for counterexamples
only: it makes all datagrams arrive while a prompt waits for the operator, so
that a violation cannot rely on a reply that was slower than a human.

### Plugin files (`MCPluginFiles`)

| run | instance | what it shows |
|---|---|---|
| `installation` | 2 releases, 2 addresses and 2 plugin modules (each symmetric), 1 module of the package, 2 resources | `InstalledIsWhole`, `SavedIsDurable`, `DevicesNeedWholeCode`, `InUseIsSaved`, types |

Two releases are the old one and the new; two files of a kind let an
interruption fall between them. Nothing bounds how often an installation is begun
and stopped, nor the saves.

### Calls (`MCPrinterCalls`)

| run | instance | what it shows |
|---|---|---|
| `readings` | 2 files, 2 attempts, 3 calls, 1 print begun or ended, 1 fault (loss, duplicate or reordering); status with and without its third part, all answers to M4006, every form of refusal, a handshake that begins with `ok` | `StateIsRecent`, `NameIsRecent`, `ConfirmedIsObeyed`, `StatusSurvivesName`, `CallEnds`, types |

Three calls (`MaxCalls`) are a connect, a call that leaves an answer to spare and a
control call that meets it, or a poll that leaves its requests to two others. A
print begun or ended at the panel (`MaxPrints`) falls between status and name;
`start` and `cancel` add their own.

`ConfirmedIsObeyed` has a condition, and the condition is the point: a confirmation
can be trusted when nothing on this client was sent or answered twice before the call,
however late, lost or repeated the datagrams of the call itself are. Without it,
the run `stale_ok_confirms` finds a confirmed command that was never obeyed.

### Fairness

- Upload and calls: `WF_vars(Client)`. Each wait in `transport.py` has a timeout,
  attempts and resends are bounded, so the thread always has a next step. Nothing
  is assumed of the printer or of the network.
- Session: a worker ends (`Terminates` and `CallEnds` of modules A and E); a free
  lock is given to some waiter, for each of them eventually; the event loop runs
  the timer and the callbacks of the *registered* device. A removed device owes
  nothing (its callbacks may be collected with it), nor does the user.
- Strong fairness is not needed, because in the one-device instance an upload
  waits for at most one poll (`PollsOvertake`), after which no other competes
  for the lock. With several devices the lock, which is not fair, might starve a
  job; nothing in the code prevents that, and nothing is claimed.

### Where the code and its documentation part

Each of these runs is expected to find its property violated; `PROJECT.json`
quotes the sentence and the line.

| run | disagreement |
|---|---|
| `stale_save_ack` | "M29 must confirm that the destination file was saved", but any `ok` will do, and an old one stands in for a lost M29: success with the file still open |
| `stale_ok_confirms` | the integration test takes the `ok` to `start_print` for obedience; any text that begins with `ok` confirms, and the second answer to a slow handshake does so for a control command still on the wire |
| `setting_lost` | "A manual pause blocks ... until communication is resumed", but the setting lives in the device, and a device made later does not know it |
| `grant_shared` | "another client may now use the printer exclusively", said while a worker of a removed device talks to it |
| `ztest_bed_past_reference` | relative motion "was removed", but the clearance and return moves are still relative and retried: after a slow answer the return move runs twice and the bed rises past the reference |

One that the repository states itself is not among the runs. An upload that was
acknowledged block by block and passed the size check left other bytes in the
printer (`docs/transport-integrity-incident-2026-07-28.md`), and
`src/README.md:143` says that the checks "do **not establish content integrity**";
`tests/test_mock_integration.py:22-24` compares the bytes after a verified upload,
which holds as long as nothing is spliced. The model has such executions
(`SuccessMeansSource`, above), and the theorem `SuccessIsWhole` says that, on a path
that keeps the order of datagrams and without an older file of the name, they are the
only ones.

Smaller ones of the same kind, which the models show too (the formula in
parentheses, as an invariant or property of the run's instance), are kept out of
the list of runs:

- `client.py:276`: `docs/architecture.md:46` says "Failed uploads attempt to
  close the remote file handle", but the `try` begins after M28: obeyed and
  unanswered, it leaves the file open and no M29 is tried
  (`pc = "done" /\ result = "failed" /\ remoteOpen => lastSent # "create"`).
- `client.py:305` says "the partial remote file was closed" before the close is
  even sent, and the close may be lost
  (`pc = "done" /\ result = "unanswered" /\ requests = <<>> => ~remoteOpen`).
- `client.py:140`, `client.py:214`: a name of 115 to 120 characters without an
  extension is accepted, uploaded under a longer one, and refused by the
  verification after the upload (`CheckedNamesStay` without its condition on
  `Size`).
- `plugin.py:203`: a registrar made by an address change during a pause makes
  paused devices from then on, after the user has enabled communication again
  (`wanted /\ current # 0 => ~devices[current].paused`, three devices).
- `plugin.py:184`: the address is not changed "during a QIDI upload", but only
  the registered device is asked, and a removed one may be uploading
  (`[][config' # config => \A d \in Devices : Live("upload", d) = {}]_vars`).
- `monitor_job.py:21`: a handshake that comes twice, read as the answer to M4000,
  shows the state *Unknown* for one poll (`verdict = "read" /\ call = "poll" =>
  reading.state # "Unknown"`, with `StatusForms = {"full"}`).
- A `config.json` that cannot be read keeps the address dialog shut, so it cannot
  be repaired from Cura; the installer writes it in place (`WriteConfig`), so a
  crash of the installer may leave it so.
- `cli.py:143`: G91 is sent before the `try`, so when it is obeyed but unanswered
  the test ends without trying G90 (`pc \in Ends => mode = "absolute"`), although
  `_relative_z_move` is documented as "always trying to restore absolute
  positioning".
- With two attempts, a stale answer can hide a lost clearance move, and a stress
  phase runs over a bed that was not lowered (`CarriageMovesClear` without its
  condition `retries = 1`, on the instance of `ztest_bed_past_reference` with one
  loss).

## 4. Proofs

Proved from the assumptions of the modules, for every value of the constants.
An assumption beyond them is named.

### Upload

`UploadSystemProof`, for every file size, block size,
number of attempts, resends and faults, and every way the printer may answer
that the constants allow:

| theorem | statement | assumes |
|---|---|---|
| `TypeCorrect` | `Spec => []TypeOK` | - |
| `BlocksSentOnce` | `Spec => []SentOncePerResend` | - |
| `EveryByteInPlace` | `Spec => []StoredInPlace` | - (any fault, reordering and splices included) |
| `FailuresClose` | `Spec => []FailureCloses` | - |
| `SuccessHasSize` | `Spec => []SuccessMeansSize` | datagrams do not overtake each other |
| `SuccessIsComplete` | `Spec => []SuccessMeansComplete` | the same, and no older file of the name |
| `SuccessIsWhole` | `Spec => []SuccessMeansSource` | the same two, and the checksum detects all damage (no splices) |
| `UploadImplementsTransfer` | `Spec => ImplementsTransfer` | datagrams do not overtake each other |
| `AcknowledgedStored` | `Spec => []AcknowledgedIsStored` | one attempt per command, no doubled replies, no splices |
| `SuccessReplacesOlder` | `Spec => []SuccessMeansSource` | the same; whatever older file there was, and on a path that reorders |
| `SuccessIsSaved` | `Spec => []SuccessMeansSaved` | the same |

The argument. None of these properties is inductive; the invariant of the first
eight is the conjunction of five parts, stated at the end of `UploadSystem`:

- `SendsInv`: a block ahead of the current position has been sent at most once
  per resend request; the current one once more while its answer is awaited.
  Only a resend moves the position back, and it is counted.
- `InPlaceInv`: every block *on the wire*, late, doubled or overtaken, carries
  the bytes of its own offset, because the code seeks before it reads, or was
  spliced; and every other stored byte is in place, because a block that would leave a hole is refused.
- `ListingInv`: the request for the listing is the last datagram ever sent, so
  an `entry` in a reply, in the socket or among the collected lines says the
  *final* size. This is where order matters: a block that overtakes the listing
  request could still change the file after it was listed.
- `VerdictInv`: "uploaded" is said only when nothing is left on the wire and the
  size is right.
- `ClosingInv`: blocks are sent only while blocks are sent, M29 stands between
  them and the listing, and the program leaves either close only after an attempt
  of M29.

`SuccessIsComplete` follows from the second and the fourth: right length, every
byte in place, no old byte; and `SuccessIsWhole` where there is no spliced one
either. The refinement maps `StoreBlock` to `Write`,
`HandleCreate` to `Create`, the last line of the listing to `Accept` or
`Reject`, and everything else to a stutter; it needs `InPlaceInv` for the bytes
and `VerdictInv` for "the file is not touched again".

The last three rest on `OnceInv`. A command is sent once and a command without
an answer ends the protocol, so until the listing at most one datagram is on the
wire, the command or its answer (`OneOut`): whatever is in the queues is of the
*present* command (`AtStart` to `AtListing`, one part for each command). A reply
that acknowledges therefore says that this command was executed: M28 has emptied
the file, the block at `offset` is in it, M29 has closed it, the entry in the
listing is its final size. A printer that ends a block with a resend request
names a position it holds. The argument needs no order among datagrams, since
there is never more than one before the listing.

Why the assumptions are there. With retries or doubled replies an old `ok` can
acknowledge a lost block or a lost M29; `stale_save_ack` is such an execution,
so `SuccessIsSaved` is false without its assumption. A splice makes
`SuccessMeansSource` false (section 3), and at another address it leaves
the block's own place empty although it was acknowledged. With an older file of the
*same* size under the same name, a success can be reported although the old bytes
are still there: a stale `ok` answers M28, stale answers acknowledge the blocks, and the listing
shows the expected size. The size is all the code verifies, so `SuccessHasSize`
is what it can promise in that case. On a path that reorders datagrams, a block
may arrive after the listing was answered.

### Formats

`FormatsProof`, for any width of a byte and of an offset, payloads up to any
length, any marker, and names of any length with any limit:

| theorem | statement |
|---|---|
| `DamageDetected` | `DamageIsDetected` |
| `FramesExact` | `Spec => []FramesAreExact` |
| `NamesStay` | `CheckedNamesStay` |
| `NamesExact` | `Spec => []NamesAgree` |

The loop of the checksum is not unrolled: a bit of the checksum is the parity of
the number of bytes that have it, and a damaged byte changes that number by one
for some bit, or changes the checksum or marker itself. That the offset survives
is division with remainder: a bit's place is its byte and its place in the byte
(`DivisionIs`). For the names, what is needed of `strip` is that its result
begins and ends outside the stripped set (`StrippedIs`), and of `re.sub` that
what is replaced is gone (`ReplacedIs`), which follows from numbering a finite
set of positions (`Ranks`); a name that has the extension, no leading space, no
refused character and an admissible size is then accepted as it is
(`AcceptedAsIs`), and both programs make such names.

### Session

`CuraSessionProof`, `CuraJobsProof` and `CuraAccessProof`, for any number of
devices, job slots and addresses, with no further assumption:

| theorem | statement |
|---|---|
| `SessionTypes` | `Spec => []TypeOK`: among the rest, at most one device polls, and it is the registered one |
| `OneOnTheWire` | `Spec => []OneTalker` |
| `OnePollOvertakes` | `Spec => []PollsOvertake` |
| `PollsAreKnown` | `Spec => []MonitorTracked` |
| `UploadsAreExclusive` | `Spec => []ExclusiveWhileUploading` |
| `SilenceIsShown` | `Spec => []PausedShowsClosed` |
| `SourcesBelong` | `Spec => []SourceMatchesJobs` |
| `GrantsAreHonoured` | `Spec => []GrantHonoured` |
| `ClosedStaysQuiet` | `Spec => ClosedNeverStarts` |
| `SessionImplementsAccess` | `Spec => ImplementsAccess` |

The handlers are operators on session records and call each other, so the proofs
follow the calls. `Handled(s, t)` says that `t` has the types of `s`, the same
devices open and no further job on the wire; it is proved of each handler and
composes (`HandledTwice`). `Resettled` is its counterpart for the registrar,
where a device may be closed or made. An action is then one handler or one
registration applied to the present state, and only `Acquire` puts a job on the
wire. `TypeOK /\ OneTalker` is inductive.

For the rest it is not enough. `CuraJobsProof` adds `Tracked`, stated on session
records too: what a device remembers as its poll, its upload and its temporary
file are exactly its live jobs, a device that has gone silent says so, and at most one
poll has been served ahead of its upload. One handler touches one device and at
most one free slot, and gives a job only to a device that is open (`Follows`,
`Continues`), so the other devices keep their part of `Tracked`; the properties
are then read off these.

`CuraAccessProof` maps the state. The difficulty is that slots are anonymous and
the abstract jobs are a set: since a device has at most one job of a kind
(`Tracked`), two live slots have different *faces* (kind and device,
`FacesDiffer`), so taking and freeing a slot adds and removes one element. All
that is needed of the handlers is that they take a slot for a poll of the
registered device or none (`Grown`), and of the registrar which device is
registered after it (`Shifts`). Then every action is one of `Set`, `Register`,
`Deregister`, `AskUpload`, `Grant`, `Release` and `Report`, or a stutter.

### Guided diagnostic

`GuidedTestProof`, for all distances, numbers of cycles, attempts, retransmissions
and losses:

| theorem | statement | assumes |
|---|---|---|
| `TestTypes` | `Spec => []TypeOK` | - |
| `SectionsAreUnwound` | `Spec => []MovesAreUnwound` | - |
| `BedKeepsReference` | `Spec => []SingleKeepsReference` | no duplicated replies |
| `ReportsAreTrue` | `Spec => []EndsWhereReported` | no duplicated replies |
| `CarriageIsClear` | `Spec => CarriageMovesClear` | no duplicated replies |
| `HopsReturn` | `Spec => []HopsEndAtBase` | - (any number of attempts, any stale commands) |

`UnwindInv` is enough for the first two: in every script a G91 is followed by a
G90 (`Closed`), so while the client knows it has sent G91 a G90 is still ahead of
it, or the test ended on the G91 itself.

The next three need to know where the bed is, and the scripts have no bounded
length, so the proof cannot follow them command by command. The invariant carries
a *plan*: a height and a positioning mode for every place of the rest of the
script, each reached from the one before by the command between them, and each
allowed: never past the reference, a carriage move only where the bed is lowered
and the mode absolute, a probe only where it is lowered. Plans of two pieces are
joined (`LeadsJoin`), a plan that ends where it begins repeats any number of
times (`LeadsRepeat`), and the rest of a script has the rest of its plan
(`LeadsTail`). With one attempt and no doubled answer, at most one datagram of
the present command is out, so the bed is at the start of the plan until that
command is executed and at the start of its rest from then on; what a failed
command leaves behind can move nothing else (`Harmless`: only the first datagram
on the wire may move anything).

The assumption of these three is needed: a doubled answer stands in for a lost command even with
one attempt, and TLC then finds `SingleKeepsReference` violated.

`HopsReturn` is about retries, where nobody knows what else is on the wire, so
`HopsInv` speaks of the queue as a whole. The property allows one loss or one
doubling, so while no fault has happened any one command may be *doomed*. The
hops end with the same absolute move twice, after G90 sent twice: once by the
script that lowers the bed and once by that of the hops. The invariant says that
even without the doomed command every G91 that may still take effect is followed
by a G90 (`StraightWithout`), and that from the moment the last move has been
sent, the bed will be at the base and rest there once the queue is empty
(`HomeWithout`). Each is kept by adding a command to the queue, which can only
be a repeated one or the next of the script (`Hopping`), and by taking one from it.

### Plugin files

`PluginFilesProof`, for any sets of modules, resources, releases and addresses:
`FilesTypes`, `CompleteInstallation` (`InstalledIsWhole`), `DurableAddress`
(`SavedIsDurable`), `WholeCodeForDevices` (`DevicesNeedWholeCode`) and
`AddressInUse` (`InUseIsSaved`). The inductive invariant adds to these: Cura and
the installer exclude each other (`Alone`), what is running has an address that
was loaded (`Running`), there is no configuration while modules are being copied
(`Unconfigured`), a file the phase has done with is whole and of the release
(`Copied`), next to a `config.json`, whole or torn, every module is of one
release or deleted (`OneRelease`), and the renamed file was complete
(`SaveOrder`).

### Calls

`PrinterCallsProof`, for any printer, network and number of attempts and
calls:

| theorem | statement |
|---|---|
| `CallsTypes` | `Spec => []TypeOK` |
| `RecentState` | `Spec => []StateIsRecent` |
| `RecentName` | `Spec => []NameIsRecent` |
| `ConfirmationsHold` | `Spec => []ConfirmedIsObeyed` |
| `StatusIsKept` | `Spec => StatusSurvivesName` |

Three invariants. `Fresh`: every answer in the queue of the present socket was
given since its client was opened, so it speaks of a job that was seen; the requests of
earlier polls are still on the wire, but of another socket. `Single` (part of it): as
long as nothing on this client has been sent or answered twice, at most one of its
datagrams is out, so the next call begins with a clean socket and every `ok` it
reads is about its own command, however often that is then sent. `Told` is about
names: on a wire without faults handshakes stand first among
the requests and among the answers (`Orderly`), so none is left when a poll has
gone on to what has quotes in it, unless the handshake was sent twice.
`ConfirmationsHold` is stated for any sequence of calls on one client; that its
exception is needed is the run `stale_ok_confirms`.

### Only model-checked

Every invariant and action property of the passing runs, and both refinements, are
stated by theorems. Liveness is not: `Terminates`, `UploadEnds`,
`PollingResumes` and `CallEnds` are out of this prover's reach. Nor is it proved
that the disagreements of section 3 exist; TLC shows an execution for each.

## 5. Abstractions

Left out of the modelled parts, with the reason:

- Empty datagrams and socket errors (a lost datagram and a failed command
  respectively), the limit of 4096 datagrams that `request` discards (the wire
  never holds so many), and the clock: a timeout is possible at any time.
- Other files in the listing, and an edit that replaces bytes of the local file
  without changing its length: the code looks at neither.
- Ctrl-C a second time, inside a `finally` clause.
- A splice changes all bytes of a block, to bytes that are not the source's; one that
  changes some of them, or mixes bytes of two places, is stored in the same way and
  the properties do not tell them apart.
- A printer that answers M114 while moves are queued: a move is over when it is
  answered, so a position is that of the moves before it.
- Of a status only what a decision depends on is kept: the third part of `D`
  (idle, printing or missing), the quoted name, the firmware text; temperatures,
  positions and percentages are only shown. The encoding a handshake announces
  is taken to be one that decodes.
- In names, the characters the plugin replaces (`output_device.py:29`) and those the
  client refuses (`client.py:20`) are the same set, one symbol.
- Loss of power: a file that was written and renamed stays, as the code calls no
  `fsync`. Every release has the same files. Package markers and permissions of
  the installed files are left out.
- Messages, progress bars, sounds, window attention, QML and metadata.
- A temporary file whose preparation fails is left behind by the code. The model
  keeps it as `NoJob` in `disk`, owned by no job; no property speaks of it.
- In the session `config.json` is reduced to the address in use and to whether it
  can be read; module D has the file.

Not modelled, with the reason:

- *Discovery*: one loop that broadcasts until a deadline and keeps the last answer
  of each address. It shares no state with the rest and only prints its result.
- *Notifications, QML view, machine resources, exceptions*: display, static data
  and declarations; nothing in them decides what is sent or stored.
- *The free-form command* of the command line: any text, any answer.
- *`build_zip`* of the installer: it stages into a fresh directory and keeps no
  state.

## 6. Plan

Done: modules A to E, their runs, the refinements of A and B, and the theorems of
section 4.

Left, in this order:

1. Two sessions against one printer: the command line beside Cura, which nothing
   but the user's pause keeps apart.
2. Discovery, if its answers are ever used for more than printing.
