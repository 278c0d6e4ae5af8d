----------------------------- MODULE QidiPlugin -----------------------------
(***************************************************************************)
(* QidiLegacyNetworkPlugin and its OutputDeviceRegistrar: which device is  *)
(* registered with Cura, and what the user, the active machine and the     *)
(* start and end of the session do to it.  Everything here runs on the UI  *)
(* thread; registration is deferred by zero-delay timers (syncs).          *)
(***************************************************************************)
EXTENDS OutputDevice

CONSTANTS
    Addresses,    \* printer addresses the user may configure
    MaxSyncs      \* bound on the deferred registrations outstanding

ASSUME PluginAssumption ==
    /\ Addresses # {}
    /\ MaxSyncs \in Nat

VARIABLES
    made,        \* devices created so far
    current,     \* the device registered as qidi_legacy_upload, 0 if none
    started,     \* _started
    signals,     \* connected to Cura's machine and window signals
    registrar,   \* "none", or whether it creates devices "active" or "paused"
    config,      \* the printer's address
    stack,       \* Cura's active machine: "none", "gcode" or "other"
    syncs,       \* deferred registrations outstanding
    wanted,      \* history: what the user last asked for (enabled or not)
    granted      \* history: device that last told the user to go ahead

pluginVars == <<made, current, started, signals, registrar, config, stack,
                syncs, wanted, granted>>
vars == <<jobs, devices, disk, pluginVars>>

PluginInit ==
    /\ DeviceInit
    /\ made = 0
    /\ current = 0
    /\ started = FALSE
    /\ signals = FALSE
    /\ registrar = "none"
    /\ config \in Addresses
    /\ stack \in {"none", "gcode"}
    /\ syncs = 0
    /\ wanted = TRUE
    /\ granted = 0

\* The session record the methods work on, and making one the next state.
Now == [devices |-> devices, jobs |-> jobs, disk |-> disk, made |-> made,
        current |-> current]

Become(s) ==
    /\ devices' = s.devices
    /\ jobs' = s.jobs
    /\ disk' = s.disk
    /\ made' = s.made
    /\ current' = s.current

(***************************************************************************)
(* OutputDeviceRegistrar                                                   *)
(***************************************************************************)

ForgetsToClose(s) == [s EXCEPT !.current = 0]   \* slip: close is not called

Remove(s) ==
    IF s.current = 0 THEN s
    ELSE [Close(s, s.current) EXCEPT !.current = 0]

Register(s, paused) ==
    Construct([s EXCEPT !.made = @ + 1, !.current = s.made + 1],
              s.made + 1, paused)

\* A device is kept across routine signals, and removed with its machine.
Sync(s, paused) ==
    IF stack = "none" THEN s
    ELSE IF stack = "other" THEN Remove(s)
    ELSE IF s.current = 0 /\ s.made < MaxDevices THEN Register(s, paused)
    ELSE s

(***************************************************************************)
(* The life of the plugin                                                  *)
(***************************************************************************)

\* _ensure_registrar; loads says whether config.json can be read.
Ensured(loads) ==
    IF registrar = "none" /\ loads THEN "active" ELSE registrar

SyncDevices(reg) ==
    IF reg = "none" THEN Now ELSE Sync(Now, reg = "paused")

Defer(n) == syncs' = IF syncs + n <= MaxSyncs THEN syncs + n ELSE MaxSyncs

Start(loads) ==
    /\ ~started
    /\ made = 0
    /\ started' = TRUE
    /\ registrar' = Ensured(loads)
    /\ IF registrar' = "none"
       THEN UNCHANGED <<signals, syncs>>
       ELSE signals' = TRUE /\ Defer(2)
    /\ UNCHANGED <<jobs, devices, disk, made, current, config, stack, wanted,
                   granted>>

MachineChanges(to) ==
    /\ stack # to
    /\ stack' = to
    /\ IF signals THEN Defer(1) ELSE UNCHANGED syncs
    /\ UNCHANGED <<jobs, devices, disk, made, current, started, signals,
                   registrar, config, wanted, granted>>

\* A deferred registration runs; after stop it does nothing.
DeferredSync(loads) ==
    /\ syncs > 0
    /\ syncs' = syncs - 1
    /\ IF started
       THEN registrar' = Ensured(loads) /\ Become(SyncDevices(registrar'))
       ELSE UNCHANGED <<registrar, jobs, devices, disk, made, current>>
    /\ UNCHANGED <<started, signals, config, stack, wanted, granted>>

RefreshNow(loads) ==
    /\ started' = TRUE
    /\ registrar' = Ensured(loads)
    /\ Become(SyncDevices(registrar'))
    /\ UNCHANGED <<signals, config, stack, syncs, wanted, granted>>

\* communication_enabled refreshes first when no device is registered.
Managed(loads) == IF current = 0 THEN SyncDevices(Ensured(loads)) ELSE Now

\* The communication dialog is saved with a new setting.
SetEnabled(enabled, loads) ==
    LET s == Managed(loads)
    IN  /\ started' = (started \/ current = 0)
        /\ registrar' = IF current = 0 THEN Ensured(loads) ELSE registrar
        /\ IF s.current = 0 \/ enabled = ~s.devices[s.current].paused
           THEN Become(s) /\ UNCHANGED <<wanted, granted>>
           ELSE /\ wanted' = enabled
                /\ granted' = IF ~enabled /\ GrantsAccess(s.devices[s.current])
                              THEN s.current ELSE 0
                /\ Become(IF enabled THEN Resume(s, s.current)
                          ELSE Pause(s, s.current))
        /\ UNCHANGED <<signals, config, stack, syncs>>

\* The address dialog is saved; the devices are recreated at once.
UpdateConfiguration(address) ==
    LET busy == current # 0 /\ devices[current].uploading
        paused == current # 0 /\ devices[current].paused
        removed == IF registrar = "none" THEN Now ELSE Remove(Now)
    IN  /\ ~busy
        /\ config' = address
        /\ registrar' = IF paused THEN "paused" ELSE "active"
        /\ started' = TRUE
        /\ Become(Sync(removed, paused))
        /\ UNCHANGED <<signals, stack, syncs, wanted, granted>>

Stop ==
    /\ started
    /\ started' = FALSE
    /\ signals' = FALSE
    /\ Become(IF registrar = "none" THEN Now ELSE Remove(Now))
    /\ UNCHANGED <<registrar, config, stack, syncs, wanted, granted>>
=============================================================================
