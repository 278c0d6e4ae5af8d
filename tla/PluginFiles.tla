----------------------------- MODULE PluginFiles -----------------------------
(***************************************************************************)
(* The plugin on disk: the installer that deletes and copies it, the       *)
(* configuration the running plugin replaces, and a crash of either        *)
(* between any two steps.  A file is absent, torn (created and not yet     *)
(* completely written) or whole.  Cura is closed while the installer runs. *)
(***************************************************************************)

CONSTANTS
    Releases,        \* versions of the repository that may be installed
    Addresses,       \* printer addresses
    PluginModules,   \* modules of cura_plugin/QidiLegacyNetwork, and those of
    ProtocolModules, \* qidi_legacy, without which the plugin cannot be imported
    Resources,       \* machine definitions and quality profiles
    Absent,
    Torn

ASSUME FilesAssumption ==
    /\ Absent \notin Releases \cup Addresses
    /\ Torn \notin Releases \cup Addresses
    /\ Absent # Torn

VARIABLES
    code,        \* content of each module of the plugin directory
    resources,   \* content of each resource in Cura's configuration folder
    conf,        \* config.json
    temp,        \* .config.json.tmp
    installer,   \* phase, what it installs, and the files the phase has left
    cura,        \* is Cura running, with which address are devices made
    update,      \* the address dialog being saved: step and new address
    installed,   \* history: the release last installed to the end, or Absent
    expected     \* history: addresses the user may find configured

vars == <<code, resources, conf, temp, installer, cura, update, installed,
          expected>>

Modules == PluginModules \cup ProtocolModules
Content == Releases \cup {Absent, Torn}
Setting == Addresses \cup {Absent, Torn}

Resting == [phase |-> "idle", release |-> Absent, address |-> Absent,
            left |-> {}]
Closed == [running |-> FALSE, address |-> Absent]
NoUpdate == [step |-> "none", address |-> Absent]

Init ==
    /\ code = [f \in Modules |-> Absent]
    /\ resources = [f \in Resources |-> Absent]
    /\ conf = Absent
    /\ temp = Absent
    /\ installer = Resting
    /\ cura = Closed
    /\ update = NoUpdate
    /\ installed = Absent
    /\ expected = {}

(***************************************************************************)
(* The installer                                                           *)
(***************************************************************************)

KeepsExisting(phase) ==   \* slip: a resource that is already there is kept
    CASE phase = "delete" -> Modules
      [] phase = "plugin" -> PluginModules
      [] phase = "protocol" -> ProtocolModules
      [] phase = "config" -> {}
      [] phase = "resources" -> {f \in Resources : resources[f] = Absent}

\* What each phase has to do, file by file and in any order.
Work(phase) ==
    CASE phase = "delete" -> Modules
      [] phase = "plugin" -> PluginModules
      [] phase = "protocol" -> ProtocolModules
      [] phase = "config" -> {}
      [] phase = "resources" -> Resources

ConfigFirst(phase) ==   \* slip: config.json is written before the modules
    CASE phase = "delete" -> "config"
      [] phase = "config" -> "plugin"
      [] phase = "plugin" -> "protocol"
      [] phase = "protocol" -> "resources"

Following(phase) ==
    CASE phase = "delete" -> "plugin"
      [] phase = "plugin" -> "protocol"
      [] phase = "protocol" -> "config"
      [] phase = "config" -> "resources"

Enter(phase) ==
    installer' = [installer EXCEPT !.phase = phase, !.left = Work(phase)]

Install(release, address) ==
    /\ installer.phase = "idle"
    /\ ~cura.running
    /\ installer' = [phase |-> "delete", release |-> release,
                     address |-> address, left |-> Work("delete")]
    /\ installed' = Absent
    /\ UNCHANGED <<code, resources, conf, temp, cura, update, expected>>

\* shutil.rmtree: the modules, config.json and its temporary file, one by one.
Delete ==
    /\ installer.phase = "delete"
    /\ \/ \E f \in installer.left :
              /\ code' = [code EXCEPT ![f] = Absent]
              /\ installer' = [installer EXCEPT !.left = @ \ {f}]
              /\ UNCHANGED <<conf, temp>>
       \/ conf # Absent /\ conf' = Absent /\ UNCHANGED <<code, temp, installer>>
       \/ temp # Absent /\ temp' = Absent /\ UNCHANGED <<code, conf, installer>>
    /\ UNCHANGED <<resources, cura, update, installed, expected>>

\* A file is created empty, then filled.
Written(old, new) == IF old = Torn THEN new ELSE Torn

CopyModule ==
    /\ installer.phase \in {"plugin", "protocol"}
    /\ \E f \in installer.left :
           /\ code' = [code EXCEPT ![f] = Written(@, installer.release)]
           /\ installer' = IF code[f] = Torn
                           THEN [installer EXCEPT !.left = @ \ {f}]
                           ELSE installer
    /\ UNCHANGED <<resources, conf, temp, cura, update, installed, expected>>

\* shutil.copy2 of one resource over whatever is there; the file is torn
\* until it is complete.
CopyResource ==
    /\ installer.phase = "resources"
    /\ \E f \in installer.left :
           /\ resources' = [resources EXCEPT ![f] = Written(@, installer.release)]
           /\ installer' = IF resources[f] = Torn
                           THEN [installer EXCEPT !.left = @ \ {f}]
                           ELSE installer
    /\ UNCHANGED <<code, conf, temp, cura, update, installed, expected>>

\* write_text in place: this file may be torn by a crash, the plugin's own
\* save may not.
WriteConfig ==
    /\ installer.phase = "config"
    /\ conf # installer.address
    /\ conf' = Written(conf, installer.address)
    /\ UNCHANGED <<code, resources, temp, installer, cura, update, installed,
                   expected>>

PhaseDone ==
    /\ installer.phase # "idle"
    /\ installer.left = {}
    /\ installer.phase = "delete" => conf = Absent /\ temp = Absent
    /\ installer.phase = "config" => conf = installer.address
    /\ IF installer.phase = "resources"
       THEN /\ installer' = Resting
            /\ installed' = installer.release
            /\ expected' = {installer.address}
       ELSE Enter(Following(installer.phase)) /\ UNCHANGED <<installed, expected>>
    /\ UNCHANGED <<code, resources, conf, temp, cura, update>>

Installing == Delete \/ CopyModule \/ CopyResource \/ WriteConfig \/ PhaseDone

StopsResumable ==   \* slip: a stopped installer remembers what it had left
    /\ installer.phase # "idle"
    /\ installer' = [installer EXCEPT !.phase = "idle"]
    /\ UNCHANGED <<code, resources, conf, temp, cura, update, installed, expected>>

\* An exception, Ctrl-C or a crash: everything stays as it is.
Interrupted ==
    /\ installer.phase # "idle"
    /\ installer' = Resting
    /\ UNCHANGED <<code, resources, conf, temp, cura, update, installed, expected>>

(***************************************************************************)
(* Cura and the plugin's configuration                                     *)
(***************************************************************************)

\* Cura starts and imports the plugin: a missing module fails the import, a
\* torn one may.  Devices are made only with a configuration that loads.
StartCura ==
    /\ ~cura.running
    /\ installer.phase = "idle"
    /\ \E imported \in BOOLEAN :
           /\ imported => \A f \in Modules : code[f] # Absent
           /\ cura' = [running |-> TRUE,
                       address |-> IF imported /\ conf \in Addresses
                                   THEN conf ELSE Absent]
    /\ UNCHANGED <<code, resources, conf, temp, installer, update, installed,
                   expected>>

\* The address dialog, which a configuration that cannot be read keeps shut,
\* is saved with an address that build_config accepts.
BeginUpdate(address) ==
    /\ cura.address # Absent
    /\ update.step = "none"
    /\ update' = [step |-> "write", address |-> address]
    /\ expected' = {cura.address, address}
    /\ UNCHANGED <<code, resources, conf, temp, installer, cura, installed>>

SavesInPlace ==   \* slip: save_config writes config.json itself
    /\ conf' = Written(conf, update.address)
    /\ temp' = update.address

SavesAside ==
    /\ temp' = Written(temp, update.address)
    /\ UNCHANGED conf

WriteTemporary ==
    /\ update.step = "write"
    /\ SavesAside
    /\ update' = IF temp = Torn THEN [update EXCEPT !.step = "replace"]
                 ELSE update
    /\ UNCHANGED <<code, resources, installer, cura, installed, expected>>

Replace ==
    /\ update.step = "replace"
    /\ conf' = temp
    /\ temp' = Absent
    /\ update' = [update EXCEPT !.step = "switch"]
    /\ UNCHANGED <<code, resources, installer, cura, installed, expected>>

KeepsRegistrar(address) == cura   \* slip: the old registrar is kept

\* The old devices are removed and a new registrar makes the next ones.
Registrar(address) == [cura EXCEPT !.address = address]

SwitchOver ==
    /\ update.step = "switch"
    /\ cura' = Registrar(update.address)
    /\ update' = NoUpdate
    /\ expected' = {update.address}
    /\ UNCHANGED <<code, resources, conf, temp, installer, installed>>

\* An OSError while saving: the dialog shows it and nothing has changed.
SaveFails ==
    /\ update.step \in {"write", "replace"}
    /\ update' = NoUpdate
    /\ expected' = {cura.address}
    /\ UNCHANGED <<code, resources, conf, temp, installer, cura, installed>>

\* Cura is closed or killed, in the middle of a save too.
EndCura ==
    /\ cura.running
    /\ cura' = Closed
    /\ update' = NoUpdate
    /\ UNCHANGED <<code, resources, conf, temp, installer, installed, expected>>

Saving == WriteTemporary \/ Replace \/ SwitchOver \/ SaveFails

Next ==
    \/ \E release \in Releases, address \in Addresses : Install(release, address)
    \/ Installing
    \/ Interrupted
    \/ StartCura
    \/ \E address \in Addresses : BeginUpdate(address)
    \/ Saving
    \/ EndCura

Spec == Init /\ [][Next]_vars

(***************************************************************************)
(* Properties                                                              *)
(***************************************************************************)

Phases == {"delete", "plugin", "protocol", "config", "resources"}

\* The variables have their types.
TypeOK ==
    /\ code \in [Modules -> Content]
    /\ resources \in [Resources -> Content]
    /\ conf \in Setting
    /\ temp \in Setting
    /\ installer \in [phase : Phases, release : Releases, address : Addresses,
                      left : SUBSET (Modules \cup Resources)] \cup {Resting}
    /\ cura \in [running : BOOLEAN, address : Addresses \cup {Absent}]
    /\ update \in [step : {"write", "replace", "switch"}, address : Addresses]
                  \cup {NoUpdate}
    /\ installed \in Releases \cup {Absent}
    /\ expected \subseteq Addresses

\* After an installation that ended, whatever earlier ones left half done,
\* every file is whole and of that release.
InstalledIsWhole ==
    installed # Absent =>
        /\ \A f \in Modules : code[f] = installed
        /\ \A f \in Resources : resources[f] = installed

\* config.py:69, "Atomically persist configuration so Cura never observes a
\* partial JSON file": from a complete installation on, whenever Cura or the
\* save fails, config.json holds the address last in use or the one that was
\* being saved.
SavedIsDurable == installed # Absent => conf \in expected

\* Devices exist only over a complete plugin of one release, although an
\* installation may have stopped anywhere: config.json is gone before a module
\* is copied and comes back after the last.
DevicesNeedWholeCode ==
    cura.address # Absent =>
        \E release \in Releases : \A f \in Modules : code[f] = release

\* The devices talk to the address on disk, so that a restart changes
\* nothing, also after a save that failed; only while the dialog is being
\* saved is the disk ahead of them.
InUseIsSaved ==
    cura.address # Absent /\ update.step # "switch" => conf = cura.address
=============================================================================
