--------------------------- MODULE PluginFilesProof ---------------------------
(***************************************************************************)
(* The properties of PluginFiles for any releases, addresses and files.    *)
(***************************************************************************)
EXTENDS PluginFiles, TLAPS

(***************************************************************************)
(* The inductive invariant                                                 *)
(***************************************************************************)

\* The installer has the disk to itself, and no finished installation exists
\* while it runs.
Alone ==
    installer.phase # "idle" =>
        cura = Closed /\ update = NoUpdate /\ installed = Absent

\* Only a running Cura has devices, and only one with devices saves.
Running ==
    /\ ~cura.running => cura = Closed
    /\ cura.address = Absent => update = NoUpdate

\* config.json is gone while modules are copied.
Unconfigured ==
    installer.phase \in {"plugin", "protocol"} => conf = Absent /\ temp = Absent

\* What each phase has copied so far is of the installer's release.
Copied ==
    /\ installer.phase = "plugin" =>
           \A f \in PluginModules \ installer.left : code[f] = installer.release
    /\ installer.phase = "protocol" =>
           \A f \in Modules \ installer.left : code[f] = installer.release
    /\ installer.phase \in {"config", "resources"} =>
           \A f \in Modules : code[f] = installer.release
    /\ installer.phase = "resources" =>
           /\ conf = installer.address
           /\ \A f \in Resources \ installer.left :
                  resources[f] = installer.release

\* Next to a config.json, whole or not, every module is of one release, or
\* has been deleted.
OneRelease ==
    conf # Absent =>
        \E release \in Releases : \A f \in Modules : code[f] \in {release, Absent}

\* The steps of a save.
SaveOrder ==
    /\ update.step = "replace" => temp = update.address
    /\ update.step = "switch" => conf = update.address
    /\ update.step \in {"write", "replace"} => update.address \in expected

IInv ==
    /\ TypeOK
    /\ Alone
    /\ Running
    /\ Unconfigured
    /\ Copied
    /\ OneRelease
    /\ SaveOrder
    /\ InstalledIsWhole
    /\ SavedIsDurable
    /\ DevicesNeedWholeCode
    /\ InUseIsSaved

(***************************************************************************)
(* Each action keeps it                                                    *)
(***************************************************************************)

\* A busy installer is a record with its four fields.
Busy == [phase : Phases, release : Releases, address : Addresses,
         left : SUBSET (Modules \cup Resources)]

LEMMA BusyTyped ==
    ASSUME TypeOK, installer.phase # "idle"
    PROVE  installer \in Busy
  BY DEF TypeOK, Busy, Resting

\* The phases one after the other, with what each begins with.
Entered(phase, left) ==
    [phase |-> phase, release |-> installer.release,
     address |-> installer.address, left |-> left]

Order ==
    /\ installer \in Busy
    /\ \/ installer.phase = "delete" /\ installer' = Entered("plugin", PluginModules)
       \/ installer.phase = "plugin" /\ installer' = Entered("protocol", ProtocolModules)
       \/ installer.phase = "protocol" /\ installer' = Entered("config", {})
       \/ installer.phase = "config" /\ installer' = Entered("resources", Resources)
       \/ installer.phase = "resources" /\ installer' = Resting

LEMMA PhaseOrder ==
    ASSUME TypeOK, PhaseDone
    PROVE  Order
  <1>1. installer \in Busy
    BY BusyTyped DEF PhaseDone
  <1>2. installer.phase \in Phases
    BY <1>1 DEF Busy
  <1>3. installer.phase = "resources" \/ installer' =
            Entered(Following(installer.phase), Work(Following(installer.phase)))
    BY <1>1 DEF PhaseDone, Enter, Entered, Busy
  <1>4. /\ Following("delete") = "plugin" /\ Work("plugin") = PluginModules
        /\ Following("plugin") = "protocol" /\ Work("protocol") = ProtocolModules
        /\ Following("protocol") = "config" /\ Work("config") = {}
        /\ Following("config") = "resources" /\ Work("resources") = Resources
    BY DEF Following, Work
  <1>5. installer.phase = "resources" => installer' = Resting
    BY DEF PhaseDone
  <1>6. QED
    BY <1>1, <1>2, <1>3, <1>4, <1>5 DEF Phases, Order

LEMMA InstallationKeeps ==
    ASSUME IInv, NEW release \in Releases, NEW address \in Addresses,
           Install(release, address)
    PROVE  IInv'
  <1> USE FilesAssumption DEF IInv
  <1>1. TypeOK'
    BY DEF Install, Work, TypeOK, Phases
  <1>2. Alone'
    BY DEF Install, Alone, Running, Closed
  <1>3. Running'
    BY DEF Install, Running
  <1>4. Unconfigured'
    BY DEF Install, Unconfigured
  <1>5. Copied'
    BY DEF Install, Copied
  <1>6. OneRelease'
    BY DEF Install, OneRelease
  <1>7. SaveOrder'
    BY DEF Install, SaveOrder
  <1>8. InstalledIsWhole'
    BY DEF Install, InstalledIsWhole
  <1>9. SavedIsDurable'
    BY DEF Install, SavedIsDurable
  <1>10. DevicesNeedWholeCode'
    BY DEF Install, DevicesNeedWholeCode
  <1>11. InUseIsSaved'
    BY DEF Install, InUseIsSaved
  <1>12. QED
    BY <1>1, <1>2, <1>3, <1>4, <1>5, <1>6, <1>7, <1>8, <1>9, <1>10, <1>11

LEMMA DeletionKeeps ==
    ASSUME IInv, Delete
    PROVE  IInv'
  <1> USE FilesAssumption DEF IInv
  <1>0. installer \in Busy
    BY BusyTyped DEF Delete, TypeOK
  <1>1. TypeOK'
    BY <1>0 DEF Busy, Delete, TypeOK, Content, Setting
  <1>2. Alone'
    BY <1>0 DEF Delete, Alone
  <1>3. Running'
    BY <1>0 DEF Delete, Running
  <1>4. Unconfigured'
    BY <1>0 DEF Busy, Delete, Unconfigured
  <1>5. Copied'
    BY <1>0 DEF Busy, Delete, Copied
  <1>6. OneRelease'
    BY <1>0 DEF Delete, OneRelease, TypeOK
  <1>7. SaveOrder'
    BY <1>0 DEF Delete, SaveOrder, Alone, NoUpdate
  <1>8. InstalledIsWhole'
    BY <1>0 DEF Delete, InstalledIsWhole, Alone
  <1>9. SavedIsDurable'
    BY <1>0 DEF Delete, SavedIsDurable, Alone
  <1>10. DevicesNeedWholeCode'
    BY <1>0 DEF Delete, DevicesNeedWholeCode, Alone, Closed
  <1>11. InUseIsSaved'
    BY <1>0 DEF Delete, InUseIsSaved, Alone, Closed
  <1>12. QED
    BY <1>1, <1>2, <1>3, <1>4, <1>5, <1>6, <1>7, <1>8, <1>9, <1>10, <1>11

LEMMA ModuleCopyKeeps ==
    ASSUME IInv, CopyModule
    PROVE  IInv'
  <1> USE FilesAssumption DEF IInv
  <1>0. installer \in Busy
    BY BusyTyped DEF CopyModule, TypeOK
  <1>1. TypeOK'
    <2>1. code' \in [Modules -> Content]
      BY <1>0 DEF CopyModule, Written, TypeOK, Content, Busy
    <2>2. installer' \in Busy
      BY <1>0 DEF CopyModule, Busy
    <2>3. QED
      BY <2>1, <2>2 DEF CopyModule, TypeOK, Busy
  <1>2. Alone'
    BY <1>0 DEF CopyModule, Alone
  <1>3. Running'
    BY <1>0 DEF CopyModule, Running
  <1>4. Unconfigured'
    BY <1>0 DEF CopyModule, Unconfigured
  <1>5. Copied'
    BY <1>0 DEF CopyModule, Written, Copied, TypeOK, Modules
  <1>6. OneRelease'
    BY <1>0 DEF CopyModule, OneRelease, Unconfigured
  <1>7. SaveOrder'
    BY <1>0 DEF CopyModule, SaveOrder
  <1>8. InstalledIsWhole'
    BY <1>0 DEF CopyModule, InstalledIsWhole, Alone
  <1>9. SavedIsDurable'
    BY <1>0 DEF CopyModule, SavedIsDurable
  <1>10. DevicesNeedWholeCode'
    BY <1>0 DEF CopyModule, DevicesNeedWholeCode, Alone, Closed
  <1>11. InUseIsSaved'
    BY <1>0 DEF CopyModule, InUseIsSaved
  <1>12. QED
    BY <1>1, <1>2, <1>3, <1>4, <1>5, <1>6, <1>7, <1>8, <1>9, <1>10, <1>11

LEMMA ResourceCopyKeeps ==
    ASSUME IInv, CopyResource
    PROVE  IInv'
  <1> USE FilesAssumption DEF IInv
  <1>0. installer \in Busy
    BY BusyTyped DEF CopyResource, TypeOK
  <1>1. TypeOK'
    <2>1. resources' \in [Resources -> Content]
      BY <1>0 DEF CopyResource, Written, TypeOK, Content, Busy
    <2>2. installer' \in Busy
      BY <1>0 DEF CopyResource, Busy
    <2>3. QED
      BY <2>1, <2>2 DEF CopyResource, TypeOK, Busy
  <1>2. Alone'
    BY <1>0 DEF CopyResource, Alone
  <1>3. Running'
    BY <1>0 DEF CopyResource, Running
  <1>4. Unconfigured'
    BY <1>0 DEF CopyResource, Unconfigured
  <1>5. Copied'
    BY <1>0 DEF CopyResource, Written, Copied, TypeOK
  <1>6. OneRelease'
    BY <1>0 DEF CopyResource, OneRelease
  <1>7. SaveOrder'
    BY <1>0 DEF CopyResource, SaveOrder
  <1>8. InstalledIsWhole'
    BY <1>0 DEF CopyResource, InstalledIsWhole, Alone
  <1>9. SavedIsDurable'
    BY <1>0 DEF CopyResource, SavedIsDurable
  <1>10. DevicesNeedWholeCode'
    BY <1>0 DEF CopyResource, DevicesNeedWholeCode
  <1>11. InUseIsSaved'
    BY <1>0 DEF CopyResource, InUseIsSaved
  <1>12. QED
    BY <1>1, <1>2, <1>3, <1>4, <1>5, <1>6, <1>7, <1>8, <1>9, <1>10, <1>11

LEMMA ConfigWriteKeeps ==
    ASSUME IInv, WriteConfig
    PROVE  IInv'
  <1> USE FilesAssumption DEF IInv
  <1>1. TypeOK'
    BY DEF WriteConfig, Written, Resting, TypeOK, Setting
  <1>2. Alone'
    BY DEF WriteConfig, Alone
  <1>3. Running'
    BY DEF WriteConfig, Running
  <1>4. Unconfigured'
    BY DEF WriteConfig, Unconfigured
  <1>5. Copied'
    BY DEF WriteConfig, Copied
  <1>6. OneRelease'
    BY DEF WriteConfig, Resting, OneRelease, TypeOK, Copied
  <1>7. SaveOrder'
    BY DEF WriteConfig, SaveOrder, Alone, NoUpdate
  <1>8. InstalledIsWhole'
    BY DEF WriteConfig, InstalledIsWhole
  <1>9. SavedIsDurable'
    BY DEF WriteConfig, SavedIsDurable, Alone
  <1>10. DevicesNeedWholeCode'
    BY DEF WriteConfig, DevicesNeedWholeCode
  <1>11. InUseIsSaved'
    BY DEF WriteConfig, InUseIsSaved, Alone, Closed
  <1>12. QED
    BY <1>1, <1>2, <1>3, <1>4, <1>5, <1>6, <1>7, <1>8, <1>9, <1>10, <1>11

LEMMA PhaseEndKeeps ==
    ASSUME IInv, PhaseDone
    PROVE  IInv'
  <1> USE FilesAssumption DEF IInv
  <1>0. Order
    BY PhaseOrder
  <1>1. TypeOK'
    BY <1>0 DEF PhaseDone, Order, Entered, Busy, TypeOK, Modules, Phases
  <1>2. Alone'
    BY <1>0 DEF PhaseDone, Resting, Alone
  <1>3. Running'
    BY <1>0 DEF PhaseDone, Running
  <1>4. Unconfigured'
    BY <1>0 DEF PhaseDone, Order, Entered, Resting, Unconfigured
  <1>5. Copied'
    BY <1>0 DEF PhaseDone, Order, Entered, Resting, Copied, Modules
  <1>6. OneRelease'
    BY <1>0 DEF PhaseDone, OneRelease
  <1>7. SaveOrder'
    BY <1>0 DEF PhaseDone, SaveOrder, Alone, NoUpdate
  <1>8. InstalledIsWhole'
    BY <1>0 DEF PhaseDone, InstalledIsWhole, Copied
  <1>9. SavedIsDurable'
    BY <1>0 DEF PhaseDone, SavedIsDurable, Copied
  <1>10. DevicesNeedWholeCode'
    BY <1>0 DEF PhaseDone, DevicesNeedWholeCode
  <1>11. InUseIsSaved'
    BY <1>0 DEF PhaseDone, InUseIsSaved
  <1>12. QED
    BY <1>1, <1>2, <1>3, <1>4, <1>5, <1>6, <1>7, <1>8, <1>9, <1>10, <1>11

LEMMA InterruptionKeeps ==
    ASSUME IInv, Interrupted
    PROVE  IInv'
  <1> USE FilesAssumption DEF IInv
  <1>1. TypeOK'
    BY DEF Interrupted, TypeOK
  <1>2. Alone'
    BY DEF Interrupted, Alone
  <1>3. Running'
    BY DEF Interrupted, Running
  <1>4. Unconfigured'
    BY DEF Interrupted, Resting, Unconfigured
  <1>5. Copied'
    BY DEF Interrupted, Resting, Copied
  <1>6. OneRelease'
    BY DEF Interrupted, OneRelease
  <1>7. SaveOrder'
    BY DEF Interrupted, SaveOrder
  <1>8. InstalledIsWhole'
    BY DEF Interrupted, InstalledIsWhole
  <1>9. SavedIsDurable'
    BY DEF Interrupted, SavedIsDurable
  <1>10. DevicesNeedWholeCode'
    BY DEF Interrupted, DevicesNeedWholeCode
  <1>11. InUseIsSaved'
    BY DEF Interrupted, InUseIsSaved
  <1>12. QED
    BY <1>1, <1>2, <1>3, <1>4, <1>5, <1>6, <1>7, <1>8, <1>9, <1>10, <1>11

LEMMA StartKeeps ==
    ASSUME IInv, StartCura
    PROVE  IInv'
  <1> USE FilesAssumption DEF IInv
  <1>1. TypeOK'
    BY DEF StartCura, TypeOK
  <1>2. Alone'
    BY DEF StartCura, Alone
  <1>3. Running'
    BY DEF StartCura, Closed, Running
  <1>4. Unconfigured'
    BY DEF StartCura, Unconfigured
  <1>5. Copied'
    BY DEF StartCura, Copied
  <1>6. OneRelease'
    BY DEF StartCura, OneRelease
  <1>7. SaveOrder'
    BY DEF StartCura, SaveOrder
  <1>8. InstalledIsWhole'
    BY DEF StartCura, InstalledIsWhole
  <1>9. SavedIsDurable'
    BY DEF StartCura, SavedIsDurable
  <1>10. DevicesNeedWholeCode'
    BY DEF StartCura, DevicesNeedWholeCode, OneRelease
  <1>11. InUseIsSaved'
    BY DEF StartCura, InUseIsSaved
  <1>12. QED
    BY <1>1, <1>2, <1>3, <1>4, <1>5, <1>6, <1>7, <1>8, <1>9, <1>10, <1>11

LEMMA UpdateBeginKeeps ==
    ASSUME IInv, NEW address \in Addresses, BeginUpdate(address)
    PROVE  IInv'
  <1> USE FilesAssumption DEF IInv
  <1>1. TypeOK'
    BY DEF BeginUpdate, TypeOK
  <1>2. Alone'
    BY DEF BeginUpdate, Alone, Closed
  <1>3. Running'
    BY DEF BeginUpdate, Running
  <1>4. Unconfigured'
    BY DEF BeginUpdate, Unconfigured
  <1>5. Copied'
    BY DEF BeginUpdate, Copied
  <1>6. OneRelease'
    BY DEF BeginUpdate, OneRelease
  <1>7. SaveOrder'
    BY DEF BeginUpdate, SaveOrder
  <1>8. InstalledIsWhole'
    BY DEF BeginUpdate, InstalledIsWhole
  <1>9. SavedIsDurable'
    BY DEF BeginUpdate, SavedIsDurable, InUseIsSaved
  <1>10. DevicesNeedWholeCode'
    BY DEF BeginUpdate, DevicesNeedWholeCode
  <1>11. InUseIsSaved'
    BY DEF BeginUpdate, InUseIsSaved
  <1>12. QED
    BY <1>1, <1>2, <1>3, <1>4, <1>5, <1>6, <1>7, <1>8, <1>9, <1>10, <1>11

LEMMA TemporaryWriteKeeps ==
    ASSUME IInv, WriteTemporary
    PROVE  IInv'
  <1> USE FilesAssumption DEF IInv
  <1>1. TypeOK'
    BY DEF WriteTemporary, SavesAside, Written, NoUpdate, TypeOK, Setting
  <1>2. Alone'
    BY DEF WriteTemporary, NoUpdate, Alone
  <1>3. Running'
    BY DEF WriteTemporary, NoUpdate, Running
  <1>4. Unconfigured'
    BY DEF WriteTemporary, NoUpdate, Unconfigured, Alone
  <1>5. Copied'
    BY DEF WriteTemporary, SavesAside, Copied
  <1>6. OneRelease'
    BY DEF WriteTemporary, SavesAside, OneRelease
  <1>7. SaveOrder'
    BY DEF WriteTemporary, SavesAside, Written, SaveOrder
  <1>8. InstalledIsWhole'
    BY DEF WriteTemporary, InstalledIsWhole
  <1>9. SavedIsDurable'
    BY DEF WriteTemporary, SavesAside, SavedIsDurable
  <1>10. DevicesNeedWholeCode'
    BY DEF WriteTemporary, DevicesNeedWholeCode
  <1>11. InUseIsSaved'
    BY DEF WriteTemporary, SavesAside, InUseIsSaved
  <1>12. QED
    BY <1>1, <1>2, <1>3, <1>4, <1>5, <1>6, <1>7, <1>8, <1>9, <1>10, <1>11

LEMMA ReplacementKeeps ==
    ASSUME IInv, Replace
    PROVE  IInv'
  <1> USE FilesAssumption DEF IInv
  <1>1. TypeOK'
    BY DEF Replace, NoUpdate, TypeOK, Setting
  <1>2. Alone'
    BY DEF Replace, NoUpdate, Alone
  <1>3. Running'
    BY DEF Replace, NoUpdate, Running
  <1>4. Unconfigured'
    BY DEF Replace, Unconfigured
  <1>5. Copied'
    BY DEF Replace, NoUpdate, Copied, Alone
  <1>6. OneRelease'
    BY DEF Replace, NoUpdate, OneRelease, Running, InUseIsSaved
  <1>7. SaveOrder'
    BY DEF Replace, SaveOrder
  <1>8. InstalledIsWhole'
    BY DEF Replace, InstalledIsWhole
  <1>9. SavedIsDurable'
    BY DEF Replace, SavedIsDurable, SaveOrder
  <1>10. DevicesNeedWholeCode'
    BY DEF Replace, DevicesNeedWholeCode
  <1>11. InUseIsSaved'
    BY DEF Replace, InUseIsSaved
  <1>12. QED
    BY <1>1, <1>2, <1>3, <1>4, <1>5, <1>6, <1>7, <1>8, <1>9, <1>10, <1>11

LEMMA SwitchKeeps ==
    ASSUME IInv, SwitchOver
    PROVE  IInv'
  <1> USE FilesAssumption DEF IInv
  <1>1. TypeOK'
    BY DEF SwitchOver, Registrar, NoUpdate, TypeOK
  <1>2. Alone'
    BY DEF SwitchOver, NoUpdate, Alone
  <1>3. Running'
    BY DEF SwitchOver, Registrar, NoUpdate, Running, Closed
  <1>4. Unconfigured'
    BY DEF SwitchOver, Unconfigured
  <1>5. Copied'
    BY DEF SwitchOver, Copied
  <1>6. OneRelease'
    BY DEF SwitchOver, OneRelease
  <1>7. SaveOrder'
    BY DEF SwitchOver, NoUpdate, SaveOrder
  <1>8. InstalledIsWhole'
    BY DEF SwitchOver, InstalledIsWhole
  <1>9. SavedIsDurable'
    BY DEF SwitchOver, SavedIsDurable, SaveOrder
  <1>10. DevicesNeedWholeCode'
    BY DEF SwitchOver, NoUpdate, DevicesNeedWholeCode, Running
  <1>11. InUseIsSaved'
    BY DEF SwitchOver, Registrar, InUseIsSaved, SaveOrder
  <1>12. QED
    BY <1>1, <1>2, <1>3, <1>4, <1>5, <1>6, <1>7, <1>8, <1>9, <1>10, <1>11

LEMMA FailedSaveKeeps ==
    ASSUME IInv, SaveFails
    PROVE  IInv'
  <1> USE FilesAssumption DEF IInv
  <1>1. TypeOK'
    BY DEF SaveFails, NoUpdate, TypeOK, Running
  <1>2. Alone'
    BY DEF SaveFails, Alone
  <1>3. Running'
    BY DEF SaveFails, Running
  <1>4. Unconfigured'
    BY DEF SaveFails, Unconfigured
  <1>5. Copied'
    BY DEF SaveFails, Copied
  <1>6. OneRelease'
    BY DEF SaveFails, OneRelease
  <1>7. SaveOrder'
    BY DEF SaveFails, NoUpdate, SaveOrder
  <1>8. InstalledIsWhole'
    BY DEF SaveFails, InstalledIsWhole
  <1>9. SavedIsDurable'
    BY DEF SaveFails, NoUpdate, SavedIsDurable, InUseIsSaved, Running
  <1>10. DevicesNeedWholeCode'
    BY DEF SaveFails, DevicesNeedWholeCode
  <1>11. InUseIsSaved'
    BY DEF SaveFails, InUseIsSaved
  <1>12. QED
    BY <1>1, <1>2, <1>3, <1>4, <1>5, <1>6, <1>7, <1>8, <1>9, <1>10, <1>11

LEMMA EndKeeps ==
    ASSUME IInv, EndCura
    PROVE  IInv'
  <1> USE FilesAssumption DEF IInv
  <1>1. TypeOK'
    BY DEF EndCura, Closed, TypeOK
  <1>2. Alone'
    BY DEF EndCura, Alone
  <1>3. Running'
    BY DEF EndCura, Running
  <1>4. Unconfigured'
    BY DEF EndCura, Unconfigured
  <1>5. Copied'
    BY DEF EndCura, Copied
  <1>6. OneRelease'
    BY DEF EndCura, OneRelease
  <1>7. SaveOrder'
    BY DEF EndCura, NoUpdate, SaveOrder
  <1>8. InstalledIsWhole'
    BY DEF EndCura, InstalledIsWhole
  <1>9. SavedIsDurable'
    BY DEF EndCura, SavedIsDurable
  <1>10. DevicesNeedWholeCode'
    BY DEF EndCura, Closed, DevicesNeedWholeCode
  <1>11. InUseIsSaved'
    BY DEF EndCura, Closed, InUseIsSaved
  <1>12. QED
    BY <1>1, <1>2, <1>3, <1>4, <1>5, <1>6, <1>7, <1>8, <1>9, <1>10, <1>11

(***************************************************************************)
(* The theorems                                                            *)
(***************************************************************************)

LEMMA InitInvariant ==
    ASSUME Init
    PROVE  IInv
  <1> USE FilesAssumption DEF Init, Resting, Closed, NoUpdate
  <1>1. TypeOK
    BY DEF TypeOK, Content, Setting
  <1>2. Alone /\ Running /\ Unconfigured /\ Copied /\ OneRelease /\ SaveOrder
    BY DEF Alone, Running, Unconfigured, Copied, OneRelease, SaveOrder
  <1>3. InstalledIsWhole /\ SavedIsDurable /\ DevicesNeedWholeCode /\ InUseIsSaved
    BY DEF InstalledIsWhole, SavedIsDurable, DevicesNeedWholeCode, InUseIsSaved
  <1>4. QED
    BY <1>1, <1>2, <1>3 DEF IInv

LEMMA NextInvariant ==
    ASSUME IInv, [Next]_vars
    PROVE  IInv'
  <1>1. CASE \E release \in Releases, address \in Addresses :
                 Install(release, address)
    BY <1>1, InstallationKeeps
  <1>2. CASE Installing
    BY <1>2, DeletionKeeps, ModuleCopyKeeps, ResourceCopyKeeps,
       ConfigWriteKeeps, PhaseEndKeeps DEF Installing
  <1>3. CASE Interrupted
    BY <1>3, InterruptionKeeps
  <1>4. CASE StartCura
    BY <1>4, StartKeeps
  <1>5. CASE \E address \in Addresses : BeginUpdate(address)
    BY <1>5, UpdateBeginKeeps
  <1>6. CASE Saving
    BY <1>6, TemporaryWriteKeeps, ReplacementKeeps, SwitchKeeps,
       FailedSaveKeeps DEF Saving
  <1>7. CASE EndCura
    BY <1>7, EndKeeps
  <1>8. CASE UNCHANGED vars
    BY <1>8 DEF vars, IInv, TypeOK, Alone, Running, Unconfigured, Copied,
       OneRelease, SaveOrder, InstalledIsWhole, SavedIsDurable,
       DevicesNeedWholeCode, InUseIsSaved
  <1>9. QED
    BY <1>1, <1>2, <1>3, <1>4, <1>5, <1>6, <1>7, <1>8 DEF Next

LEMMA SpecInvariant == Spec => []IInv
  <1>1. Init => IInv
    BY InitInvariant
  <1>2. IInv /\ [Next]_vars => IInv'
    BY NextInvariant
  <1>3. QED
    BY <1>1, <1>2, PTL DEF Spec

\* The files, the installer and the running plugin keep their types.
THEOREM FilesTypes == Spec => []TypeOK
  <1>1. IInv => TypeOK
    BY DEF IInv
  <1>2. QED
    BY <1>1, SpecInvariant, PTL

\* An installation that ended left every file whole and of its release,
\* whatever interrupted installations and running Curas came before
\* (install_plugin).
THEOREM CompleteInstallation == Spec => []InstalledIsWhole
  <1>1. IInv => InstalledIsWhole
    BY DEF IInv
  <1>2. QED
    BY <1>1, SpecInvariant, PTL

\* From then on config.json holds the address in use or the one being saved,
\* wherever a save fails or Cura crashes (save_config).
THEOREM DurableAddress == Spec => []SavedIsDurable
  <1>1. IInv => SavedIsDurable
    BY DEF IInv
  <1>2. QED
    BY <1>1, SpecInvariant, PTL

\* No device is made over a plugin that is not completely installed
\* (stage_plugin removes config.json before it copies and writes it last).
THEOREM WholeCodeForDevices == Spec => []DevicesNeedWholeCode
  <1>1. IInv => DevicesNeedWholeCode
    BY DEF IInv
  <1>2. QED
    BY <1>1, SpecInvariant, PTL

\* Outside a save the devices talk to the address on disk
\* (update_configuration).
THEOREM AddressInUse == Spec => []InUseIsSaved
  <1>1. IInv => InUseIsSaved
    BY DEF IInv
  <1>2. QED
    BY <1>1, SpecInvariant, PTL
===============================================================================
