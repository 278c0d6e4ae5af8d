SPECIFICATION Spec
CONSTANTS
    r1 = r1
    r2 = r2
    a1 = a1
    a2 = a2
    m1 = m1
    m2 = m2
    Releases = {r1, r2}
    Addresses = {a1, a2}
    PluginModules = {m1, m2}
    ProtocolModules = {client}
    Resources = {definition, quality}
    Absent = Absent
    Torn = Torn
SYMMETRY Interchangeable
INVARIANTS
    TypeOK
    InstalledIsWhole
    SavedIsDurable
    DevicesNeedWholeCode
    InUseIsSaved
