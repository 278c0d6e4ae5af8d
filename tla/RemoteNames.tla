---------------------------- MODULE RemoteNames ----------------------------
(***************************************************************************)
(* The name of an upload on the printer: the plugin makes one from Cura's  *)
(* job name, the client checks it, appends the extension, and checks the   *)
(* result again before it looks for the file in the printer's listing.     *)
(*                                                                         *)
(* A name is a sequence of symbols: "x" stands for any ordinary character, *)
(* "gcode" for those five, "forbidden" for what QIDI firmware rejects, and *)
(* "control" for a control character that is not white space.              *)
(***************************************************************************)
EXTENDS Integers, Sequences, FiniteSets

CONSTANTS
    MaxSymbols,   \* bound on the names tried
    MaxName       \* 120 in the code

ASSUME NamesAssumption == MaxSymbols \in Nat /\ MaxName \in Nat

Symbols == {"x", "gcode", ".", "_", "space", "control", "forbidden"}
Names == UNION {[1 .. n -> Symbols] : n \in 0 .. MaxSymbols}

Invalid == <<"invalid">>
Extension == <<".", "gcode">>
Default == <<"x">>   \* cura_job

Size(name) == Len(name) + 4 * Cardinality({i \in DOMAIN name : name[i] = "gcode"})

\* name.strip(symbols)
Stripped(name, symbols) ==
    LET kept == {i \in DOMAIN name : name[i] \notin symbols}
    IN  IF kept = {} THEN <<>>
        ELSE LET first == CHOOSE i \in kept : \A j \in kept : i <= j
                 last == CHOOSE i \in kept : \A j \in kept : j <= i
             IN  SubSeq(name, first, last)

HasExtension(name) ==
    Len(name) > 1 /\ name[Len(name) - 1] = "." /\ name[Len(name)] = "gcode"

\* re.sub(symbols+, "_", name): the first symbol of a run is replaced and the
\* rest of the run is dropped.
Replaced(name, symbols) ==
    LET kept == {i \in DOMAIN name :
                    name[i] \in symbols => i = 1 \/ name[i - 1] \notin symbols}
        Nth(k) == CHOOSE i \in kept : Cardinality({j \in kept : j <= i}) = k
    IN  [k \in 1 .. Cardinality(kept) |->
            IF name[Nth(k)] \in symbols THEN "_" ELSE name[Nth(k)]]

Cleaned(name) ==
    Stripped(Replaced(Replaced(name, {"forbidden"}), {"space"}), {".", "_"})

\* QidiLegacyOutputDevice._remote_filename
PluginName(jobName) ==
    LET stem == IF HasExtension(jobName)
                THEN SubSeq(jobName, 1, Len(jobName) - 2) ELSE jobName
    IN  (IF Cleaned(stem) = <<>> THEN Default ELSE Cleaned(stem)) \o Extension

AppendsAlways(name) == name \o Extension   \* slip: a second extension

WithExtension(name) == IF HasExtension(name) THEN name ELSE name \o Extension

\* QidiLegacyClient._validate_remote_filename
Validated(name) ==
    LET bare == Stripped(name, {"space"})
    IN  IF \/ bare \in {<<>>, <<".">>, <<".", ".">>}
           \/ Size(bare) > MaxName
           \/ \E i \in DOMAIN bare : bare[i] \in {"forbidden", "control"}
        THEN Invalid
        ELSE WithExtension(bare)

\* A name that the plugin made or the client has checked is one the client
\* accepts unchanged: the file is created under the name Cura shows, and looked
\* for in the listing under the name it was created with.  Refused are only a
\* name with a control character, and one that the extension made too long,
\* which a name of the client's own is after the whole upload.
CheckedNamesStay ==
    \A given \in Names : \A name \in {PluginName(given), Validated(given)} :
        /\ name # Invalid
        /\ Size(name) <= MaxName
        /\ \A i \in DOMAIN name : name[i] # "control"
        => Validated(name) = name
=============================================================================
