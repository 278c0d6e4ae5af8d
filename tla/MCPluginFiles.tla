--------------------------- MODULE MCPluginFiles ---------------------------
(***************************************************************************)
(* The instance of PluginFiles that TLC checks.                            *)
(***************************************************************************)
EXTENDS PluginFiles, TLC

CONSTANTS r1, r2, a1, a2, m1, m2

Interchangeable ==
    Permutations({r1, r2}) \cup Permutations({a1, a2}) \cup Permutations({m1, m2})
=============================================================================
