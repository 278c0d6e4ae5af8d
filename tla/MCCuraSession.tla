--------------------------- MODULE MCCuraSession ---------------------------
(***************************************************************************)
(* The instances of CuraSession that TLC checks: two addresses are         *)
(* interchangeable.                                                        *)
(***************************************************************************)
EXTENDS CuraSession

CONSTANTS a1, a2

AddressSymmetry == {[a \in {a1, a2} |-> a], [a \in {a1, a2} |-> IF a = a1 THEN a2 ELSE a1]}
=============================================================================
