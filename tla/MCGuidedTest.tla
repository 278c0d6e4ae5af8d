---------------------------- MODULE MCGuidedTest ----------------------------
(***************************************************************************)
(* The instances of GuidedTest that TLC checks.                            *)
(***************************************************************************)
EXTENDS GuidedTest
=============================================================================
