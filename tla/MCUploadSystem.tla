--------------------------- MODULE MCUploadSystem ---------------------------
(***************************************************************************)
(* The instances of UploadSystem TLC explores, beside the block format and *)
(* the file names of its datagrams.  What Framing and RemoteNames say of   *)
(* all frames and names depends on no state, so TLC is asked once, where   *)
(* the upload begins.                                                      *)
(***************************************************************************)
EXTENDS UploadSystem, Framing, RemoteNames

\* Any block the client frames is what the printer parses, and with one byte
\* damaged anywhere is refused (DamageIsDetected): damage on the way, which
\* LegacyWire flags and MockPrinter rejects, stores nothing.
FramesAreExact == Init => DamageIsDetected

\* The name made by the plugin and the name checked by the client name the
\* same file in M28, in M29 and in the listing (CheckedNamesStay).
NamesAgree == Init => CheckedNamesStay
=============================================================================
