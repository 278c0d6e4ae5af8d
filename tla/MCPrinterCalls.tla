--------------------------- MODULE MCPrinterCalls ---------------------------
(***************************************************************************)
(* The instance of PrinterCalls that TLC checks.                           *)
(***************************************************************************)
EXTENDS PrinterCalls
=============================================================================
