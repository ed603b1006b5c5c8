----------------------------- MODULE MCShutdown -----------------------------
(* Shutdown has no constants: TLC checks the whole protocol.                *)
EXTENDS Shutdown
=============================================================================
