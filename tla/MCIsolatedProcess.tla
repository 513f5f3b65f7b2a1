------------------------- MODULE MCIsolatedProcess -------------------------
(* Small instances of IsolatedProcess.                                      *)
EXTENDS IsolatedProcess
=============================================================================
