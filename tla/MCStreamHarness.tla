--------------------------- MODULE MCStreamHarness ---------------------------
(***************************************************************************)
(* run_concurrent.cpp with few workers and requests.  StreamHarness has    *)
(* plain numbers as constants, which the .cfg files give.                  *)
(***************************************************************************)
EXTENDS StreamHarness
=============================================================================
