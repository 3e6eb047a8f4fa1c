---------------------------- MODULE MCMcacheTask ----------------------------
(* McacheTask with a client that sends a few lines.                         *)
EXTENDS McacheTask
=============================================================================
