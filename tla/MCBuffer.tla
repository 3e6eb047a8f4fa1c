------------------------------ MODULE MCBuffer ------------------------------
(* Buffer with two byte values, a prepend area of 2 and 2 cells behind it.  *)
EXTENDS Buffer
=============================================================================
