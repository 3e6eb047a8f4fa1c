---------------------------- MODULE MCEventLoop ----------------------------
(***************************************************************************)
(* Small instances of EventLoop: h1 and h2 are made, one after the other,  *)
(* for the same descriptor number.                                         *)
(***************************************************************************)
EXTENDS EventLoop, TLC

CONSTANTS h1, h2, h3, fd1, fd2

MCFdOf == [h \in Handle |-> IF h \in {h1, h2} THEN fd1 ELSE fd2]
Symmetry == Permutations(Caller)
=============================================================================
