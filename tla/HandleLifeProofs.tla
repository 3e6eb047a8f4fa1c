-------------------------- MODULE HandleLifeProofs --------------------------
(***************************************************************************)
(* What the contract between a loop and the objects in it is good for.     *)
(***************************************************************************)
EXTENDS HandleLife, TLAPS

\* By the contract alone, whatever implements it.
THEOREM OpenWhileUsed == Spec => []UsedIsOpen
<1>1. Init => UsedIsOpen
  BY DEF Init, UsedIsOpen
<1>2. UsedIsOpen /\ [Next]_vars => UsedIsOpen'
  <2> SUFFICES ASSUME UsedIsOpen, [Next]_vars PROVE UsedIsOpen'
    OBVIOUS
  <2> USE DEF UsedIsOpen
  <2>1. CASE Register
    BY <2>1 DEF Register
  <2>2. CASE Watch
    BY <2>2 DEF Watch
  <2>3. CASE Report
    BY <2>3 DEF Report
  <2>4. CASE Handled
    BY <2>4 DEF Handled
  <2>5. CASE Remove
    BY <2>5 DEF Remove
  <2>6. CASE Close
    BY <2>6 DEF Close
  <2>7. CASE UNCHANGED vars
    BY <2>7 DEF vars
  <2> QED BY <2>1, <2>2, <2>3, <2>4, <2>5, <2>6, <2>7 DEF Next
<1> QED BY <1>1, <1>2, PTL DEF Spec
=============================================================================
