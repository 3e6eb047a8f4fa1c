------------------------------ MODULE TimerLife ------------------------------
(***************************************************************************)
(* What base/TimersScheduler.cpp promises the owner of one Timer: each     *)
(* time it expires its callback is called once, unless it was cancelled    *)
(* before its turn in the batch came; then it waits again if it repeats    *)
(* and is freed otherwise; a cancelled timer is freed, at once or with the *)
(* batch it expired in, and neither starts nor waits again.                *)
(***************************************************************************)
VARIABLES stage,         \* "free", "waiting", "expired", "running" or "ran"
          repeats,       \* has it an interval
          cancelled      \* was it given to delTimer

vars == <<stage, repeats, cancelled>>

Init == stage = "free" /\ repeats = FALSE /\ cancelled = FALSE

Add ==
    /\ stage = "free" /\ stage' = "waiting"
    /\ repeats' \in BOOLEAN /\ cancelled' = FALSE

Expire == stage = "waiting" /\ stage' = "expired" /\ UNCHANGED <<repeats, cancelled>>

\* Its turn: the callback is called, or what was cancelled is passed over.
Start ==
    /\ stage = "expired"
    /\ stage' = IF cancelled THEN "ran" ELSE "running"
    /\ UNCHANGED <<repeats, cancelled>>

Return == stage = "running" /\ stage' = "ran" /\ UNCHANGED <<repeats, cancelled>>

\* The batch is over.
Restart ==
    /\ stage = "ran" /\ repeats /\ ~cancelled
    /\ stage' = "waiting" /\ UNCHANGED <<repeats, cancelled>>

Free ==
    /\ stage = "ran" /\ (cancelled \/ ~repeats)
    /\ stage' = "free" /\ repeats' = FALSE /\ UNCHANGED cancelled

\* A timer that waits is freed at once, one of a batch with the batch.
Cancel ==
    /\ stage # "free" /\ cancelled' = TRUE
    /\ \/ stage = "waiting" /\ stage' = "free" /\ repeats' = FALSE
       \/ stage # "waiting" /\ UNCHANGED <<stage, repeats>>

Next == Add \/ Expire \/ Start \/ Return \/ Restart \/ Free \/ Cancel

Spec == Init /\ [][Next]_vars
=============================================================================
