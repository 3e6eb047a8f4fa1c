----------------------------- MODULE HandleLife -----------------------------
(***************************************************************************)
(* The life of one Handle, as its loop and the object it belongs to see    *)
(* it: the contract between base/EventLoop.cpp, which calls the object     *)
(* through a raw pointer and dispatches events by descriptor number, and   *)
(* base/TcpConnection.cpp, which closes the descriptor when the last       *)
(* reference to the connection is dropped, in whichever thread that is.    *)
(***************************************************************************)
VARIABLES reg,           \* what the loop knows: "none", "pending", "in" or "out"
          open,          \* the object exists, its descriptor is open
          busy           \* an event was polled for it and is not dealt with

vars == <<reg, open, busy>>

Init == reg = "none" /\ open = FALSE /\ busy = FALSE

\* addHandle: of another thread, or of the owner of the loop, which drains at once.
Register ==
    /\ reg = "none" /\ reg' \in {"pending", "in"}
    /\ open' = TRUE /\ UNCHANGED busy

\* The loop takes the handle, and may find it ready in the same breath.
Watch == reg = "pending" /\ reg' = "in" /\ busy' \in BOOLEAN /\ UNCHANGED open

\* Only what the loop watches is reported.
Report == reg = "in" /\ busy' = TRUE /\ UNCHANGED <<reg, open>>

\* The handler has returned, or the event was dropped because the handle was changing.
Handled == busy /\ busy' = FALSE /\ UNCHANGED <<reg, open>>

\* delHandle, by a handler of the handle or of another one: for good.
Remove == reg = "in" /\ reg' = "out" /\ UNCHANGED <<open, busy>>

\* The descriptor is closed, its number free for another handle; at the latest
\* the event that is dealt with last goes with it.
Close == reg = "out" /\ open /\ open' = FALSE /\ busy' = FALSE /\ UNCHANGED reg

Next == Register \/ Watch \/ Report \/ Handled \/ Remove \/ Close

Spec == Init /\ [][Next]_vars

-----------------------------------------------------------------------------
(* Whoever keeps the contract keeps the raw pointer valid: as long as the  *)
(* loop knows the handle or has an event for it, its object exists and its *)
(* number belongs to it.                                                   *)
UsedIsOpen ==
    /\ open \in BOOLEAN /\ busy \in BOOLEAN
    /\ reg \in {"pending", "in"} \/ busy => open
    /\ reg = "none" => ~busy
=============================================================================
