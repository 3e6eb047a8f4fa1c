---------------------------- MODULE FunctorQueue ----------------------------
(***************************************************************************)
(* What EventLoop::queueInLoop promises its callers, whichever thread they *)
(* run in: an accepted functor waits in one first-in first-out queue, is   *)
(* taken out of it exactly once, by the thread of the loop, and functors   *)
(* start one at a time.                                                    *)
(***************************************************************************)
EXTENDS Sequences

CONSTANTS Functor,    \* the callables handed to queueInLoop
          NoFunctor   \* the loop executes none of them

VARIABLES waiting,    \* accepted and not started, the oldest first
          running     \* the functor the loop thread executes

vars == <<waiting, running>>

Init == waiting = <<>> /\ running = NoFunctor

Accept(f) == waiting' = Append(waiting, f) /\ UNCHANGED running

Start == /\ running = NoFunctor
         /\ waiting # <<>>
         /\ running' = Head(waiting)
         /\ waiting' = Tail(waiting)

Finish == /\ running # NoFunctor
          /\ running' = NoFunctor
          /\ UNCHANGED waiting

Next == (\E f \in Functor : Accept(f)) \/ Start \/ Finish

Spec == Init /\ [][Next]_vars
=============================================================================
