----------------------------- MODULE EventLoop -----------------------------
(***************************************************************************)
(* The reactor of base/EventLoop.cpp: one owner thread runs loop(); any    *)
(* number of other threads register, change and remove handles, queue      *)
(* functors and ask it to quit.  handles_ is what the owner has given to   *)
(* epoll; updates_ holds, per descriptor, the change that waits for the    *)
(* owner, and has ONE slot per descriptor.                                 *)
(*                                                                         *)
(* The owner calls the API from its callbacks too: its calls hold mutex_   *)
(* from beginning to end and drain updates_ themselves, so each is a step. *)
(* A call of another thread sets the state of the handle (which the owner  *)
(* reads without the lock) and fills the slot in two steps.                *)
(*                                                                         *)
(* Descriptors are closed by the users of the loop: a handle's descriptor  *)
(* is closed, and its number reused, at any time after the handle has left *)
(* handles_ and updates_ and the events polled for it are dealt with       *)
(* (TcpConnection shows that it keeps to that).                            *)
(***************************************************************************)
EXTENDS Naturals, Sequences

CONSTANTS Fd,          \* descriptor numbers
          Handle,      \* Handle objects, each created for one descriptor
          FdOf,        \* Handle::fd()
          Caller,      \* the threads other than the owner
          Functor,     \* callables
          MaxQueue,    \* bound on functors_, for TLC
          NoHandle, NoCaller, NoFunctor

ASSUME HandleAssumption == FdOf \in [Handle -> Fd] /\ NoHandle \notin Handle
ASSUME CallerAssumption == NoCaller \notin Caller
ASSUME FunctorAssumption == NoFunctor \notin Functor
ASSUME QueueAssumption == MaxQueue \in Nat

VARIABLES
    handles_, updates_,       \* [Fd -> handle or NoHandle]
    state,                    \* Handle::state_
    interest,                 \* the Events mask of each handle
    epoll,                    \* the mask epoll holds for a descriptor
    opened,                   \* the handle an open descriptor was made for
    functors_, runningFunctors_, quit_,
    mutex_,                   \* the caller that holds it
    wakeUpFd_,                \* the eventfd counter is not zero
    lp,                       \* where the owner is in loop()
    revents_,                 \* what the poll returned, not yet dispatched
    cur,                      \* the event in dispatch and the handle it goes to
    batch, running,           \* locals of runFunctors
    early,                    \* how many of functors_ predate loop()
    pc, arg                   \* of each caller: where it is, and with which handle

table == <<handles_, updates_, state, interest, epoll, opened>>
queue == <<functors_, runningFunctors_, batch, running, early>>
signal == <<quit_, wakeUpFd_>>
owner == <<lp, revents_, cur>>
callers == <<mutex_, pc, arg>>
vars == <<table, queue, signal, owner, callers>>
rest == <<table, queue, signal, revents_, cur, callers>>  \* all but lp

Masks == {"read", "readwrite"}
States == {"NEW", "ADD", "MOD", "DEL", "LOOP"}
WakeUp == [fd |-> "wakeUpFd_", polled |-> "wakeUpHandle_"]
NoEvent == [polled |-> NoHandle, handle |-> NoHandle]
Empty == [fd \in Fd |-> NoHandle]
Free == mutex_ = NoCaller

TypeOK ==
    /\ handles_ \in [Fd -> Handle \cup {NoHandle}]
    /\ updates_ \in [Fd -> Handle \cup {NoHandle}]
    /\ state \in [Handle -> States]
    /\ interest \in [Handle -> Masks]
    /\ epoll \in [Fd -> Masks \cup {"absent"}]
    /\ opened \in [Fd -> Handle \cup {NoHandle}]
    /\ functors_ \in Seq(Functor) /\ batch \in Seq(Functor)
    /\ running \in Functor \cup {NoFunctor}
    /\ early \in Nat
    /\ runningFunctors_ \in BOOLEAN /\ quit_ \in BOOLEAN /\ wakeUpFd_ \in BOOLEAN
    /\ mutex_ \in Caller \cup {NoCaller}
    /\ lp \in {"start", "test", "drain", "poll", "dispatch", "handler", "evDrain",
               "functor", "fnDrain", "release", "done"}
    /\ revents_ \subseteq [fd : Fd, polled : Handle] \cup {WakeUp}
    /\ cur \in [polled : Handle \cup {NoHandle}, handle : Handle \cup {NoHandle}]
    /\ pc \in [Caller -> {"idle", "enabled", "locked", "queued", "quitting"}]
    /\ arg \in [Caller -> Handle \cup {NoHandle}]

Init ==
    /\ handles_ = Empty /\ updates_ = Empty /\ opened = Empty
    /\ state = [h \in Handle |-> "NEW"]
    /\ interest = [h \in Handle |-> "read"]
    /\ epoll = [fd \in Fd |-> "absent"]
    /\ functors_ = <<>> /\ batch = <<>> /\ running = NoFunctor /\ early = 0
    /\ runningFunctors_ = FALSE /\ quit_ = FALSE /\ wakeUpFd_ = FALSE
    /\ mutex_ = NoCaller
    /\ lp = "start" /\ revents_ = {} /\ cur = NoEvent
    /\ pc = [t \in Caller |-> "idle"]
    /\ arg = [t \in Caller |-> NoHandle]

-----------------------------------------------------------------------------
(* updateHandlesUnlock, over the pending slots up and the states st that   *)
(* the call has just written.  The slots concern different descriptors, so *)
(* their order is of no consequence.  EPOLL_CTL_ADD of a descriptor that   *)
(* is registered, MOD and DEL of one that is not, fail and change nothing. *)

\* Mutants: the state is passed for the mask; EventsMod is not called.
RegistrationOfState(fd, h, st) ==
    IF st = "DEL" THEN "absent"
    ELSE IF (st = "ADD") = (epoll[fd] = "absent") THEN st
    ELSE epoll[fd]
RegistrationOnce(fd, h, st) ==
    IF st = "DEL" THEN "absent"
    ELSE IF epoll[fd] = "absent" THEN interest'[h]
    ELSE epoll[fd]

\* The registration of fd after the call of Poller that the state st asks for.
Registration(fd, h, st) ==
    IF st = "DEL" THEN "absent"
    ELSE IF (st = "ADD") = (epoll[fd] = "absent") THEN interest'[h]
    ELSE epoll[fd]

\* Mutant: updates_ is not cleared.
NotCleared(up) == up

LeftAfterDrain(up) == Empty

Drain(up, st) ==
    LET pending(fd) == up[fd] # NoHandle
        change(fd) == st[up[fd]]
    IN /\ epoll' = [fd \in Fd |->
             IF pending(fd) THEN Registration(fd, up[fd], change(fd)) ELSE epoll[fd]]
       /\ handles_' = [fd \in Fd |->
             IF ~pending(fd) THEN handles_[fd]
             ELSE IF change(fd) = "DEL" THEN NoHandle ELSE up[fd]]
       /\ state' = [h \in Handle |->
             IF up[FdOf[h]] = h /\ st[h] # "DEL" THEN "LOOP" ELSE st[h]]
       /\ updates_' = LeftAfterDrain(up)

\* The handle that modHandle and delHandle act on: the registered one.
Found(h) == handles_[FdOf[h]]

\* h was handed to addHandle and its descriptor is still open.
Live(h) == opened[FdOf[h]] = h

\* An event polled for h is in dispatch or waits to be.
Busy(h) == cur.polled = h \/ \E e \in revents_ : e.polled = h /\ e # WakeUp

-----------------------------------------------------------------------------
(* Calls of the owner thread.                                              *)

OwnerAdd(h) ==
    /\ Free /\ state[h] = "NEW" /\ opened[FdOf[h]] = NoHandle
    /\ opened' = [opened EXCEPT ![FdOf[h]] = h]
    /\ UNCHANGED interest
    /\ Drain([updates_ EXCEPT ![FdOf[h]] = h], [state EXCEPT ![h] = "ADD"])
    /\ UNCHANGED <<queue, signal>>

Request(h, st) ==
    IF Found(h) = NoHandle THEN UNCHANGED <<handles_, updates_, state, epoll>>
    ELSE Drain([updates_ EXCEPT ![FdOf[h]] = Found(h)], [state EXCEPT ![Found(h)] = st])

\* enableWrite or disableWrite, then modHandle.
OwnerMod(h, m) ==
    /\ Free /\ Live(h)
    /\ interest' = [interest EXCEPT ![h] = m] /\ UNCHANGED opened
    /\ Request(h, "MOD")
    /\ UNCHANGED <<queue, signal>>

OwnerDel(h) ==
    /\ Free /\ Live(h)
    /\ UNCHANGED <<interest, opened>>
    /\ Request(h, "DEL")
    /\ UNCHANGED <<queue, signal>>

\* Mutant: the owner never wakes itself.
NeverNeedsWakeUp == FALSE

NeedsWakeUp == runningFunctors_

OwnerQueue(f) ==
    /\ Free
    /\ Len(functors_) < MaxQueue
    /\ functors_' = Append(functors_, f)
    /\ early' = IF lp = "start" THEN Len(functors_) + 1 ELSE early
    /\ wakeUpFd_' = (wakeUpFd_ \/ NeedsWakeUp)
    /\ UNCHANGED <<runningFunctors_, batch, running, quit_, table>>

OwnerQuit ==
    /\ Free
    /\ quit_' = TRUE
    /\ UNCHANGED <<wakeUpFd_, table, queue>>

\* What the owner does before loop() and inside the callbacks of loop().
Callback ==
    /\ \/ lp = "start"
       \/ lp = "handler"
       \/ lp = "functor" /\ running # NoFunctor
    /\ \/ \E h \in Handle : OwnerAdd(h)
       \/ \E h \in Handle, m \in Masks : OwnerMod(h, m)
       \/ \E h \in Handle : OwnerDel(h)
       \/ \E f \in Functor : OwnerQueue(f)
       \/ OwnerQuit
    /\ UNCHANGED <<owner, callers>>

-----------------------------------------------------------------------------
(* loop() and runFunctors().                                               *)

Goto(from, to) == lp = from /\ lp' = to

EnterLoop == Goto("start", "test") /\ UNCHANGED rest

\* Mutant: loop() goes on while functors are waiting.
Idle == quit_ /\ functors_ = <<>>

MustStop == quit_

TestQuit == Goto("test", IF MustStop THEN "done" ELSE "drain") /\ UNCHANGED rest

\* Mutant: only callbacks are followed by a drain, not the test of quit_.
UpdateHandlesAfterCallbacks ==
    /\ Goto("drain", "poll") \/ Goto("evDrain", "dispatch") \/ Goto("fnDrain", "functor")
    /\ IF lp = "drain" \/ updates_ = Empty THEN UNCHANGED table
       ELSE Free /\ UNCHANGED <<interest, opened>> /\ Drain(updates_, state)
    /\ UNCHANGED <<queue, signal, revents_, cur, callers>>

\* if (!updates_.empty()) updateHandles(), at the three places that do it;
\* the emptiness is read without the lock.
UpdateHandles ==
    /\ Goto("drain", "poll") \/ Goto("evDrain", "dispatch") \/ Goto("fnDrain", "functor")
    /\ IF updates_ = Empty THEN UNCHANGED table
       ELSE Free /\ UNCHANGED <<interest, opened>> /\ Drain(updates_, state)
    /\ UNCHANGED <<queue, signal, revents_, cur, callers>>

\* Any of the registered descriptors may be ready, or none before the delay
\* runs out.
PollWait ==
    /\ Goto("poll", "dispatch")
    /\ \E ready \in SUBSET {fd \in Fd : epoll[fd] # "absent"} :
          revents_' = {[fd |-> fd, polled |-> opened[fd]] : fd \in ready}
                        \cup (IF wakeUpFd_ THEN {WakeUp} ELSE {})
    /\ UNCHANGED <<table, queue, signal, cur, callers>>

HandWakeUp ==
    /\ Goto("dispatch", "evDrain")
    /\ WakeUp \in revents_ /\ revents_' = revents_ \ {WakeUp}
    /\ wakeUpFd_' = FALSE
    /\ UNCHANGED <<table, queue, quit_, cur, callers>>

Dispatch(e) ==
    /\ lp = "dispatch"
    /\ e # WakeUp /\ revents_' = revents_ \ {e}
    /\ LET h == handles_[e.fd] IN
       IF h # NoHandle /\ state[h] = "LOOP"
       THEN lp' = "handler" /\ cur' = [polled |-> e.polled, handle |-> h]
       ELSE UNCHANGED <<lp, cur>>
    /\ UNCHANGED <<table, queue, signal, callers>>

HandlerReturns ==
    /\ Goto("handler", "evDrain")
    /\ cur' = NoEvent
    /\ UNCHANGED <<table, queue, signal, revents_, callers>>

RunFunctors ==
    /\ Goto("dispatch", "functor")
    /\ revents_ = {} /\ Free
    /\ runningFunctors_' = TRUE
    /\ batch' = functors_ /\ functors_' = <<>> /\ early' = 0
    /\ UNCHANGED <<table, running, signal, revents_, cur, callers>>

\* Mutant: the functors that were swapped out are run from the back.
StartLastFunctor ==
    /\ lp = "functor" /\ running = NoFunctor /\ batch # <<>>
    /\ running' = batch[Len(batch)] /\ batch' = SubSeq(batch, 1, Len(batch) - 1)
    /\ UNCHANGED <<table, functors_, runningFunctors_, early, signal, owner, callers>>

StartFunctor ==
    /\ lp = "functor" /\ running = NoFunctor /\ batch # <<>>
    /\ running' = Head(batch) /\ batch' = Tail(batch)
    /\ UNCHANGED <<table, functors_, runningFunctors_, early, signal, owner, callers>>

FunctorReturns ==
    /\ Goto("functor", "fnDrain")
    /\ running # NoFunctor /\ running' = NoFunctor
    /\ UNCHANGED <<table, functors_, runningFunctors_, batch, early, signal, revents_, cur, callers>>

\* Mutant: the loop over the functors stops one too early.
AlmostAllRun == Len(batch) <= 1

AllRun == batch = <<>>

\* Mutant: functors_ is cleared when the pass is over.
EndFunctorsAndClear ==
    /\ Goto("functor", "release")
    /\ running = NoFunctor /\ AllRun
    /\ runningFunctors_' = FALSE /\ functors_' = <<>>
    /\ UNCHANGED <<table, batch, running, early, signal, revents_, cur, callers>>

EndFunctors ==
    /\ Goto("functor", "release")
    /\ running = NoFunctor /\ AllRun
    /\ runningFunctors_' = FALSE
    /\ UNCHANGED <<table, functors_, batch, running, early, signal, revents_, cur, callers>>

\* Mutant: a handler that removes another handle drops the last reference to
\* it, with an event for it still to be dispatched.
MayCloseInHandler(h) == cur.polled # h

MayClose(h) == ~Busy(h)

\* The last reference to the object of the handle is dropped, by the functor
\* that is destroyed after the pass or by another thread that is later still.
CloseFd(h) ==
    /\ MayClose(h)
    /\ Live(h)
    /\ handles_[FdOf[h]] = NoHandle /\ updates_[FdOf[h]] = NoHandle
    /\ \A t \in Caller : pc[t] # "idle" => arg[t] # h
    /\ opened' = [opened EXCEPT ![FdOf[h]] = NoHandle]
    /\ UNCHANGED <<handles_, updates_, state, interest, epoll, queue, signal, owner, callers>>

NextPass == Goto("release", "test") /\ UNCHANGED rest

-----------------------------------------------------------------------------
(* Calls of the other threads.                                             *)

\* The lock is held, the handle h has its new state, the slot is not filled.
Lock(t, h, st) ==
    /\ mutex_' = t
    /\ state' = [state EXCEPT ![h] = st]
    /\ pc' = [pc EXCEPT ![t] = "locked"]
    /\ arg' = [arg EXCEPT ![t] = h]

Return(t) ==
    /\ pc' = [pc EXCEPT ![t] = "idle"]
    /\ arg' = [arg EXCEPT ![t] = NoHandle]

CallAdd(t, h) ==
    /\ pc[t] = "idle" /\ Free
    /\ state[h] = "NEW" /\ opened[FdOf[h]] = NoHandle
    /\ opened' = [opened EXCEPT ![FdOf[h]] = h]
    /\ Lock(t, h, "ADD")
    /\ UNCHANGED <<handles_, updates_, interest, epoll, queue, signal, owner>>

\* enableWrite or disableWrite, before the call of modHandle.
Enable(t, h, m) ==
    /\ pc[t] = "idle"
    /\ Live(h)
    /\ interest' = [interest EXCEPT ![h] = m]
    /\ pc' = [pc EXCEPT ![t] = "enabled"]
    /\ arg' = [arg EXCEPT ![t] = h]
    /\ UNCHANGED <<handles_, updates_, state, epoll, opened, queue, signal, owner, mutex_>>

\* Mutant: modHandle does not look the handle up.
CallModUnchecked(t) ==
    /\ pc[t] = "enabled" /\ Free
    /\ Lock(t, arg[t], "MOD")
    /\ UNCHANGED <<handles_, updates_, interest, epoll, opened, queue, signal, owner>>

CallMod(t) ==
    /\ pc[t] = "enabled" /\ Free
    /\ IF Found(arg[t]) = NoHandle THEN Return(t) /\ UNCHANGED <<state, mutex_>>
       ELSE Lock(t, Found(arg[t]), "MOD")
    /\ UNCHANGED <<handles_, updates_, interest, epoll, opened, queue, signal, owner>>

CallDel(t, h) ==
    /\ pc[t] = "idle" /\ Free
    /\ Live(h) /\ Found(h) # NoHandle
    /\ Lock(t, Found(h), "DEL")
    /\ UNCHANGED <<handles_, updates_, interest, epoll, opened, queue, signal, owner>>

UpdateHandle(t) ==
    /\ pc[t] = "locked"
    /\ updates_' = [updates_ EXCEPT ![FdOf[arg[t]]] = arg[t]]
    /\ mutex_' = NoCaller
    /\ Return(t)
    /\ UNCHANGED <<handles_, state, interest, epoll, opened, queue, signal, owner>>

CallQueue(t, f) ==
    /\ pc[t] = "idle" /\ Free
    /\ Len(functors_) < MaxQueue
    /\ functors_' = Append(functors_, f)
    /\ pc' = [pc EXCEPT ![t] = "queued"]
    /\ UNCHANGED <<table, runningFunctors_, batch, running, early, signal, owner, mutex_, arg>>

CallWakeUp(t) ==
    /\ pc[t] = "queued"
    /\ wakeUpFd_' = TRUE
    /\ Return(t)
    /\ UNCHANGED <<table, queue, quit_, owner, mutex_>>

CallQuit(t) ==
    /\ pc[t] = "idle" /\ Free
    /\ quit_' = TRUE
    /\ mutex_' = t
    /\ pc' = [pc EXCEPT ![t] = "quitting"]
    /\ UNCHANGED <<table, queue, wakeUpFd_, owner, arg>>

QuitWakeUp(t) ==
    /\ pc[t] = "quitting"
    /\ wakeUpFd_' = TRUE
    /\ mutex_' = NoCaller
    /\ Return(t)
    /\ UNCHANGED <<table, queue, quit_, owner>>

-----------------------------------------------------------------------------
Loop ==
    \/ EnterLoop \/ TestQuit \/ UpdateHandles \/ PollWait \/ HandWakeUp
    \/ \E e \in revents_ : Dispatch(e)
    \/ HandlerReturns \/ RunFunctors \/ StartFunctor \/ FunctorReturns
    \/ EndFunctors \/ NextPass

Finish(t) == UpdateHandle(t) \/ CallMod(t) \/ CallWakeUp(t) \/ QuitWakeUp(t)

Calls(t) ==
    \/ \E h \in Handle : CallAdd(t, h) \/ CallDel(t, h)
    \/ \E h \in Handle, m \in Masks : Enable(t, h, m)
    \/ \E f \in Functor : CallQueue(t, f)
    \/ CallQuit(t)
    \/ Finish(t)

Next ==
    \/ Loop
    \/ Callback
    \/ \E h \in Handle : CloseFd(h)
    \/ \E t \in Caller : Calls(t)

(* The owner thread is scheduled, its callbacks return, and it gets mutex_ *)
(* in the end; a thread inside a call finishes the call.                   *)
Fairness == SF_vars(Loop) /\ \A t \in Caller : SF_vars(Finish(t))

Spec == Init /\ [][Next]_vars
FairSpec == Spec /\ Fairness

-----------------------------------------------------------------------------
(* The asserts of updateHandlesUnlock, and the calls of Poller it makes: a *)
(* pending slot holds a handle that was added, changed or removed; an ADD  *)
(* is for a descriptor epoll does not know, a MOD or DEL for the handle    *)
(* that is registered.  Broken if two calls on a descriptor could leave    *)
(* behind a slot that the second one's drain does not expect.              *)
DrainIsLegal ==
    \A fd \in Fd : updates_[fd] # NoHandle =>
        CASE state[updates_[fd]] = "ADD" -> epoll[fd] = "absent" /\ handles_[fd] = NoHandle
          [] state[updates_[fd]] \in {"MOD", "DEL"} ->
                epoll[fd] # "absent" /\ handles_[fd] = updates_[fd]
          [] OTHER -> FALSE

(* When the owner goes to sleep and no call is under way or waits to be    *)
(* drained, epoll knows exactly the descriptors of handles_, each with the *)
(* mask its handle wants: no interleaving of enableWrite, modHandle,       *)
(* delHandle and the drains leaves epoll with an old mask.                 *)
EpollAgrees ==
    (lp = "poll" /\ updates_ = Empty /\ \A t \in Caller : pc[t] \notin {"enabled", "locked"})
    => \A fd \in Fd : epoll[fd] = IF handles_[fd] = NoHandle THEN "absent"
                                  ELSE interest[handles_[fd]]

\* A queueInLoop of another thread has pushed its functor, and will wake the loop.
WakeUpComing == wakeUpFd_ \/ \E t \in Caller : pc[t] = "queued"

(* The loop never goes to sleep on a functor: one that was queued after    *)
(* loop() was entered (the first `early' ones were not) and that the last  *)
(* runFunctors did not take has made the eventfd readable, or its caller   *)
(* is about to.                                                            *)
NoLostWakeUp ==
    lp \in {"test", "drain", "poll"} /\ Len(functors_) > early => WakeUpComing

(* An event goes to the handle it was polled for, never to a later handle  *)
(* of a reused descriptor number: revents_ is dispatched by number.        *)
NoStaleDispatch == cur.handle = cur.polled

(* Every handle lives by the contract of HandleLife: it is watched once,   *)
(* reported only while it is watched, never comes back when it was removed *)
(* and drained, whichever calls with a stale pointer to it are under way,  *)
(* and its number is not free before its last event was dealt with.        *)
RegOf(h) ==
    IF state[h] = "NEW" THEN "none"
    ELSE IF handles_[FdOf[h]] = h THEN "in"
    ELSE IF state[h] = "ADD" THEN "pending" ELSE "out"
Life(h) == INSTANCE HandleLife WITH reg <- RegOf(h), open <- Live(h), busy <- Busy(h)
Lives(h) == UNCHANGED Life(h)!vars \/ Life(h)!Next
Untouched == UNCHANGED <<state, handles_, opened, revents_, cur>>
LifeSpec ==
    /\ \A h \in Handle : Life(h)!Init
    /\ [][Untouched \/ \A h \in Handle : Lives(h)]_vars

\* The functor queue behaves as a first-in first-out queue served once.
Fifo == INSTANCE FunctorQueue WITH waiting <- batch \o functors_
FifoSpec == Fifo!Spec

\* A queued functor is started in the end, or the loop was asked to quit.
QueuedFunctorRuns ==
    \A f \in Functor : (\E i \in DOMAIN functors_ : functors_[i] = f) ~> (running = f \/ quit_)

\* A registration or change that waits in updates_ reaches epoll.
UpdateIsDrained ==
    \A fd \in Fd : (updates_[fd] # NoHandle) ~> (updates_[fd] = NoHandle \/ quit_)

\* quit() ends loop(), however many functors and events keep arriving.
QuitEndsLoop == quit_ ~> (lp = "done")
=============================================================================
