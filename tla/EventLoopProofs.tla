--------------------------- MODULE EventLoopProofs ---------------------------
(***************************************************************************)
(* The safety properties of EventLoop, for any number of threads, handles, *)
(* descriptors and functors.                                               *)
(***************************************************************************)
EXTENDS EventLoop, SequenceTheorems, TLAPS

\* A handle whose change waits in updates_, or is on its way there.
Changing(h) ==
    /\ opened[FdOf[h]] = h
    /\ \/ state[h] = "ADD" /\ handles_[FdOf[h]] = NoHandle
       \/ state[h] \in {"MOD", "DEL"} /\ handles_[FdOf[h]] = h

OnItsWay(h) == updates_[FdOf[h]] = h \/ \E t \in Caller : pc[t] = "locked" /\ arg[t] = h

TableInv ==
    /\ \A fd \in Fd : opened[fd] # NoHandle => FdOf[opened[fd]] = fd /\ state[opened[fd]] # "NEW"
    /\ \A fd \in Fd : (epoll[fd] = "absent") <=> (handles_[fd] = NoHandle)
    /\ \A fd \in Fd : handles_[fd] # NoHandle =>
          opened[fd] = handles_[fd] /\ state[handles_[fd]] \in {"LOOP", "MOD", "DEL"}

PendingInv ==
    /\ \A fd \in Fd : updates_[fd] # NoHandle => FdOf[updates_[fd]] = fd /\ Changing(updates_[fd])
    /\ \A fd \in Fd : handles_[fd] # NoHandle /\ state[handles_[fd]] \in {"MOD", "DEL"}
          => OnItsWay(handles_[fd])

LockInv ==
    \A t \in Caller :
        /\ mutex_ = t <=> pc[t] \in {"locked", "quitting"}
        /\ pc[t] \in {"enabled", "locked"} => arg[t] \in Handle /\ opened[FdOf[arg[t]]] = arg[t]
        /\ pc[t] = "locked" => Changing(arg[t])

\* A state says where the handle is: registered, on its way there, or gone.
KnownInv ==
    \A h \in Handle : /\ state[h] \in {"LOOP", "MOD"} => handles_[FdOf[h]] = h
                      /\ state[h] = "ADD" => OnItsWay(h)

AgreeInv ==
    \A fd \in Fd : handles_[fd] # NoHandle =>
        \/ epoll[fd] = interest[handles_[fd]]
        \/ updates_[fd] = handles_[fd]
        \/ \E t \in Caller : pc[t] \in {"enabled", "locked"} /\ arg[t] = handles_[fd]

Dispatching == lp \in {"dispatch", "handler", "evDrain"}
Running == lp \in {"functor", "fnDrain"}

WakeInv == ~Dispatching /\ Len(functors_) > early => WakeUpComing

PassInv ==
    /\ runningFunctors_ <=> Running
    /\ ~Running => batch = <<>> /\ running = NoFunctor
    /\ lp = "fnDrain" => running = NoFunctor

StaleInv ==
    /\ \A e \in revents_ : e # WakeUp => opened[e.fd] = e.polled
    /\ revents_ # {} => Dispatching
    /\ cur.handle = cur.polled

IInv ==
    /\ TypeOK /\ TableInv /\ PendingInv /\ LockInv /\ KnownInv /\ AgreeInv
    /\ WakeInv /\ PassInv /\ StaleInv

-----------------------------------------------------------------------------
(* What a drain needs of the slots up and the states st it is given, and   *)
(* what it leaves: no change waits, every registered handle is in epoll    *)
(* under its own descriptor.                                               *)
DrainPre(up, st) ==
    /\ up \in [Fd -> Handle \cup {NoHandle}] /\ st \in [Handle -> States]
    /\ interest' \in [Handle -> Masks] /\ opened' \in [Fd -> Handle \cup {NoHandle}]
    /\ \A fd \in Fd : up[fd] # NoHandle =>
          /\ FdOf[up[fd]] = fd /\ opened'[fd] = up[fd]
          /\ \/ st[up[fd]] = "ADD" /\ handles_[fd] = NoHandle
             \/ st[up[fd]] \in {"MOD", "DEL"} /\ handles_[fd] = up[fd]
    /\ \A fd \in Fd : handles_[fd] # NoHandle =>
          /\ opened'[fd] = handles_[fd]
          /\ st[handles_[fd]] = "LOOP" \/ up[fd] = handles_[fd]
    /\ \A fd \in Fd : opened'[fd] # NoHandle => FdOf[opened'[fd]] = fd /\ st[opened'[fd]] # "NEW"
    /\ \A fd \in Fd : handles_[fd] # NoHandle =>
          \/ epoll[fd] = interest'[handles_[fd]]
          \/ up[fd] = handles_[fd]
          \/ \E t \in Caller : pc[t] = "enabled" /\ arg[t] = handles_[fd]
    /\ \A h \in Handle : /\ st[h] \in {"LOOP", "MOD"} => handles_[FdOf[h]] = h
                         /\ st[h] = "ADD" => up[FdOf[h]] = h

\* updateHandlesUnlock empties the slots and brings handles_, the states and epoll in line.
LEMMA DrainLemma ==
    ASSUME NEW up, NEW st, TypeOK, TableInv, DrainPre(up, st), Drain(up, st), UNCHANGED <<pc, arg>>
    PROVE  /\ handles_' \in [Fd -> Handle \cup {NoHandle}]
           /\ updates_' \in [Fd -> Handle \cup {NoHandle}]
           /\ state' \in [Handle -> States]
           /\ epoll' \in [Fd -> Masks \cup {"absent"}]
           /\ TableInv' /\ PendingInv' /\ KnownInv' /\ AgreeInv'
PROOF
<1> USE HandleAssumption DEF DrainPre, TypeOK, States, Masks
<1>1. updates_' = [fd \in Fd |-> NoHandle]
  BY DEF Drain, LeftAfterDrain, Empty
<1>2. \A fd \in Fd : handles_'[fd] = IF up[fd] = NoHandle THEN handles_[fd]
                                    ELSE IF st[up[fd]] = "DEL" THEN NoHandle ELSE up[fd]
  BY DEF Drain
<1>3. \A h \in Handle : state'[h] = IF up[FdOf[h]] = h /\ st[h] # "DEL" THEN "LOOP" ELSE st[h]
  BY DEF Drain
<1>4. \A fd \in Fd : epoll'[fd] = IF up[fd] = NoHandle THEN epoll[fd]
                                 ELSE IF st[up[fd]] = "DEL" THEN "absent" ELSE interest'[up[fd]]
  BY DEF Drain, Registration, TableInv
<1>5. handles_' \in [Fd -> Handle \cup {NoHandle}]
  BY DEF Drain
<1>6. state' \in [Handle -> States]
  BY DEF Drain
<1>7. epoll' \in [Fd -> Masks \cup {"absent"}]
  BY DEF Drain, Registration
<1>8. \A fd \in Fd : handles_'[fd] # NoHandle =>
         opened'[fd] = handles_'[fd] /\ state'[handles_'[fd]] = "LOOP"
  BY <1>2, <1>3
<1>9. TableInv'
  BY <1>2, <1>3, <1>4, <1>8 DEF TableInv
<1>10. PendingInv'
  BY <1>1, <1>5, <1>8 DEF PendingInv
<1>11. AgreeInv'
  BY <1>2, <1>4, <1>5 DEF AgreeInv
<1>12. KnownInv'
  BY <1>2, <1>3 DEF KnownInv
<1> QED
  BY <1>1, <1>5, <1>6, <1>7, <1>9, <1>10, <1>11, <1>12

-----------------------------------------------------------------------------
TableParts == TableInv /\ PendingInv /\ LockInv /\ KnownInv /\ AgreeInv
PassParts == WakeInv /\ PassInv /\ StaleInv

\* The invariant holds at first.
LEMMA InitIInv == Init => IInv
PROOF
<1> SUFFICES ASSUME Init PROVE IInv
  OBVIOUS
<1> USE HandleAssumption, CallerAssumption, FunctorAssumption DEF Init, Empty, NoEvent
<1>1. TypeOK
  <2>1. functors_ \in Seq(Functor) /\ batch \in Seq(Functor)
    OBVIOUS
  <2> QED
    BY <2>1 DEF TypeOK, States, Masks
<1>2. TableParts
  BY DEF TableParts, TableInv, PendingInv, LockInv, KnownInv, AgreeInv
<1>3. PassParts
  BY DEF PassParts, WakeInv, PassInv, StaleInv, Dispatching, Running
<1> QED
  BY <1>1, <1>2, <1>3 DEF IInv, TableParts, PassParts

\* Steps that touch neither the handles nor the callers.
LEMMA TableFrame ==
    ASSUME IInv, UNCHANGED <<table, callers>>
    PROVE  TableParts'
PROOF
  BY DEF IInv, TableParts, TableInv, PendingInv, LockInv, KnownInv, AgreeInv, OnItsWay, Changing, table, callers

\* The owner's own calls, and its drains.
LEMMA OwnerDrain ==
    ASSUME IInv, NEW up, NEW st, DrainPre(up, st), Drain(up, st), Free, UNCHANGED callers,
           \A h \in Handle : opened[FdOf[h]] = h => opened'[FdOf[h]] = h
    PROVE  TableParts'
PROOF
<1>1. TableInv' /\ PendingInv' /\ KnownInv' /\ AgreeInv'
  BY DrainLemma DEF IInv, callers
<1>2. LockInv'
  BY CallerAssumption DEF IInv, LockInv, TypeOK, Free, callers
<1> QED
  BY <1>1, <1>2 DEF TableParts

\* The calls of the owner drain with their own slot filled.
LEMMA OwnerAddStep ==
    ASSUME IInv, NEW h \in Handle, OwnerAdd(h), UNCHANGED <<owner, callers>>
    PROVE  DrainPre([updates_ EXCEPT ![FdOf[h]] = h], [state EXCEPT ![h] = "ADD"])
PROOF
<1> DEFINE up == [updates_ EXCEPT ![FdOf[h]] = h]
           st == [state EXCEPT ![h] = "ADD"]
<1> USE HandleAssumption, CallerAssumption DEF IInv, TypeOK, States, Masks
<1>1. \A g \in Handle : /\ st[g] \in {"LOOP", "MOD"} => handles_[FdOf[g]] = g
                        /\ st[g] = "ADD" => up[FdOf[g]] = g
  <2> SUFFICES ASSUME NEW g \in Handle, g # h
               PROVE  /\ state[g] \in {"LOOP", "MOD"} => handles_[FdOf[g]] = g
                      /\ state[g] = "ADD" => up[FdOf[g]] = g
    OBVIOUS
  <2>1. state[g] = "ADD" => updates_[FdOf[g]] = g
    BY DEF OwnerAdd, Free, LockInv, KnownInv, OnItsWay
  <2>2. updates_[FdOf[g]] = g => FdOf[g] # FdOf[h]
    BY DEF OwnerAdd, PendingInv, Changing
  <2> QED
    BY <2>1, <2>2 DEF KnownInv
<1> HIDE DEF up, st
<1>2. up = [updates_ EXCEPT ![FdOf[h]] = h] /\ st = [state EXCEPT ![h] = "ADD"]
  BY DEF up, st
<1>3. DrainPre(up, st)
  BY <1>1, <1>2 DEF TableInv, PendingInv, LockInv, AgreeInv, OnItsWay, Changing, OwnerAdd, DrainPre, Free
<1> QED
  BY <1>2, <1>3

\* modHandle and delHandle of the owner drain with the slot of the registered handle filled.
LEMMA RequestStep ==
    ASSUME IInv, NEW h \in Handle, Free, Live(h), Found(h) # NoHandle, UNCHANGED opened,
           interest' \in [Handle -> Masks],
           \A g \in Handle : g # h => interest'[g] = interest[g],
           NEW s \in {"MOD", "DEL"}
    PROVE  DrainPre([updates_ EXCEPT ![FdOf[h]] = Found(h)], [state EXCEPT ![Found(h)] = s])
PROOF
  BY HandleAssumption, CallerAssumption DEF IInv, TypeOK, TableInv, PendingInv, LockInv, KnownInv, AgreeInv, OnItsWay, Changing,
     DrainPre, Free, Live, Found, States, Masks

\* The drain of what waits in updates_.
LEMMA UpdateStep ==
    ASSUME IInv, Free, UNCHANGED <<interest, opened, callers>>
    PROVE  DrainPre(updates_, state)
PROOF
<1> USE HandleAssumption, CallerAssumption
<1>1. \A t \in Caller : pc[t] # "locked"
  BY DEF IInv, LockInv, TypeOK, Free
<1>2. \A fd \in Fd : handles_[fd] # NoHandle => FdOf[handles_[fd]] = fd
  BY DEF IInv, TableInv, TypeOK
<1>3. \A fd \in Fd : handles_[fd] # NoHandle => state[handles_[fd]] = "LOOP" \/ updates_[fd] = handles_[fd]
  BY <1>1, <1>2 DEF IInv, TypeOK, TableInv, PendingInv, OnItsWay
<1>4. \A h \in Handle : state[h] = "ADD" => updates_[FdOf[h]] = h
  BY <1>1 DEF IInv, KnownInv, OnItsWay
<1> QED
  BY <1>1, <1>2, <1>3, <1>4 DEF DrainPre, IInv, TypeOK, TableInv, PendingInv, KnownInv, AgreeInv, Changing

-----------------------------------------------------------------------------
\* The handles and the callers, one action at a time.
LEMMA TableStep ==
    ASSUME IInv, Next
    PROVE  TableParts'
PROOF
<1> USE HandleAssumption, CallerAssumption
<1>1. CASE Loop
  <2>1. CASE UpdateHandles
    <3>1. CASE updates_ = Empty
      BY <2>1, <3>1, TableFrame DEF UpdateHandles
    <3>2. CASE updates_ # Empty
      <4>1. Free /\ UNCHANGED <<interest, opened, callers>> /\ Drain(updates_, state)
        BY <2>1, <3>2 DEF UpdateHandles
      <4> QED
        BY <4>1, UpdateStep, OwnerDrain
    <3> QED
      BY <3>1, <3>2
  <2>2. CASE ~UpdateHandles
    <3>1. UNCHANGED <<table, callers>>
      BY <1>1, <2>2 DEF Loop, EnterLoop, TestQuit, PollWait, HandWakeUp, Dispatch, HandlerReturns,
         RunFunctors, StartFunctor, FunctorReturns, EndFunctors, NextPass, rest
    <3> QED
      BY <3>1, TableFrame
  <2> QED
    BY <2>1, <2>2
<1>2. CASE Callback
  <2> USE <1>2
  <2>1. ASSUME NEW h \in Handle, OwnerAdd(h) PROVE TableParts'
    <3>1. DrainPre([updates_ EXCEPT ![FdOf[h]] = h], [state EXCEPT ![h] = "ADD"])
      BY <2>1, OwnerAddStep DEF Callback
    <3> QED
      BY <2>1, <3>1, OwnerDrain DEF Callback, OwnerAdd, IInv, TypeOK
  <2>2. ASSUME NEW h \in Handle, NEW m \in Masks, OwnerMod(h, m) PROVE TableParts'
    <3>1. CASE Found(h) = NoHandle
      <4>1. UNCHANGED <<handles_, updates_, state, epoll, opened, callers>>
        BY <2>2, <3>1 DEF OwnerMod, Request, Callback
      <4>2. \A g \in Handle : g # h => interest'[g] = interest[g]
        BY <2>2 DEF OwnerMod, IInv, TypeOK
      <4>3. \A fd \in Fd : handles_[fd] # h
        BY <2>2, <3>1 DEF OwnerMod, Found, Live, IInv, TableInv, TypeOK
      <4>4. AgreeInv'
        BY <4>1, <4>2, <4>3 DEF AgreeInv, IInv, TypeOK, callers
      <4> QED
        BY <4>1, <4>4 DEF TableParts, IInv, TableInv, PendingInv, LockInv, KnownInv, OnItsWay, Changing, callers
    <3>2. CASE Found(h) # NoHandle
      <4>1. DrainPre([updates_ EXCEPT ![FdOf[h]] = Found(h)], [state EXCEPT ![Found(h)] = "MOD"])
        BY <2>2, <3>2, RequestStep DEF OwnerMod, IInv, TypeOK
      <4> QED
        BY <2>2, <3>2, <4>1, OwnerDrain DEF OwnerMod, Request, Callback
    <3> QED
      BY <3>1, <3>2
  <2>3. ASSUME NEW h \in Handle, OwnerDel(h) PROVE TableParts'
    <3>1. CASE Found(h) = NoHandle
      BY <2>3, <3>1, TableFrame DEF OwnerDel, Request, Callback, table
    <3>2. CASE Found(h) # NoHandle
      <4>1. DrainPre([updates_ EXCEPT ![FdOf[h]] = Found(h)], [state EXCEPT ![Found(h)] = "DEL"])
        BY <2>3, <3>2, RequestStep DEF OwnerDel, IInv, TypeOK
      <4> QED
        BY <2>3, <3>2, <4>1, OwnerDrain DEF OwnerDel, Request, Callback
    <3> QED
      BY <3>1, <3>2
  <2>4. ASSUME NEW f \in Functor, OwnerQueue(f) PROVE TableParts'
    BY <2>4, TableFrame DEF OwnerQueue, Callback
  <2>5. CASE OwnerQuit
    BY <2>5, TableFrame DEF OwnerQuit, Callback
  <2> QED
    BY <2>1, <2>2, <2>3, <2>4, <2>5 DEF Callback
<1>3. ASSUME NEW h \in Handle, CloseFd(h) PROVE TableParts'
  BY <1>3 DEF CloseFd, IInv, TypeOK, TableParts, TableInv, PendingInv, LockInv, KnownInv, AgreeInv, OnItsWay, Changing,
     Live, callers
<1>4. ASSUME NEW t \in Caller, Calls(t) PROVE TableParts'
  <2> USE DEF IInv, TypeOK, TableParts, TableInv, PendingInv, LockInv, KnownInv, AgreeInv, OnItsWay, Changing,
          Live, Found, Free, Lock, Return, States, Masks
  <2>1. ASSUME NEW h \in Handle, CallAdd(t, h) PROVE TableParts'
    <3>1. TableInv' /\ PendingInv'
      BY <2>1 DEF CallAdd
    <3>2. LockInv'
      BY <2>1 DEF CallAdd
    <3>3. KnownInv'
      <4>1. \A g \in Handle : g # h /\ state[g] = "ADD" => updates_[FdOf[g]] = g
        BY <2>1 DEF CallAdd
      <4>2. pc'[t] = "locked" /\ arg'[t] = h /\ state'[h] = "ADD" /\ UNCHANGED <<handles_, updates_>>
            /\ \A g \in Handle : g # h => state'[g] = state[g]
        BY <2>1 DEF CallAdd
      <4> QED
        BY <4>1, <4>2
    <3>4. AgreeInv'
      BY <2>1 DEF CallAdd
    <3> QED
      BY <3>1, <3>2, <3>3, <3>4
  <2>2. ASSUME NEW h \in Handle, CallDel(t, h) PROVE TableParts'
    BY <2>2 DEF CallDel
  <2>3. ASSUME NEW h \in Handle, NEW m \in Masks, Enable(t, h, m) PROVE TableParts'
    BY <2>3 DEF Enable
  <2>4. CASE CallMod(t)
    <3>1. CASE Found(arg[t]) = NoHandle
      <4>1. TableInv' /\ LockInv'
        BY <2>4, <3>1 DEF CallMod
      <4>2. PendingInv' /\ KnownInv'
        BY <2>4, <3>1 DEF CallMod
      <4>3. AgreeInv'
        BY <2>4, <3>1 DEF CallMod
      <4> QED
        BY <4>1, <4>2, <4>3
    <3>2. CASE Found(arg[t]) # NoHandle
      <4>1. TableInv' /\ PendingInv'
        BY <2>4, <3>2 DEF CallMod
      <4>2. LockInv'
        BY <2>4, <3>2 DEF CallMod
      <4>3. KnownInv'
        BY <2>4, <3>2 DEF CallMod
      <4>4. AgreeInv'
        BY <2>4, <3>2 DEF CallMod
      <4> QED
        BY <4>1, <4>2, <4>3, <4>4
    <3> QED
      BY <3>1, <3>2
  <2>5. CASE UpdateHandle(t)
    BY <2>5 DEF UpdateHandle
  <2>6. ASSUME NEW f \in Functor, CallQueue(t, f) PROVE TableParts'
    BY <2>6 DEF CallQueue, table
  <2>7. CASE CallWakeUp(t)
    BY <2>7 DEF CallWakeUp, table
  <2>8. CASE CallQuit(t)
    BY <2>8 DEF CallQuit, table
  <2>9. CASE QuitWakeUp(t)
    BY <2>9 DEF QuitWakeUp, table
  <2> QED
    BY <1>4, <2>1, <2>2, <2>3, <2>4, <2>5, <2>6, <2>7, <2>8, <2>9 DEF Calls, Finish
<1> QED
  BY <1>1, <1>2, <1>3, <1>4 DEF Next

-----------------------------------------------------------------------------
TableType ==
    /\ handles_ \in [Fd -> Handle \cup {NoHandle}]
    /\ updates_ \in [Fd -> Handle \cup {NoHandle}]
    /\ state \in [Handle -> States]
    /\ interest \in [Handle -> Masks]
    /\ epoll \in [Fd -> Masks \cup {"absent"}]
    /\ opened \in [Fd -> Handle \cup {NoHandle}]

\* A drain keeps the types.
LEMMA DrainType ==
    ASSUME TypeOK, NEW up \in [Fd -> Handle \cup {NoHandle}], NEW st \in [Handle -> States], Drain(up, st),
           interest' \in [Handle -> Masks], opened' \in [Fd -> Handle \cup {NoHandle}]
    PROVE  TableType'
PROOF
<1> USE HandleAssumption DEF TypeOK
<1>1. updates_' \in [Fd -> Handle \cup {NoHandle}]
  BY DEF Drain, LeftAfterDrain, Empty
<1>2. handles_' \in [Fd -> Handle \cup {NoHandle}]
  BY DEF Drain
<1>3. state' \in [Handle -> States]
  BY DEF Drain, States
<1>4. epoll' \in [Fd -> Masks \cup {"absent"}]
  BY DEF Drain, Registration
<1> QED
  BY <1>1, <1>2, <1>3, <1>4 DEF TableType

\* Every step keeps the types.
LEMMA TypeStep ==
    ASSUME IInv, Next
    PROVE  TypeOK'
PROOF
<1> USE HandleAssumption, CallerAssumption, FunctorAssumption
<1>t. TypeOK /\ TableType
  BY DEF IInv, TypeOK, TableType
<1>1. CASE Loop
  <2>1. CASE UpdateHandles
    <3>1. TableType'
      BY <1>t, <2>1, DrainType DEF UpdateHandles, TableType, table
    <3> QED
      BY <1>t, <2>1, <3>1 DEF UpdateHandles, Goto, TypeOK, TableType, queue, signal, callers
  <2>2. CASE PollWait
    <3>1. \A fd \in Fd : epoll[fd] # "absent" => opened[fd] \in Handle
      BY DEF IInv, TypeOK, TableInv
    <3>2. revents_' \subseteq [fd : Fd, polled : Handle] \cup {WakeUp}
      BY <2>2, <3>1 DEF PollWait
    <3> QED
      BY <1>t, <2>2, <3>2 DEF PollWait, Goto, TypeOK, table, queue, signal, callers
  <2>3. ASSUME NEW e \in revents_, Dispatch(e) PROVE TypeOK'
    BY <1>t, <2>3 DEF Dispatch, TypeOK, table, queue, signal, callers
  <2>4. CASE RunFunctors
    BY <1>t, <2>4 DEF RunFunctors, Goto, TypeOK, table, signal, callers
  <2>5. CASE StartFunctor
    BY <1>t, <2>5 DEF StartFunctor, TypeOK, table, signal, owner, callers
  <2>6. CASE HandWakeUp
    BY <1>t, <2>6 DEF HandWakeUp, Goto, TypeOK, table, queue, callers
  <2>7. CASE EnterLoop \/ TestQuit \/ NextPass
    BY <1>t, <2>7 DEF EnterLoop, TestQuit, NextPass, Goto, MustStop, TypeOK, rest, table, queue, signal, callers
  <2>8. CASE HandlerReturns
    BY <1>t, <2>8 DEF HandlerReturns, Goto, NoEvent, TypeOK, table, queue, signal, callers
  <2>9. CASE FunctorReturns
    BY <1>t, <2>9 DEF FunctorReturns, Goto, TypeOK, table, signal, callers
  <2>10. CASE EndFunctors
    BY <1>t, <2>10 DEF EndFunctors, Goto, TypeOK, table, signal, callers
  <2> QED
    BY <1>1, <2>1, <2>2, <2>3, <2>4, <2>5, <2>6, <2>7, <2>8, <2>9, <2>10 DEF Loop
<1>2. CASE Callback
  <2>1. UNCHANGED <<owner, callers>>
    BY <1>2 DEF Callback
  <2>2. ASSUME NEW h \in Handle, OwnerAdd(h) PROVE TypeOK'
    <3>1. TableType'
      BY <1>t, <2>2, DrainType DEF OwnerAdd, TypeOK, States
    <3> QED
      BY <1>t, <2>1, <2>2, <3>1 DEF OwnerAdd, TypeOK, TableType, queue, signal, owner, callers
  <2>3. ASSUME NEW h \in Handle, NEW s \in {"MOD", "DEL"}, Request(h, s), UNCHANGED opened,
               interest' \in [Handle -> Masks], UNCHANGED <<queue, signal>>
        PROVE  TypeOK'
    <3>1. TableType'
      BY <1>t, <2>3, DrainType DEF Request, Found, TypeOK, TableType, States
    <3> QED
      BY <1>t, <2>1, <2>3, <3>1 DEF TypeOK, TableType, queue, signal, owner, callers
  <2>4. ASSUME NEW h \in Handle, NEW m \in Masks, OwnerMod(h, m) PROVE TypeOK'
    BY <1>t, <2>3, <2>4 DEF OwnerMod, TypeOK
  <2>5. ASSUME NEW h \in Handle, OwnerDel(h) PROVE TypeOK'
    BY <1>t, <2>3, <2>5 DEF OwnerDel, TypeOK
  <2>6. ASSUME NEW f \in Functor, OwnerQueue(f) PROVE TypeOK'
    BY <1>t, <2>1, <2>6 DEF OwnerQueue, NeedsWakeUp, TypeOK, table, owner, callers
  <2>7. CASE OwnerQuit
    BY <1>t, <2>1, <2>7 DEF OwnerQuit, TypeOK, table, queue, owner, callers
  <2> QED
    BY <1>2, <2>2, <2>4, <2>5, <2>6, <2>7 DEF Callback
<1>3. ASSUME NEW h \in Handle, CloseFd(h) PROVE TypeOK'
  BY <1>t, <1>3 DEF CloseFd, TypeOK, queue, signal, owner, callers
<1>4. ASSUME NEW t \in Caller, Calls(t) PROVE TypeOK'
  <2>0. ASSUME NEW h \in Handle, NEW s \in {"ADD", "MOD", "DEL"}, Lock(t, h, s)
        PROVE  /\ mutex_' \in Caller \cup {NoCaller}
               /\ state' \in [Handle -> States]
               /\ pc' \in [Caller -> {"idle", "enabled", "locked", "queued", "quitting"}]
               /\ arg' \in [Caller -> Handle \cup {NoHandle}]
    BY <1>t, <2>0 DEF Lock, TypeOK, States
  <2> USE DEF TypeOK, Return, Found, queue, signal, owner
  <2>1. ASSUME NEW h \in Handle, CallAdd(t, h) PROVE TypeOK'
    BY <1>t, <2>0, <2>1 DEF CallAdd
  <2>9. ASSUME NEW h \in Handle, CallDel(t, h) PROVE TypeOK'
    BY <1>t, <2>0, <2>9 DEF CallDel
  <2>2. ASSUME NEW h \in Handle, NEW m \in Masks, Enable(t, h, m) PROVE TypeOK'
    BY <1>t, <2>2 DEF Enable
  <2>3. CASE CallMod(t)
    <3>1. CASE Found(arg[t]) = NoHandle
      BY <1>t, <2>3, <3>1 DEF CallMod
    <3>2. CASE Found(arg[t]) # NoHandle
      BY <1>t, <2>0, <2>3, <3>2 DEF CallMod, IInv, LockInv
    <3> QED
      BY <3>1, <3>2
  <2>4. CASE UpdateHandle(t)
    BY <1>t, <2>4 DEF UpdateHandle, IInv, LockInv
  <2>5. ASSUME NEW f \in Functor, CallQueue(t, f) PROVE TypeOK'
    <3>1. functors_' \in Seq(Functor) /\ pc' = [pc EXCEPT ![t] = "queued"]
      BY <1>t, <2>5 DEF CallQueue
    <3> QED
      BY <1>t, <2>5, <3>1 DEF CallQueue, table
  <2>6. CASE CallWakeUp(t)
    BY <1>t, <2>6 DEF CallWakeUp, table
  <2>7. CASE CallQuit(t)
    BY <1>t, <2>7 DEF CallQuit, table
  <2>8. CASE QuitWakeUp(t)
    BY <1>t, <2>8 DEF QuitWakeUp, table
  <2> QED
    BY <1>4, <2>1, <2>2, <2>3, <2>4, <2>5, <2>6, <2>7, <2>8, <2>9 DEF Calls, Finish
<1> QED
  BY <1>1, <1>2, <1>3, <1>4 DEF Next

-----------------------------------------------------------------------------
\* The wake-ups, the pass of the owner and the events it dispatches.
LEMMA PassStep ==
    ASSUME IInv, Next
    PROVE  PassParts'
PROOF
<1> USE HandleAssumption, CallerAssumption, FunctorAssumption
<1> USE DEF PassParts, WakeInv, PassInv, StaleInv, WakeUpComing, Dispatching, Running
<1>t. TypeOK /\ PassParts
  BY DEF IInv
<1>1. CASE Loop
  <2>1. CASE EnterLoop \/ TestQuit \/ NextPass
    BY <1>t, <2>1 DEF EnterLoop, TestQuit, NextPass, Goto, MustStop, TypeOK, rest, table, queue, signal, callers
  <2>2. CASE UpdateHandles
    <3>1. UNCHANGED opened
      BY <2>2 DEF UpdateHandles, table
    <3> QED
      BY <1>t, <2>2, <3>1 DEF UpdateHandles, Goto, TypeOK, queue, signal, callers
  <2>3. CASE PollWait
    <3>1. \A e \in revents_' : e # WakeUp => opened[e.fd] = e.polled
      BY <2>3 DEF PollWait
    <3> QED
      BY <1>t, <2>3, <3>1 DEF PollWait, Goto, TypeOK, table, queue, signal, callers
  <2>4. CASE HandWakeUp
    BY <1>t, <2>4 DEF HandWakeUp, Goto, TypeOK, table, queue, callers
  <2>5. ASSUME NEW e \in revents_, Dispatch(e) PROVE PassParts'
    <3>1. e # WakeUp /\ e \in [fd : Fd, polled : Handle] /\ opened[e.fd] = e.polled
      BY <1>t, <2>5 DEF Dispatch, TypeOK
    <3>2. cur'.handle = cur'.polled
      BY <1>t, <2>5, <3>1 DEF Dispatch, IInv, TableInv
    <3> QED
      BY <1>t, <2>5, <3>2 DEF Dispatch, TypeOK, table, queue, signal, callers
  <2>6. CASE HandlerReturns
    BY <1>t, <2>6 DEF HandlerReturns, Goto, NoEvent, TypeOK, table, queue, signal, callers
  <2>7. CASE RunFunctors
    <3>1. Len(functors_') = 0 /\ early' = 0
      BY <2>7 DEF RunFunctors
    <3> QED
      BY <1>t, <2>7, <3>1 DEF RunFunctors, Goto, TypeOK, table, signal, callers
  <2>8. CASE StartFunctor
    BY <1>t, <2>8 DEF StartFunctor, TypeOK, table, signal, owner, callers
  <2>9. CASE FunctorReturns
    BY <1>t, <2>9 DEF FunctorReturns, Goto, TypeOK, table, signal, callers
  <2>10. CASE EndFunctors
    BY <1>t, <2>10 DEF EndFunctors, Goto, AllRun, TypeOK, table, signal, callers
  <2> QED
    BY <1>1, <2>1, <2>2, <2>3, <2>4, <2>5, <2>6, <2>7, <2>8, <2>9, <2>10 DEF Loop
<1>2. CASE Callback
  <2>1. lp \in {"start", "handler", "functor"} /\ UNCHANGED <<owner, callers>>
    BY <1>2 DEF Callback
  <2>2. ASSUME UNCHANGED <<queue, signal>>,
               \A fd \in Fd : opened[fd] # NoHandle => opened'[fd] = opened[fd]
        PROVE  PassParts'
    <3>1. \A e \in revents_ : e # WakeUp => opened'[e.fd] = e.polled
      BY <1>t, <2>2 DEF TypeOK
    <3> QED
      BY <1>t, <2>1, <2>2, <3>1 DEF TypeOK, queue, signal, owner, callers
  <2>3. ASSUME NEW h \in Handle, OwnerAdd(h) PROVE PassParts'
    BY <1>t, <2>2, <2>3 DEF OwnerAdd, TypeOK
  <2>4. ASSUME NEW h \in Handle, NEW m \in Masks, OwnerMod(h, m) PROVE PassParts'
    BY <2>2, <2>4 DEF OwnerMod
  <2>5. ASSUME NEW h \in Handle, OwnerDel(h) PROVE PassParts'
    BY <2>2, <2>5 DEF OwnerDel
  <2>6. ASSUME NEW f \in Functor, OwnerQueue(f) PROVE PassParts'
    <3>1. Len(functors_') = Len(functors_) + 1 /\ Len(functors_) \in Nat
      BY <1>t, <2>6 DEF OwnerQueue, TypeOK
    <3> QED
      BY <1>t, <2>1, <2>6, <3>1 DEF OwnerQueue, NeedsWakeUp, TypeOK, table, owner, callers
  <2>7. CASE OwnerQuit
    BY <1>t, <2>1, <2>7 DEF OwnerQuit, TypeOK, table, queue, owner, callers
  <2> QED
    BY <1>2, <2>3, <2>4, <2>5, <2>6, <2>7 DEF Callback
<1>3. ASSUME NEW h \in Handle, CloseFd(h) PROVE PassParts'
  BY <1>t, <1>3 DEF CloseFd, MayClose, Busy, Live, TypeOK, queue, signal, owner, callers
<1>4. ASSUME NEW t \in Caller, Calls(t) PROVE PassParts'
  <2>1. ASSUME UNCHANGED <<queue, owner>>,
               \A fd \in Fd : opened[fd] # NoHandle => opened'[fd] = opened[fd],
               WakeUpComing => WakeUpComing'
        PROVE  PassParts'
    <3>1. \A e \in revents_ : e # WakeUp => opened'[e.fd] = e.polled
      BY <1>t, <2>1 DEF TypeOK
    <3> QED
      BY <1>t, <2>1, <3>1 DEF TypeOK, queue, owner
  <2>2. ASSUME NEW h \in Handle, CallAdd(t, h) PROVE PassParts'
    BY <1>t, <2>1, <2>2 DEF CallAdd, Lock, TypeOK, signal
  <2>3. ASSUME NEW h \in Handle, CallDel(t, h) PROVE PassParts'
    BY <1>t, <2>1, <2>3 DEF CallDel, Lock, TypeOK, signal
  <2>4. ASSUME NEW h \in Handle, NEW m \in Masks, Enable(t, h, m) PROVE PassParts'
    BY <1>t, <2>1, <2>4 DEF Enable, TypeOK, signal
  <2>5. CASE CallMod(t)
    BY <1>t, <2>1, <2>5 DEF CallMod, Lock, Return, TypeOK, signal
  <2>6. CASE UpdateHandle(t)
    BY <1>t, <2>1, <2>6 DEF UpdateHandle, Return, TypeOK, signal
  <2>7. ASSUME NEW f \in Functor, CallQueue(t, f) PROVE PassParts'
    <3>1. WakeUpComing'
      BY <1>t, <2>7 DEF CallQueue, TypeOK
    <3> QED
      BY <1>t, <2>7, <3>1 DEF CallQueue, TypeOK, table, owner
  <2>8. CASE CallWakeUp(t)
    BY <1>t, <2>1, <2>8 DEF CallWakeUp, TypeOK, table
  <2>9. CASE CallQuit(t)
    BY <1>t, <2>1, <2>9 DEF CallQuit, TypeOK, table
  <2>10. CASE QuitWakeUp(t)
    BY <1>t, <2>1, <2>10 DEF QuitWakeUp, TypeOK, table
  <2> QED
    BY <1>4, <2>2, <2>3, <2>4, <2>5, <2>6, <2>7, <2>8, <2>9, <2>10 DEF Calls, Finish
<1> QED
  BY <1>1, <1>2, <1>3, <1>4 DEF Next

\* A step that changes nothing keeps the invariant.
LEMMA StutterIInv == IInv /\ UNCHANGED vars => IInv'
PROOF
  BY TableFrame DEF IInv, TypeOK, TableParts, WakeInv, PassInv, StaleInv, WakeUpComing, Dispatching, Running,
     vars, table, queue, signal, owner, callers

\* Every step keeps the invariant.
LEMMA StepIInv == IInv /\ [Next]_vars => IInv'
PROOF
  BY TypeStep, TableStep, PassStep, StutterIInv DEF IInv, TableParts, PassParts

-----------------------------------------------------------------------------
\* The inductive invariant holds in every reachable state of the loop.
THEOREM InductiveInvariant == Spec => []IInv
PROOF
  BY InitIInv, StepIInv, PTL DEF Spec

\* Every variable of the loop keeps its type.
THEOREM TypeCorrect == Spec => []TypeOK
PROOF
<1>1. IInv => TypeOK
  BY DEF IInv
<1> QED
  BY <1>1, InductiveInvariant, PTL

\* updateHandlesUnlock never meets the state it asserts against, and never
\* asks epoll for something it refuses (base/EventLoop.cpp, l. 147-170).
THEOREM DrainIsAlwaysLegal == Spec => []DrainIsLegal
PROOF
<1>1. IInv => DrainIsLegal
  BY HandleAssumption DEF IInv, DrainIsLegal, PendingInv, Changing, TableInv, TypeOK, States
<1> QED
  BY <1>1, InductiveInvariant, PTL

\* Before each poll that follows the last call, epoll agrees with handles_.
THEOREM EpollAlwaysAgrees == Spec => []EpollAgrees
PROOF
<1>1. IInv => EpollAgrees
  <2> SUFFICES ASSUME IInv, updates_ = Empty, \A t \in Caller : pc[t] \notin {"enabled", "locked"},
                      NEW fd \in Fd
               PROVE  epoll[fd] = IF handles_[fd] = NoHandle THEN "absent" ELSE interest[handles_[fd]]
    BY DEF EpollAgrees
  <2>1. updates_[fd] = NoHandle
    BY DEF Empty
  <2> QED
    BY <2>1 DEF IInv, AgreeInv, TableInv
<1> QED
  BY <1>1, InductiveInvariant, PTL

\* The loop never sleeps on a functor queued while it runs (l. 225-254).
THEOREM WakeUpIsNeverLost == Spec => []NoLostWakeUp
PROOF
<1>1. IInv => NoLostWakeUp
  BY DEF IInv, NoLostWakeUp, WakeInv, Dispatching
<1> QED
  BY <1>1, InductiveInvariant, PTL

\* Descriptor numbers may be reused, events are not misdelivered (l. 277-294).
THEOREM DispatchIsNeverStale == Spec => []NoStaleDispatch
PROOF
<1>1. IInv => NoStaleDispatch
  BY DEF IInv, NoStaleDispatch, StaleInv
<1> QED
  BY <1>1, InductiveInvariant, PTL

-----------------------------------------------------------------------------
(* The life of each handle: every step is one of HandleLife's, or none.    *)

\* What a drain makes of a handle, by the state st that it finds.
LEMMA DrainLife ==
    ASSUME IInv, NEW up, NEW st, DrainPre(up, st), Drain(up, st), NEW h \in Handle
    PROVE  /\ st[h] = "NEW" => state'[h] = "NEW"
           /\ st[h] = "ADD" => state'[h] = "LOOP" /\ handles_'[FdOf[h]] = h
           /\ st[h] \in {"LOOP", "MOD"} => state'[h] = "LOOP" /\ handles_'[FdOf[h]] = h
           /\ st[h] = "DEL" => state'[h] = "DEL"
           /\ st[h] = "DEL" /\ handles_[FdOf[h]] # h => handles_'[FdOf[h]] # h
PROOF
<1> USE HandleAssumption DEF DrainPre, IInv, TypeOK, States
<1> DEFINE fd == FdOf[h]
<1>1. handles_'[fd] = IF up[fd] = NoHandle THEN handles_[fd]
                      ELSE IF st[up[fd]] = "DEL" THEN NoHandle ELSE up[fd]
  BY DEF Drain
<1>2. state'[h] = IF up[fd] = h /\ st[h] # "DEL" THEN "LOOP" ELSE st[h]
  BY DEF Drain
<1>3. h # NoHandle /\ fd \in Fd
  OBVIOUS
<1>4. st[h] \in {"LOOP", "MOD"} => state'[h] = "LOOP" /\ handles_'[fd] = h
  BY <1>1, <1>2, <1>3
<1>5. st[h] = "ADD" => state'[h] = "LOOP" /\ handles_'[fd] = h
  BY <1>1, <1>2, <1>3
<1>6. st[h] = "NEW" => state'[h] = "NEW"
  BY <1>2, <1>3
<1>7. st[h] = "DEL" /\ handles_[fd] # h => handles_'[fd] # h
  BY <1>1, <1>3
<1> QED
  BY <1>2, <1>4, <1>5, <1>6, <1>7

\* Registration moves on while nothing else of the handle changes.
LEMMA RegMoves ==
    ASSUME NEW h \in Handle, Live(h)' = Live(h), Busy(h)' = Busy(h),
           \/ RegOf(h)' = RegOf(h)
           \/ RegOf(h) = "pending" /\ RegOf(h)' = "in"
           \/ RegOf(h) = "in" /\ RegOf(h)' = "out"
    PROVE  Lives(h)
PROOF
<1>1. CASE RegOf(h)' = RegOf(h)
  BY <1>1 DEF Lives, Life!vars
<1>2. CASE RegOf(h) = "pending" /\ RegOf(h)' = "in"
  <2>1. Busy(h)' \in BOOLEAN
    BY DEF Busy
  <2> QED
    BY <1>2, <2>1 DEF Lives, Life!Next, Life!Watch
<1>3. CASE RegOf(h) = "in" /\ RegOf(h)' = "out"
  BY <1>3 DEF Lives, Life!Next, Life!Remove
<1> QED
  BY <1>1, <1>2, <1>3

\* A drain watches what was pending and forgets what was removed.
LEMMA DrainLives ==
    ASSUME IInv, NEW up, NEW st, DrainPre(up, st), Drain(up, st), NEW h \in Handle,
           Live(h)' = Live(h), UNCHANGED <<revents_, cur>>,
           st[h] = state[h] \/ (handles_[FdOf[h]] = h /\ st[h] \in {"MOD", "DEL"} /\ state[h] # "NEW")
    PROVE  Lives(h)
PROOF
<1>1. Busy(h)' = Busy(h)
  BY DEF Busy
<1>2. state[h] \in States /\ st[h] \in States
  BY DEF IInv, TypeOK, DrainPre
<1>3. state[h] \in {"LOOP", "MOD"} => handles_[FdOf[h]] = h
  BY DEF IInv, KnownInv
<1>4. state[h] = "NEW" => handles_[FdOf[h]] # h
  BY HandleAssumption DEF IInv, TableInv, TypeOK
<1>5. \/ RegOf(h)' = RegOf(h)
      \/ RegOf(h) = "pending" /\ RegOf(h)' = "in"
      \/ RegOf(h) = "in" /\ RegOf(h)' = "out"
  BY DrainLife, <1>2, <1>3, <1>4 DEF RegOf, States
<1> QED
  BY <1>1, <1>5, RegMoves

\* The calls of the owner: of another handle, of this one, and of one that may be either.
LEMMA CallbackLives ==
    ASSUME IInv, Callback, NEW h \in Handle
    PROVE  Untouched \/ Lives(h)
PROOF
<1> USE HandleAssumption
<1>o. UNCHANGED <<revents_, cur, callers>>
  BY DEF Callback, owner
<1>b. Busy(h)' = Busy(h)
  BY <1>o DEF Busy
<1>r. ASSUME NEW g \in Handle, NEW s \in {"MOD", "DEL"}, Free, Live(g), Request(g, s), UNCHANGED opened,
             interest' \in [Handle -> Masks], \A k \in Handle : k # g => interest'[k] = interest[k]
      PROVE  Untouched \/ Lives(h)
  <2>1. CASE Found(g) = NoHandle
    BY <1>o, <1>r, <2>1 DEF Request, Untouched
  <2>2. CASE Found(g) # NoHandle
    <3> DEFINE up == [updates_ EXCEPT ![FdOf[g]] = Found(g)]
               st == [state EXCEPT ![Found(g)] = s]
    <3>1. DrainPre(up, st)
      BY <1>r, <2>2, RequestStep
    <3>2. Drain(up, st)
      BY <1>r, <2>2 DEF Request
    <3>3. st[h] = state[h] \/ (handles_[FdOf[h]] = h /\ st[h] \in {"MOD", "DEL"} /\ state[h] # "NEW")
      BY <1>r, <2>2 DEF Found, IInv, TypeOK, TableInv
    <3>4. Live(h)' = Live(h)
      BY <1>r DEF Live
    <3> HIDE DEF up, st
    <3> QED
      BY <1>o, <3>1, <3>2, <3>3, <3>4, DrainLives
  <2> QED
    BY <2>1, <2>2
<1>1. ASSUME NEW g \in Handle, OwnerAdd(g) PROVE Lives(h)
  <2> DEFINE up == [updates_ EXCEPT ![FdOf[g]] = g]
             st == [state EXCEPT ![g] = "ADD"]
  <2>1. DrainPre(up, st)
    BY <1>1, OwnerAddStep DEF Callback
  <2>2. Drain(up, st)
    BY <1>1 DEF OwnerAdd
  <2>3. CASE g = h
    <3>1. st[h] = "ADD"
      BY <2>3 DEF IInv, TypeOK
    <3> HIDE DEF up, st
    <3>2. RegOf(h)' = "in"
      BY <2>1, <2>2, <3>1, DrainLife DEF RegOf
    <3>3. RegOf(h) = "none" /\ Live(h)' = TRUE
      BY <1>1, <2>3 DEF OwnerAdd, RegOf, Live, IInv, TypeOK
    <3> QED
      BY <1>b, <3>2, <3>3 DEF Lives, Life!Next, Life!Register
  <2>4. CASE g # h
    <3>1. st[h] = state[h]
      BY <2>4 DEF IInv, TypeOK
    <3>2. Live(h)' = Live(h)
      BY <1>1, <2>4 DEF OwnerAdd, Live, IInv, TypeOK
    <3> HIDE DEF up, st
    <3> QED
      BY <1>o, <2>1, <2>2, <3>1, <3>2, DrainLives
  <2> QED
    BY <2>3, <2>4
<1>2. ASSUME NEW g \in Handle, NEW m \in Masks, OwnerMod(g, m) PROVE Untouched \/ Lives(h)
  BY <1>r, <1>2 DEF OwnerMod, IInv, TypeOK
<1>3. ASSUME NEW g \in Handle, OwnerDel(g) PROVE Untouched \/ Lives(h)
  BY <1>r, <1>3 DEF OwnerDel, IInv, TypeOK
<1>4. ASSUME NEW f \in Functor, OwnerQueue(f) PROVE Untouched
  BY <1>o, <1>4 DEF OwnerQueue, Untouched, table
<1>5. CASE OwnerQuit
  BY <1>o, <1>5 DEF OwnerQuit, Untouched, table
<1> QED
  BY <1>1, <1>2, <1>3, <1>4, <1>5 DEF Callback

\* The steps of loop(): only what is registered is reported, and an event that
\* is taken out of revents_ goes into dispatch or is dropped.
LEMMA LoopLives ==
    ASSUME IInv, Loop, NEW h \in Handle
    PROVE  Untouched \/ Lives(h)
PROOF
<1> USE HandleAssumption
<1>f. ASSUME UNCHANGED table PROVE RegOf(h)' = RegOf(h) /\ Live(h)' = Live(h)
  BY <1>f DEF table, RegOf, Live
<1>1. CASE UpdateHandles
  <2>1. CASE updates_ = Empty
    BY <1>1, <2>1 DEF UpdateHandles, table, Untouched
  <2>2. CASE updates_ # Empty
    <3>1. Free /\ UNCHANGED <<interest, opened, callers, revents_, cur>> /\ Drain(updates_, state)
      BY <1>1, <2>2 DEF UpdateHandles
    <3>2. DrainPre(updates_, state)
      BY <3>1, UpdateStep
    <3>3. Live(h)' = Live(h)
      BY <3>1 DEF Live
    <3> QED
      BY <3>1, <3>2, <3>3, DrainLives
  <2> QED
    BY <2>1, <2>2
<1>2. CASE PollWait
  <2>1. UNCHANGED <<table, cur>>
    BY <1>2 DEF PollWait
  <2>2. revents_ = {}
    BY <1>2 DEF PollWait, Goto, IInv, StaleInv, Dispatching
  <2>3. \A e \in revents_' : e # WakeUp => epoll[e.fd] # "absent" /\ e.polled = opened[e.fd] /\ e.fd \in Fd
    BY <1>2 DEF PollWait
  <2>4. CASE Busy(h)' = Busy(h)
    BY <1>f, <2>1, <2>4, RegMoves
  <2>5. CASE Busy(h)' # Busy(h)
    <3>1. \E e \in revents_' : e.polled = h /\ e # WakeUp
      BY <2>1, <2>2, <2>5 DEF Busy
    <3>2. PICK e \in revents_' : e.polled = h /\ e # WakeUp
      BY <3>1
    <3>3. handles_[FdOf[h]] = h
      BY <2>3, <3>2 DEF IInv, TypeOK, TableInv
    <3>4. RegOf(h) = "in"
      BY <3>3 DEF RegOf, IInv, TypeOK, TableInv
    <3>5. Busy(h)' = TRUE
      BY <3>1 DEF Busy
    <3> QED
      BY <1>f, <2>1, <3>4, <3>5 DEF Lives, Life!Next, Life!Report
  <2> QED
    BY <2>4, <2>5
<1>3. ASSUME UNCHANGED table, Busy(h)' => Busy(h) PROVE Lives(h)
  <2>1. Busy(h) \in BOOLEAN /\ Busy(h)' \in BOOLEAN
    BY DEF Busy
  <2>2. CASE Busy(h)' = Busy(h)
    BY <1>3, <1>f, <2>2, RegMoves
  <2>3. CASE Busy(h)' = FALSE /\ Busy(h)
    BY <1>3, <1>f, <2>3 DEF Lives, Life!Next, Life!Handled
  <2> QED
    BY <1>3, <2>1, <2>2, <2>3
<1>4. CASE HandWakeUp
  BY <1>3, <1>4 DEF HandWakeUp, Busy
<1>5. ASSUME NEW e \in revents_, Dispatch(e) PROVE Lives(h)
  BY <1>3, <1>5 DEF Dispatch, Busy
<1>6. CASE HandlerReturns
  <2>1. NoEvent.polled # h
    BY DEF NoEvent
  <2> QED
    BY <1>3, <1>6, <2>1 DEF HandlerReturns, Busy
<1>7. CASE EnterLoop \/ TestQuit \/ RunFunctors \/ StartFunctor \/ FunctorReturns \/ EndFunctors \/ NextPass
  BY <1>7 DEF EnterLoop, TestQuit, RunFunctors, StartFunctor, FunctorReturns, EndFunctors, NextPass, rest,
     table, owner, Untouched
<1> QED
  BY <1>1, <1>2, <1>4, <1>5, <1>6, <1>7 DEF Loop

\* The steps of other threads.
LEMMA CallsLive ==
    ASSUME IInv, NEW t \in Caller, Calls(t), NEW h \in Handle
    PROVE  Untouched \/ Lives(h)
PROOF
<1> USE HandleAssumption
<1>o. UNCHANGED <<revents_, cur>>
  BY DEF Calls, CallAdd, CallDel, Enable, CallMod, CallQueue, CallQuit, Finish, UpdateHandle, CallWakeUp, QuitWakeUp, owner
<1>b. Busy(h)' = Busy(h)
  BY <1>o DEF Busy
<1>1. ASSUME NEW g \in Handle, CallAdd(t, g) PROVE Lives(h)
  <2>1. state' = [state EXCEPT ![g] = "ADD"] /\ opened' = [opened EXCEPT ![FdOf[g]] = g] /\ handles_' = handles_
        /\ state[g] = "NEW" /\ opened[FdOf[g]] = NoHandle
    BY <1>1 DEF CallAdd, Lock
  <2>2. handles_[FdOf[g]] = NoHandle
    BY <2>1 DEF IInv, TypeOK, TableInv
  <2>3. CASE g = h
    <3>1. RegOf(h) = "none" /\ RegOf(h)' = "pending" /\ Live(h)' = TRUE
      BY <2>1, <2>2, <2>3 DEF RegOf, Live, IInv, TypeOK
    <3> QED
      BY <1>b, <3>1 DEF Lives, Life!Next, Life!Register
  <2>4. CASE g # h
    <3>1. RegOf(h)' = RegOf(h) /\ Live(h)' = Live(h)
      BY <2>1, <2>4 DEF RegOf, Live, IInv, TypeOK
    <3> QED
      BY <1>b, <3>1, RegMoves
  <2> QED
    BY <2>3, <2>4
<1>2. ASSUME NEW g \in Handle, NEW s \in {"MOD", "DEL"}, handles_[FdOf[g]] = g, UNCHANGED <<handles_, opened>>,
             state' = [state EXCEPT ![g] = s]
      PROVE  Lives(h)
  <2>1. RegOf(h)' = RegOf(h) /\ Live(h)' = Live(h)
    BY <1>2 DEF RegOf, Live, IInv, TypeOK, TableInv
  <2> QED
    BY <1>b, <2>1, RegMoves
<1>3. ASSUME NEW g \in Handle, CallDel(t, g) PROVE Lives(h)
  <2>1. Found(g) \in Handle /\ handles_[FdOf[Found(g)]] = Found(g)
    BY <1>3 DEF CallDel, Found, IInv, TypeOK, TableInv
  <2> QED
    BY <1>2, <1>3, <2>1 DEF CallDel, Lock
<1>4. CASE CallMod(t)
  <2>1. CASE Found(arg[t]) = NoHandle
    BY <1>o, <1>4, <2>1 DEF CallMod, Untouched
  <2>2. CASE Found(arg[t]) # NoHandle
    <3>1. Found(arg[t]) \in Handle /\ handles_[FdOf[Found(arg[t])]] = Found(arg[t])
      BY <1>4, <2>2 DEF CallMod, Found, IInv, TypeOK, TableInv, LockInv
    <3> QED
      BY <1>2, <1>4, <2>2, <3>1 DEF CallMod, Lock
  <2> QED
    BY <2>1, <2>2
<1>5. ASSUME ~CallMod(t), \A g \in Handle : ~CallAdd(t, g) /\ ~CallDel(t, g) PROVE Untouched
  BY <1>o, <1>5 DEF Calls, Enable, CallQueue, CallQuit, Finish, UpdateHandle, CallWakeUp, QuitWakeUp, table, Untouched
<1> QED
  BY <1>1, <1>3, <1>4, <1>5

\* A descriptor is closed only when the loop has done with its handle.
LEMMA CloseLives ==
    ASSUME IInv, NEW g \in Handle, CloseFd(g), NEW h \in Handle
    PROVE  Lives(h)
PROOF
<1> USE HandleAssumption
<1>1. /\ opened' = [opened EXCEPT ![FdOf[g]] = NoHandle] /\ UNCHANGED <<state, handles_, revents_, cur>>
      /\ Live(g) /\ ~Busy(g) /\ handles_[FdOf[g]] = NoHandle /\ updates_[FdOf[g]] = NoHandle
      /\ \A t \in Caller : pc[t] # "idle" => arg[t] # g
  BY DEF CloseFd, MayClose, owner
<1>2. RegOf(h)' = RegOf(h) /\ Busy(h)' = Busy(h)
  BY <1>1 DEF RegOf, Busy
<1>3. CASE g = h
  <2>1. state[h] \notin {"NEW", "LOOP", "MOD"}
    BY <1>1, <1>3 DEF IInv, TypeOK, TableInv, KnownInv, Live
  <2>2. state[h] # "ADD"
    BY <1>1, <1>3 DEF IInv, KnownInv, OnItsWay
  <2>3. RegOf(h) = "out"
    BY <1>1, <1>3, <2>1, <2>2 DEF RegOf, IInv, TypeOK
  <2>4. Live(h)' = FALSE /\ Live(h) /\ Busy(h)' = FALSE
    BY <1>1, <1>2, <1>3 DEF Live, IInv, TypeOK, Busy
  <2> QED
    BY <1>2, <2>3, <2>4 DEF Lives, Life!Next, Life!Close
<1>4. CASE g # h
  <2>1. Live(h)' = Live(h)
    BY <1>1, <1>4 DEF Live, IInv, TypeOK
  <2> QED
    BY <1>2, <2>1, RegMoves
<1> QED
  BY <1>3, <1>4

\* Before it is handed to addHandle a handle is unknown and closed.
LEMMA LifeInit == Init => \A h \in Handle : Life(h)!Init
PROOF
<1> SUFFICES ASSUME Init, NEW h \in Handle PROVE Life(h)!Init
  OBVIOUS
<1>1. RegOf(h) = "none"
  BY DEF Init, RegOf
<1>2. Live(h) = FALSE /\ Busy(h) = FALSE
  BY HandleAssumption DEF Init, Live, Busy, Empty, NoEvent
<1> QED
  BY <1>1, <1>2 DEF Life!Init

\* Every step is, for each handle, a step of its life or none.
LEMMA LifeStep == IInv /\ [Next]_vars => [Untouched \/ \A h \in Handle : Lives(h)]_vars
PROOF
  BY LoopLives, CallbackLives, CallsLive, CloseLives DEF Next

\* The loop and its users keep the contract of HandleLife for every handle:
\* watched once, reported only while watched, removed for good, and open until
\* its last event was dealt with (l. 74-294).
THEOREM HandlesLiveByContract == Spec => LifeSpec
PROOF
  BY LifeInit, LifeStep, InductiveInvariant, PTL DEF Spec, LifeSpec

\* The same as an implementation: the loop is HandleLife, seen from any handle.
THEOREM LoopImplementsLife ==
    ASSUME NEW h \in Handle
    PROVE  Spec => Life(h)!Spec
PROOF
<1>1. Init => Life(h)!Init
  BY LifeInit
<1>2. IInv /\ [Next]_vars => [Life(h)!Next]_(Life(h)!vars)
  <2>1. UNCHANGED vars => Untouched
    BY DEF vars, table, owner, Untouched
  <2>2. Untouched => UNCHANGED Life(h)!vars
    BY DEF Untouched, Life!vars, RegOf, Live, Busy
  <2> QED
    BY LifeStep, <2>1, <2>2 DEF Lives
<1> QED
  BY <1>1, <1>2, InductiveInvariant, PTL DEF Spec, Life!Spec

-----------------------------------------------------------------------------
(* The functors: the queue of the abstract specification is what is left   *)
(* of the batch followed by functors_.                                     *)
LEMMA AcceptStep ==
    ASSUME IInv, NEW f \in Functor, functors_' = Append(functors_, f), UNCHANGED <<batch, running>>
    PROVE  Fifo!Accept(f)
PROOF
<1>1. batch \in Seq(Functor) /\ functors_ \in Seq(Functor)
  BY DEF IInv, TypeOK
<1>2. batch \o Append(functors_, f) = Append(batch \o functors_, f)
  BY <1>1
<1> QED
  BY <1>2 DEF Fifo!Accept

\* Every step is, for the functors, a step of FunctorQueue or none.
LEMMA FifoStep ==
    ASSUME IInv, Next
    PROVE  Fifo!Next \/ UNCHANGED Fifo!vars
PROOF
<1>t. batch \in Seq(Functor) /\ functors_ \in Seq(Functor) /\ running \in Functor \cup {NoFunctor}
  BY DEF IInv, TypeOK
<1>1. CASE Loop
  <2>1. CASE StartFunctor
    <3>1. batch # <<>> /\ running = NoFunctor /\ running' = Head(batch) /\ batch' = Tail(batch)
          /\ functors_' = functors_
      BY <2>1 DEF StartFunctor
    <3>2. /\ batch \o functors_ # <<>>
          /\ Head(batch \o functors_) = Head(batch)
          /\ Tail(batch \o functors_) = Tail(batch) \o functors_
      BY <1>t, <3>1
    <3> QED
      BY <3>1, <3>2 DEF Fifo!Next, Fifo!Start
  <2>2. CASE FunctorReturns
    BY <2>2 DEF FunctorReturns, Fifo!Next, Fifo!Finish
  <2>3. CASE RunFunctors
    <3>1. batch = <<>> /\ running' = running
      BY <2>3 DEF RunFunctors, Goto, IInv, PassInv, Running
    <3>2. batch' = functors_ /\ functors_' = <<>>
      BY <2>3 DEF RunFunctors
    <3>3. functors_ \o <<>> = <<>> \o functors_
      BY <1>t
    <3> QED
      BY <3>1, <3>2, <3>3 DEF Fifo!vars
  <2>4. CASE ~StartFunctor /\ ~FunctorReturns /\ ~RunFunctors
    BY <1>1, <2>4 DEF Loop, EnterLoop, TestQuit, UpdateHandles, PollWait, HandWakeUp, Dispatch, HandlerReturns,
       EndFunctors, NextPass, rest, queue, Fifo!vars
  <2> QED
    BY <2>1, <2>2, <2>3, <2>4
<1>2. CASE Callback
  <2>1. ASSUME NEW f \in Functor, OwnerQueue(f) PROVE Fifo!Next
    BY <2>1, AcceptStep DEF OwnerQueue, Fifo!Next
  <2>2. CASE ~\E f \in Functor : OwnerQueue(f)
    BY <1>2, <2>2 DEF Callback, OwnerAdd, OwnerMod, OwnerDel, OwnerQuit, queue, Fifo!vars
  <2> QED
    BY <2>1, <2>2
<1>3. ASSUME NEW h \in Handle, CloseFd(h) PROVE UNCHANGED Fifo!vars
  BY <1>3 DEF CloseFd, queue, Fifo!vars
<1>4. ASSUME NEW t \in Caller, Calls(t) PROVE Fifo!Next \/ UNCHANGED Fifo!vars
  <2>1. ASSUME NEW f \in Functor, CallQueue(t, f) PROVE Fifo!Next
    BY <2>1, AcceptStep DEF CallQueue, Fifo!Next
  <2>2. CASE ~\E f \in Functor : CallQueue(t, f)
    BY <1>4, <2>2 DEF Calls, CallAdd, CallDel, Enable, CallMod, CallQuit, Finish, UpdateHandle, CallWakeUp,
       QuitWakeUp, queue, Fifo!vars
  <2> QED
    BY <2>1, <2>2
<1> QED
  BY <1>1, <1>2, <1>3, <1>4 DEF Next

\* queueInLoop and runFunctors implement the queue: each functor accepted
\* runs in its turn, once (l. 225-254).
THEOREM FunctorsAreFifo == Spec => FifoSpec
PROOF
<1>1. Init => Fifo!Init
  <2> SUFFICES ASSUME Init PROVE Fifo!Init
    OBVIOUS
  <2>1. functors_ = <<>> /\ batch = <<>> /\ running = NoFunctor
    BY DEF Init
  <2>2. <<>> \o <<>> = <<>>
    OBVIOUS
  <2> QED
    BY <2>1, <2>2 DEF Fifo!Init
<1>2. IInv /\ [Next]_vars => [Fifo!Next]_Fifo!vars
  BY FifoStep DEF vars, queue, Fifo!vars
<1> QED
  BY <1>1, <1>2, InductiveInvariant, PTL DEF Spec, FifoSpec, Fifo!Spec

=============================================================================
