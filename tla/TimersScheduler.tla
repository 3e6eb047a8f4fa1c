--------------------------- MODULE TimersScheduler ---------------------------
(***************************************************************************)
(* base/TimersScheduler.cpp with the TimerHeap and the Timers it drives,   *)
(* all in the loop's thread.  A Timer is its address: equal expirations    *)
(* are ordered by it, it is freed by the heap, and the allocator may hand  *)
(* it out again at once.  Times are relative to now, in ticks of the       *)
(* 100 us that calculateTimerfdNewValue never goes below, and timerfd_ and *)
(* gettimeofday tell the same time.  A negative due[t] is in the past and  *)
(* tells only the order of the timers in the past: how long ago an         *)
(* expiration was makes no difference to the code.                         *)
(***************************************************************************)
EXTENDS Integers, FiniteSets, SequencesExt

CONSTANTS Timers,           \* how many addresses there are, for TLC
          MaxDelay,         \* the longest delay asked for
          Interval          \* the intervals asked for, 0 among them: no repeat

ASSUME TimersAssumption ==
    /\ Timers \in Nat \ {0} /\ MaxDelay \in Nat \ {0}
    /\ Interval \subseteq 0..MaxDelay

Timer == 1..Timers
NoTimer == 0                \* nullptr
Disarmed == -1

VARIABLES due,              \* expiration_ of each allocated timer, relative to now
          interval,         \* interval_; repeat_ is interval > 0
          deleted,          \* timers whose state_ is DELETED
          allocated,        \* addresses that hold a Timer
          timers_, earlistExpiration_, earlistChange_,              \* TimerHeap
          expired_, timerCallbackRunning_,
          pos, running,     \* the iterator over expired_, the timer whose callback runs
          restarting, earlistChangeTemp,                            \* restartIntervalTimer
          left,             \* ticks until timerfd_ is readable; 0: readable; Disarmed
          cancelled,        \* history: given to delTimer since allocated
          reused            \* history: since timerfd_ was last set, a new timer took the
                            \* address of the freed timer that earlistExpiration_ named

heapVars == <<timers_, earlistExpiration_, earlistChange_>>
timerVars == <<due, interval, deleted, allocated>>
batchVars == <<pos, running, restarting, earlistChangeTemp>>
passVars == <<expired_, timerCallbackRunning_, batchVars>>
vars == <<heapVars, timerVars, passVars, left, cancelled, reused>>

TypeOK ==
    /\ due \in [Timer -> -Timers..MaxDelay] /\ interval \in [Timer -> Interval \cup {0}]
    /\ deleted \subseteq allocated /\ allocated \subseteq Timer
    /\ timers_ \subseteq Timer
    /\ earlistExpiration_ \in Timer \cup {NoTimer} /\ earlistChange_ \in BOOLEAN
    /\ expired_ \in Seq(Timer) /\ timerCallbackRunning_ \in BOOLEAN
    /\ pos \in 1..(Len(expired_) + 1) /\ running \in Timer \cup {NoTimer}
    /\ restarting \in BOOLEAN /\ earlistChangeTemp \in BOOLEAN
    /\ left \in Disarmed..MaxDelay
    /\ cancelled \subseteq Timer /\ reused \in BOOLEAN

Init ==
    /\ due = [t \in Timer |-> 0] /\ interval = [t \in Timer |-> 0]
    /\ deleted = {} /\ allocated = {} /\ cancelled = {}
    /\ timers_ = {} /\ earlistExpiration_ = NoTimer /\ earlistChange_ = FALSE
    /\ expired_ = <<>> /\ timerCallbackRunning_ = FALSE
    /\ pos = 1 /\ running = NoTimer
    /\ restarting = FALSE /\ earlistChangeTemp = FALSE
    /\ left = Disarmed /\ reused = FALSE

Expired == ToSet(expired_)

-----------------------------------------------------------------------------
(* TimerHeap as functions of the heap h and the expirations d.             *)
Heap == [timers |-> timers_, earlist |-> earlistExpiration_, change |-> earlistChange_]

Before(t, u, d) == d[t] < d[u] \/ (d[t] = d[u] /\ t < u)
First(S, d) == CHOOSE t \in S : \A u \in S \ {t} : Before(t, u, d)

\* Mutant: the flag is raised only when the old earliest timer has left.
WithEarlistKept(h, S, d) ==
    [timers |-> S, earlist |-> First(S, d), change |-> h.earlist \notin S]

\* The tail that addTimer and delTimer share.
WithEarlist(h, S, d) ==
    [timers |-> S, earlist |-> First(S, d), change |-> h.earlist # First(S, d)]

\* Inserting a pair that is in the set changes nothing, the flag included.
HeapAdd(h, t, d) ==
    IF t \in h.timers THEN h
    ELSE IF h.earlist = NoTimer
         THEN [timers |-> h.timers \cup {t}, earlist |-> t, change |-> TRUE]
         ELSE WithEarlist(h, h.timers \cup {t}, d)

\* Deleting the last timer keeps the pointer and the flag.
HeapDel(h, t, d) ==
    IF h.timers = {t} THEN [h EXCEPT !.timers = {}] ELSE WithEarlist(h, h.timers \ {t}, d)

SetHeap(h) ==
    /\ timers_' = h.timers /\ earlistExpiration_' = h.earlist /\ earlistChange_' = h.change

-----------------------------------------------------------------------------
\* Mutant: a deadline in the past is handed to timerfd_settime as it is, and
\* zero disarms.
DelayOfAny(d) == IF d > 0 THEN d ELSE Disarmed

\* calculateTimerfdNewValue: never less than 100 us.
DelayOf(d) == IF d > 1 THEN d ELSE 1

\* What resetTimer can set timerfd_ to: the expiration is read through
\* earlistExpiration_, and freed memory holds anything.
Deadlines(t, d, live) == IF t \in live THEN {DelayOf(d[t])} ELSE 1..MaxDelay

ResetIfChanged(h, d, live) ==
    IF h.change THEN left' \in Deadlines(h.earlist, d, live) ELSE UNCHANGED left

\* Users call from the loop's thread: between two reads, or in a callback.
MayCall == ~restarting /\ (timerCallbackRunning_ => running # NoTimer)

\* Mutant: addTimer does not look at expired_.
NotExpired(t) == FALSE

InExpired(t) == timerCallbackRunning_ /\ t \in Expired

addTimer(t, d, live) ==
    IF InExpired(t)
    THEN UNCHANGED <<heapVars, left>>
    ELSE SetHeap(HeapAdd(Heap, t, d)) /\ ResetIfChanged(HeapAdd(Heap, t, d), d, live)

\* new Timer(cb, when, every) and addTimer of it.
AddNew(t, when, every) ==
    /\ MayCall
    /\ t \notin allocated
    /\ due' = [due EXCEPT ![t] = when]
    /\ interval' = [interval EXCEPT ![t] = every]
    /\ allocated' = allocated \cup {t}
    /\ cancelled' = cancelled \ {t}
    /\ addTimer(t, due', allocated')
    /\ reused' = (~earlistChange_' /\ (reused \/ t = earlistExpiration_))
    /\ UNCHANGED <<deleted, passVars>>

\* addTimer of a timer that was added before, as TimersSchedulerTest.cpp does.
AddAgain(t) ==
    /\ MayCall
    /\ t \in allocated
    /\ addTimer(t, due, allocated)
    /\ UNCHANGED <<timerVars, passVars, cancelled, reused>>

Free(t) ==
    /\ allocated' = allocated \ {t}
    /\ deleted' = deleted \ {t}
    /\ due' = [due EXCEPT ![t] = 0]
    /\ interval' = [interval EXCEPT ![t] = 0]

delTimer(t) ==
    /\ MayCall
    /\ t \in allocated
    /\ cancelled' = cancelled \cup {t}
    /\ IF InExpired(t)
       THEN /\ deleted' = deleted \cup {t}
            /\ UNCHANGED <<heapVars, due, interval, allocated, left, reused>>
       ELSE /\ SetHeap(HeapDel(Heap, t, due))
            /\ Free(t)
            /\ ResetIfChanged(HeapDel(Heap, t, due), due, allocated')
            /\ reused' = (~earlistChange_' /\ reused)
    /\ UNCHANGED passVars

\* delTimer of a timer that was never added: the heap logs and returns.
DelAbsent ==
    /\ MayCall
    /\ ResetIfChanged(Heap, due, allocated)
    /\ UNCHANGED <<heapVars, timerVars, passVars, cancelled, reused>>

-----------------------------------------------------------------------------
\* handdleRead, called when the poll reports timerfd_.  Nothing reads the
\* descriptor, so it stays readable until it is set again.
Due == {t \in timers_ : due[t] <= 0}

Sorted(S) ==
    {seq \in [1..Cardinality(S) -> S] :
        \A i, j \in 1..Cardinality(S) : i < j => Before(seq[i], seq[j], due)}

handdleRead ==
    /\ ~timerCallbackRunning_ /\ ~restarting
    /\ left = 0
    /\ expired_' \in Sorted(Due)
    /\ timers_' = timers_ \ Due
    /\ timerCallbackRunning_' = TRUE
    /\ UNCHANGED <<earlistExpiration_, earlistChange_, timerVars, batchVars>>
    /\ UNCHANGED <<left, cancelled, reused>>

\* Mutant: the state of the timer is not looked at.
MayRunAny(t) == TRUE

MayRun(t) == t \notin deleted

\* The loop over expired_ comes to a timer: it runs unless it was deleted.
NextExpired ==
    /\ timerCallbackRunning_ /\ running = NoTimer
    /\ pos <= Len(expired_)
    /\ IF MayRun(expired_[pos])
       THEN running' = expired_[pos] /\ UNCHANGED pos
       ELSE pos' = pos + 1 /\ UNCHANGED running
    /\ UNCHANGED <<expired_, timerCallbackRunning_, restarting, earlistChangeTemp>>
    /\ UNCHANGED <<heapVars, timerVars, left, cancelled, reused>>

\* Mutant: the iterator moves twice.
CallbackSkips ==
    /\ running # NoTimer
    /\ running' = NoTimer
    /\ pos' = pos + 2
    /\ UNCHANGED <<expired_, timerCallbackRunning_, restarting, earlistChangeTemp>>
    /\ UNCHANGED <<heapVars, timerVars, left, cancelled, reused>>

CallbackReturns ==
    /\ running # NoTimer
    /\ running' = NoTimer
    /\ pos' = pos + 1
    /\ UNCHANGED <<expired_, timerCallbackRunning_, restarting, earlistChangeTemp>>
    /\ UNCHANGED <<heapVars, timerVars, left, cancelled, reused>>

BatchEnds ==
    /\ timerCallbackRunning_ /\ timerCallbackRunning_' = FALSE
    /\ running = NoTimer /\ pos > Len(expired_) /\ pos' = 1
    /\ restarting' = TRUE /\ earlistChangeTemp' = FALSE
    /\ UNCHANGED <<expired_, running, heapVars, timerVars, left, cancelled, reused>>

\* Mutant: a timer deleted while it expired is restarted.
RestartsAnyRepeat(t) == interval[t] > 0

Restarts(t) == interval[t] > 0 /\ t \notin deleted

\* restartIntervalTimer comes to a timer: it is restarted or freed.  The vector
\* is not read again before it is cleared: the timer leaves it here.
RestartNext ==
    /\ restarting
    /\ expired_ # <<>> /\ expired_' = Tail(expired_)
    /\ LET t == Head(expired_) IN
       \/ /\ Restarts(t)
          /\ due' = [due EXCEPT ![t] = interval[t]]
          /\ SetHeap(HeapAdd(Heap, t, due'))
          /\ earlistChangeTemp' = (earlistChangeTemp \/ earlistChange_')
          /\ UNCHANGED <<interval, deleted, allocated>>
       \/ /\ ~Restarts(t)
          /\ Free(t)
          /\ UNCHANGED <<heapVars, earlistChangeTemp>>
    /\ UNCHANGED <<timerCallbackRunning_, pos, running, restarting>>
    /\ UNCHANGED <<left, cancelled, reused>>

RestartEnds ==
    /\ restarting /\ restarting' = FALSE
    /\ expired_ = <<>>
    /\ earlistChange_' = earlistChangeTemp /\ earlistChangeTemp' = FALSE
    /\ ResetIfChanged([Heap EXCEPT !.change = earlistChangeTemp], due, allocated)
    /\ reused' = (~earlistChangeTemp /\ reused)
    /\ UNCHANGED <<timers_, earlistExpiration_, timerVars, cancelled>>
    /\ UNCHANGED <<expired_, timerCallbackRunning_, pos, running>>

\* A tick later; the expirations in the past keep their order.
Later(t) == IF due[t] > 0 THEN due[t] - 1
            ELSE -Cardinality({due[u] : u \in {u \in allocated : due[t] <= due[u] /\ due[u] <= 0}})

Tick ==
    /\ due' = [t \in Timer |-> IF t \in allocated THEN Later(t) ELSE 0]
    /\ left' = IF left > 0 THEN left - 1 ELSE left
    /\ UNCHANGED <<heapVars, interval, deleted, allocated, passVars, cancelled, reused>>

UserCall ==
    \/ \E t \in Timer : \/ \E when \in 0..MaxDelay, every \in Interval : AddNew(t, when, every)
                        \/ AddAgain(t)
                        \/ delTimer(t)
    \/ DelAbsent

Next ==
    \/ UserCall
    \/ handdleRead \/ NextExpired \/ CallbackReturns \/ BatchEnds \/ RestartNext \/ RestartEnds
    \/ Tick

Spec == Init /\ [][Next]_vars

(* The loop polls and dispatches, callbacks return, time passes.           *)
FairSpec ==
    /\ Spec
    /\ WF_vars(handdleRead) /\ WF_vars(NextExpired) /\ WF_vars(CallbackReturns)
    /\ WF_vars(BatchEnds) /\ WF_vars(RestartNext) /\ WF_vars(RestartEnds) /\ WF_vars(Tick)

-----------------------------------------------------------------------------
(* A timer that was not freed is in exactly one of the heap and expired_,  *)
(* once, and those hold no freed timer: no callback runs on freed memory,  *)
(* none is freed twice and none leaks, whatever callbacks add and delete;  *)
(* between two passes all are in the heap.                                 *)
TimersOwned ==
    /\ timers_ \cap Expired = {}
    /\ timers_ \cup Expired = allocated
    /\ IsInjective(expired_)
    /\ ~timerCallbackRunning_ /\ ~restarting => expired_ = <<>>

(* While a timer waits, timerfd_ becomes readable no later than that timer *)
(* is due (100 us at the least): resetTimer is never missed, although the  *)
(* flag that asks for it is left over from other operations and read at    *)
(* places that did not raise it.  The one exception: a new timer that the  *)
(* allocator put where the freed earliest one was is taken for that timer  *)
(* (TimerHeap.cpp:68), and may be late until timerfd_ is next set.         *)
InTime == left # Disarmed /\ \A t \in timers_ : left <= DelayOf(due[t])

TimerNotLate == timers_ # {} /\ ~restarting /\ ~reused => InTime

(* Every timer lives by TimerLife, whatever the callbacks of its batch add *)
(* and delete, itself included: each time it expires its callback is       *)
(* called once, unless it was cancelled before its turn came; one that     *)
(* repeats waits again and any other is freed; what was cancelled neither  *)
(* starts nor waits again.                                                 *)
HasTurn(t) == ~restarting /\ \E i \in pos..Len(expired_) : expired_[i] = t
StageOf(t) ==
    IF t \notin allocated THEN "free"
    ELSE IF t \in timers_ THEN "waiting"
    ELSE IF running = t THEN "running"
    ELSE IF HasTurn(t) THEN "expired" ELSE "ran"
Life(t) == INSTANCE TimerLife WITH stage <- StageOf(t), repeats <- interval[t] > 0,
                                   cancelled <- t \in cancelled
Lives(t) == UNCHANGED Life(t)!vars \/ Life(t)!Next
LifeSpec == (\A t \in Timer : Life(t)!Init) /\ [][\A t \in Timer : Lives(t)]_vars

(* Once the users leave the timers alone, each one that waits comes due    *)
(* and leaves the heap: the descriptor is never left disarmed or unset.    *)
TimersExpire ==
    <>[][~UserCall]_vars => \A t \in Timer : t \in timers_ ~> t \notin timers_

-----------------------------------------------------------------------------
(* TimersScheduler.h:39-42: resetTimer is called if a call changed the     *)
(* earliest expiration, so no timer that waits is ever late.               *)
NeverLate == timers_ # {} /\ ~restarting => InTime

(* TimerHeap.h:33-34: the flag says that the earliest timer changed, and   *)
(* resetTimer then reads the expiration of that timer.                     *)
ChangedEarlistIsInHeap ==
    ~timerCallbackRunning_ /\ ~restarting /\ earlistChange_ => earlistExpiration_ \in allocated

=============================================================================
