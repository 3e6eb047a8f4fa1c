----------------------- MODULE TimersSchedulerProofs -----------------------
(***************************************************************************)
(* The safety properties of TimersScheduler, for any number of timers, any *)
(* delays and any intervals.                                               *)
(***************************************************************************)
EXTENDS TimersScheduler, FiniteSetTheorems, WellFoundedInduction, TLAPS

Times == -Timers..MaxDelay

-----------------------------------------------------------------------------
(* The inductive invariant.                                                *)

\* Where handdleRead is.
PassInv ==
    /\ ~(timerCallbackRunning_ /\ restarting)
    /\ ~timerCallbackRunning_ => pos = 1 /\ running = NoTimer
    /\ running # NoTimer => pos <= Len(expired_) /\ running = expired_[pos]
    /\ earlistChangeTemp => restarting

\* What was cancelled and is not freed yet is deleted, and waits in expired_.
CancelInv ==
    /\ cancelled \cap allocated = deleted
    /\ deleted \subseteq Expired

\* The flag that the next reset will look at.
Flag == IF restarting THEN earlistChangeTemp ELSE earlistChange_

\* timerfd_ set for e is not late for any timer of the heap.
Leads(e) == e \in allocated /\ \A t \in timers_ : DelayOf(due[e]) <= DelayOf(due[t])

\* timerfd_ is in time or will be reset; a reset sets it in time, also when the
\* flag is left over and the earliest timer waits in expired_.
HeapInv ==
    /\ \A t \in Expired : due[t] <= 0
    /\ earlistExpiration_ = NoTimer => timers_ = {}
    /\ Flag /\ timers_ # {} => Leads(earlistExpiration_)
    /\ earlistChangeTemp => earlistExpiration_ \in timers_
    /\ ~reused /\ timers_ # {} /\ ~earlistChangeTemp => InTime
    /\ earlistExpiration_ \in Expired /\ ~earlistChangeTemp => left \in {0, 1}

IInv == TypeOK /\ TimersOwned /\ PassInv /\ CancelInv /\ HeapInv

-----------------------------------------------------------------------------
(* The order of the heap.                                                  *)

Less == {pair \in Nat \X Nat : pair[1] < pair[2]}

LEMMA LessIsWellFounded == IsWellFoundedOn(Less, Nat)
  BY NatLessThanWellFounded DEF OpToRel, Less

LEMMA LeastLemma ==
    ASSUME NEW S \in SUBSET Nat, S # {}
    PROVE  \E p \in S : \A q \in S : p <= q
<1>1. PICK p \in S : \A q \in S : ~(<<q, p>> \in Less)
  BY LessIsWellFounded, WFMin
<1>2. \A q \in S : ~(q < p)
  BY <1>1 DEF Less
<1> QED
  BY <1>2

\* First is the first: the least expiration, and the least address among equals.
LEMMA FirstLemma ==
    ASSUME NEW S \in SUBSET Timer, S # {}, NEW d \in [Timer -> Times]
    PROVE  First(S, d) \in S /\ \A u \in S : d[First(S, d)] <= d[u]
<1> DEFINE Keys == {d[t] + Timers : t \in S}
<1>0. Timers \in Nat /\ Timer \subseteq Nat /\ Times \subseteq Int
  BY TimersAssumption DEF Timer, Times
<1>1. \A u \in S : d[u] \in Int /\ d[u] + Timers \in Nat
  <2>1. \A u \in S : d[u] \in Times
    OBVIOUS
  <2> QED
    BY <1>0, <2>1 DEF Times
<1>2. PICK k \in Keys : \A q \in Keys : k <= q
  <2>1. Keys \in SUBSET Nat /\ Keys # {}
    BY <1>1
  <2> QED
    BY <2>1, LeastLemma
<1>3. PICK s \in S : d[s] + Timers = k
  BY <1>2
<1>4. \A u \in S : d[s] <= d[u]
  <2>1. \A u \in S : d[s] + Timers <= d[u] + Timers
    BY <1>2, <1>3
  <2> QED
    BY <1>0, <1>1, <2>1
<1> DEFINE Ties == {t \in S : d[t] = d[s]}
<1>5. Ties \in SUBSET Nat /\ Ties # {}
  BY <1>0
<1>6. PICK t \in Ties : \A u \in Ties : t <= u
  BY <1>5, LeastLemma
<1>7. \A u \in S \ {t} : Before(t, u, d)
  <2>1. t \in S /\ d[t] = d[s]
    BY <1>6
  <2>2. SUFFICES ASSUME NEW u \in S \ {t} PROVE Before(t, u, d)
    OBVIOUS
  <2>3. u \in Nat /\ t \in Nat /\ u # t /\ d[t] <= d[u]
    BY <1>0, <1>4, <2>1
  <2>4. d[u] = d[t] => t <= u
    BY <1>6, <2>1
  <2> QED
    BY <1>1, <2>1, <2>3, <2>4 DEF Before
<1>8. First(S, d) \in S /\ \A u \in S \ {First(S, d)} : Before(First(S, d), u, d)
  BY <1>6, <1>7 DEF First
<1>9. \A u \in S : u # First(S, d) => d[First(S, d)] <= d[u]
  BY <1>1, <1>8 DEF Before
<1> QED
  BY <1>1, <1>8, <1>9

LEMMA DelayLemma ==
    ASSUME NEW x \in Times, NEW y \in Times, x <= y
    PROVE  /\ DelayOf(x) \in 1..MaxDelay /\ DelayOf(x) <= DelayOf(y)
           /\ x <= 0 => DelayOf(x) = 1
  BY TimersAssumption DEF DelayOf, Times

Heaps == [timers : SUBSET Timer, earlist : Timer \cup {NoTimer}, change : BOOLEAN]

\* What an insertion leaves: the earliest timer, and the flag if it is another.
LEMMA HeapAddLemma ==
    ASSUME NEW h \in Heaps, NEW t \in Timer \ h.timers, NEW d \in [Timer -> Times],
           h.earlist = NoTimer => h.timers = {}
    PROVE  LET g == HeapAdd(h, t, d)
           IN /\ g \in Heaps /\ g.timers = h.timers \cup {t}
              /\ g.earlist \in g.timers /\ \A u \in g.timers : d[g.earlist] <= d[u]
              /\ g.change = (h.earlist # g.earlist)
<1>0. NoTimer \notin Timer
  BY DEF NoTimer, Timer
<1>1. CASE h.earlist = NoTimer
  <2>1. HeapAdd(h, t, d) = [timers |-> {t}, earlist |-> t, change |-> TRUE]
    BY <1>1 DEF HeapAdd
  <2>2. d[t] <= d[t]
    BY TimersAssumption DEF Times
  <2>3. h.earlist # t /\ h.timers = {}
    BY <1>0, <1>1
  <2> DEFINE g == HeapAdd(h, t, d)
  <2>4. g.timers = {t} /\ g.earlist = t /\ g.change = TRUE
    BY <2>1
  <2>5. g \in Heaps
    BY <2>1 DEF Heaps
  <2>6. g.change = (h.earlist # g.earlist)
    BY <2>3, <2>4
  <2> QED
    BY <2>2, <2>3, <2>4, <2>5, <2>6
<1>2. CASE h.earlist # NoTimer
  <2> DEFINE S == h.timers \cup {t}
             f == First(S, d)
  <2>1. HeapAdd(h, t, d) = [timers |-> S, earlist |-> f, change |-> h.earlist # f]
    BY <1>2 DEF HeapAdd, WithEarlist
  <2>2. S \in SUBSET Timer /\ S # {}
    BY DEF Heaps
  <2>3. f \in S /\ \A u \in S : d[f] <= d[u]
    BY <2>2, FirstLemma
  <2> HIDE DEF f
  <2>4. f \in Timer
    BY <2>2, <2>3
  <2> QED
    BY <2>1, <2>2, <2>3, <2>4 DEF Heaps
<1> QED
  BY <1>1, <1>2

LEMMA HeapDelLemma ==
    ASSUME NEW h \in Heaps, NEW t \in h.timers, NEW d \in [Timer -> Times]
    PROVE  LET g == HeapDel(h, t, d)
           IN /\ g \in Heaps /\ g.timers = h.timers \ {t}
              /\ g.timers = {} => g.earlist = h.earlist /\ g.change = h.change
              /\ g.timers # {} =>
                    /\ g.earlist \in g.timers /\ \A u \in g.timers : d[g.earlist] <= d[u]
                    /\ g.change = (h.earlist # g.earlist)
<1>1. CASE h.timers = {t}
  BY <1>1 DEF HeapDel, Heaps
<1>2. CASE h.timers # {t}
  <2> DEFINE S == h.timers \ {t}
             f == First(S, d)
  <2>1. HeapDel(h, t, d) = [timers |-> S, earlist |-> f, change |-> h.earlist # f]
    BY <1>2 DEF HeapDel, WithEarlist
  <2>2. S \in SUBSET Timer /\ S # {}
    BY <1>2 DEF Heaps
  <2>3. f \in S /\ \A u \in S : d[f] <= d[u]
    BY <2>2, FirstLemma
  <2> HIDE DEF f
  <2>4. f \in Timer
    BY <2>2, <2>3
  <2> QED
    BY <2>1, <2>2, <2>3, <2>4 DEF Heaps
<1> QED
  BY <1>1, <1>2

-----------------------------------------------------------------------------
(* expired_ as a set.                                                      *)

LEMMA TailLemma ==
    ASSUME NEW s \in Seq(Timer), s # <<>>, IsInjective(s)
    PROVE  /\ Head(s) \in ToSet(s) /\ Tail(s) \in Seq(Timer)
           /\ ToSet(Tail(s)) = ToSet(s) \ {Head(s)} /\ IsInjective(Tail(s))
<1> DEFINE r == Tail(s)
<1>1. /\ Len(s) \in Nat \ {0} /\ DOMAIN s = 1..Len(s) /\ Head(s) = s[1]
      /\ r \in Seq(Timer) /\ Len(r) = Len(s) - 1 /\ DOMAIN r = 1..Len(r)
      /\ \A i \in DOMAIN r : r[i] = s[i + 1]
  OBVIOUS
<1>2. \A i \in DOMAIN r : i + 1 \in DOMAIN s /\ i + 1 # 1
  BY <1>1
<1>3. \A j \in DOMAIN s : j # 1 => j - 1 \in DOMAIN r /\ r[j - 1] = s[j]
  BY <1>1
<1> HIDE DEF r
<1>4. 1 \in DOMAIN s
  BY <1>1
<1>5. \A i, j \in DOMAIN s : s[i] = s[j] => i = j
  BY DEF IsInjective
<1>6. IsInjective(r)
  <2>1. SUFFICES ASSUME NEW i \in DOMAIN r, NEW j \in DOMAIN r, r[i] = r[j] PROVE i = j
    BY DEF IsInjective
  <2>2. i + 1 = j + 1
    BY <1>1, <1>2, <1>5, <2>1
  <2> QED
    BY <1>1, <2>2
<1>7. \A x : x \in ToSet(r) <=> x \in ToSet(s) /\ x # Head(s)
  <2>1. ASSUME NEW x \in ToSet(r) PROVE x \in ToSet(s) /\ x # Head(s)
    <3>1. PICK i \in DOMAIN r : x = r[i]
      BY <2>1 DEF ToSet
    <3> QED
      BY <1>1, <1>2, <1>4, <1>5, <3>1 DEF ToSet
  <2>2. ASSUME NEW x \in ToSet(s), x # Head(s) PROVE x \in ToSet(r)
    <3>1. PICK j \in DOMAIN s : x = s[j]
      BY <2>2 DEF ToSet
    <3> QED
      BY <1>1, <1>3, <2>2, <3>1 DEF ToSet
  <2> QED
    BY <2>1, <2>2
<1> QED
  BY <1>1, <1>4, <1>6, <1>7 DEF ToSet, r

\* A sorted sequence has each timer of the set once.
LEMMA SortedLemma ==
    ASSUME TypeOK, NEW S \in SUBSET Timer, NEW s \in Sorted(S)
    PROVE  s \in Seq(Timer) /\ ToSet(s) = S /\ IsInjective(s)
<1> DEFINE n == Cardinality(S)
<1>1. IsFiniteSet(S) /\ n \in Nat /\ Cardinality(1..n) = n
  <2>1. IsFiniteSet(Timer)
    BY FS_Interval, TimersAssumption DEF Timer
  <2>2. IsFiniteSet(S) /\ n \in Nat
    BY <2>1, FS_Subset, FS_CardinalityType
  <2> QED
    BY <2>2, FS_Interval
<1>2. /\ s \in [1..n -> S]
      /\ \A i, j \in 1..n : i < j => Before(s[i], s[j], due)
  BY DEF Sorted
<1> HIDE DEF n
<1>3. \A i, j \in 1..n : i < j => s[i] # s[j]
  <2>1. SUFFICES ASSUME NEW i \in 1..n, NEW j \in 1..n, i < j, s[i] = s[j] PROVE FALSE
    OBVIOUS
  <2>2. Before(s[i], s[j], due) /\ s[i] \in Timer
    BY <1>2, <2>1
  <2>3. due[s[i]] \in Int /\ s[i] \in Int
    BY <2>2, TimersAssumption DEF TypeOK, Timer
  <2> QED
    BY <2>1, <2>2, <2>3 DEF Before
<1>4. IsInjective(s)
  BY <1>1, <1>2, <1>3 DEF IsInjective
<1>5. s \in Injection(1..n, S)
  BY <1>2, <1>4 DEF Injection
<1>6. s \in Surjection(1..n, S)
  BY <1>1, <1>5, FS_Injection DEF n
<1>7. ToSet(s) = S
  BY <1>2, <1>6 DEF Surjection, ToSet
<1> QED
  BY <1>1, <1>2, <1>4, <1>7

-----------------------------------------------------------------------------
(* What a call of the user does to timerfd_.                               *)

\* The heap has found its earliest timer anew.
LEMMA FreshLemma ==
    ASSUME IInv, ~restarting, UNCHANGED passVars, due' \in [Timer -> Times],
           timers_' \subseteq allocated', timers_' \subseteq Timer,
           timers_' \cap Expired = {}, \A u \in Expired : due'[u] <= 0,
           earlistExpiration_' \in timers_',
           \A u \in timers_' : due'[earlistExpiration_'] <= due'[u],
           earlistChange_' = (earlistExpiration_ # earlistExpiration_'),
           left' = IF earlistChange_' THEN DelayOf(due'[earlistExpiration_']) ELSE left,
           ~reused' /\ ~earlistChange_' =>
              /\ ~reused /\ earlistExpiration_' \in timers_
              /\ due'[earlistExpiration_'] = due[earlistExpiration_']
    PROVE  HeapInv' /\ left' \in Disarmed..MaxDelay
<1> DEFINE e == earlistExpiration_'
<1>1. /\ UNCHANGED <<expired_, timerCallbackRunning_, pos, running, restarting, earlistChangeTemp>>
      /\ Expired' = Expired /\ ~restarting' /\ ~earlistChangeTemp'
  BY DEF passVars, batchVars, Expired, IInv, PassInv
<1>2. e \in Timer /\ e # NoTimer /\ due'[e] \in Times
  BY DEF NoTimer, Timer
<1>3. DelayOf(due'[e]) \in 1..MaxDelay
  BY <1>2, DelayLemma, TimersAssumption DEF Times
<1>4. \A u \in timers_' : DelayOf(due'[e]) <= DelayOf(due'[u])
  <2>1. SUFFICES ASSUME NEW u \in timers_' PROVE DelayOf(due'[e]) <= DelayOf(due'[u])
    OBVIOUS
  <2>2. due'[u] \in Times
    OBVIOUS
  <2> QED
    BY <1>2, <2>2, DelayLemma
<1>5. Leads(earlistExpiration_)'
  BY <1>4 DEF Leads
<1>6. ~reused' => InTime'
  <2>1. SUFFICES ASSUME ~reused' PROVE InTime'
    OBVIOUS
  <2>2. CASE earlistChange_'
    BY <1>3, <1>4, <2>2 DEF InTime, Disarmed
  <2>3. CASE ~earlistChange_'
    <3>1. ~reused /\ left' = left /\ e \in timers_ /\ due'[e] = due[e]
      BY <2>1, <2>3
    <3>2. InTime
      BY <3>1, <1>1 DEF IInv, HeapInv, PassInv
    <3>3. left # Disarmed /\ left <= DelayOf(due'[e]) /\ left \in Int
      BY <3>1, <3>2 DEF InTime, IInv, TypeOK, Disarmed
    <3>4. \A u \in timers_' : DelayOf(due'[u]) \in Int
      BY TimersAssumption DEF DelayOf, Times
    <3> QED
      BY <1>3, <1>4, <3>1, <3>3, <3>4 DEF InTime
  <2> QED
    BY <2>2, <2>3 DEF IInv, TypeOK
<1>7. left' \in Disarmed..MaxDelay
  <2>1. left \in Disarmed..MaxDelay
    BY DEF IInv, TypeOK
  <2>2. DelayOf(due'[e]) \in Disarmed..MaxDelay
    BY <1>3, TimersAssumption DEF Disarmed
  <2> QED
    BY <2>1, <2>2
<1>8. e \notin Expired
  OBVIOUS
<1> QED
  BY <1>1, <1>2, <1>5, <1>6, <1>7, <1>8 DEF HeapInv, Flag

\* The heap is as it was, or empty: what the flag says is left over.
LEMMA StaleLemma ==
    ASSUME IInv, ~restarting, UNCHANGED passVars, due' \in [Timer -> Times],
           UNCHANGED <<earlistExpiration_, earlistChange_>>, allocated' \subseteq Timer,
           timers_' = {} \/ UNCHANGED <<timers_, due, allocated, reused>>,
           \A u \in Expired : due'[u] = due[u] /\ u \in allocated',
           ResetIfChanged([Heap EXCEPT !.timers = timers_'], due, allocated')
    PROVE  HeapInv' /\ left' \in Disarmed..MaxDelay
<1> DEFINE e == earlistExpiration_
<1>1. /\ UNCHANGED <<expired_, timerCallbackRunning_, pos, running, restarting, earlistChangeTemp>>
      /\ Expired' = Expired /\ ~restarting' /\ ~earlistChangeTemp' /\ ~earlistChangeTemp
  BY DEF passVars, batchVars, Expired, IInv, PassInv
<1>2. /\ earlistChange_ => left' \in Deadlines(e, due, allocated')
      /\ ~earlistChange_ => left' = left
  BY DEF ResetIfChanged, Heap
<1>3. \A u \in Timer : due[u] \in Times /\ DelayOf(due[u]) \in 1..MaxDelay
  BY DelayLemma, TimersAssumption DEF IInv, TypeOK, Times
<1>4. left' \in Disarmed..MaxDelay
  <2>1. CASE earlistChange_ /\ e \in allocated'
    <3>1. left' = DelayOf(due[e]) /\ DelayOf(due[e]) \in 1..MaxDelay
      BY <1>2, <1>3, <2>1 DEF Deadlines
    <3> QED
      BY <3>1, TimersAssumption DEF Disarmed
  <2>2. CASE earlistChange_ /\ e \notin allocated'
    BY <1>2, <2>2, TimersAssumption DEF Deadlines, Disarmed
  <2>3. CASE ~earlistChange_
    BY <1>2, <2>3 DEF IInv, TypeOK
  <2> QED
    BY <2>1, <2>2, <2>3 DEF IInv, TypeOK
<1>5. e \in Expired => left' \in {0, 1}
  <2>1. SUFFICES ASSUME e \in Expired PROVE left' \in {0, 1}
    OBVIOUS
  <2>2. e \in allocated' /\ e \in Timer /\ due[e] <= 0 /\ left \in {0, 1}
    BY <1>1, <2>1 DEF IInv, HeapInv
  <2>3. due[e] \in Times
    BY <1>3, <2>2
  <2>4. DelayOf(due[e]) = 1
    BY <2>2, <2>3, TimersAssumption DEF DelayOf, Times
  <2> QED
    BY <1>2, <2>2, <2>4 DEF Deadlines, IInv, TypeOK
<1>6. timers_' # {} => /\ earlistChange_ => Leads(earlistExpiration_)'
                       /\ ~reused' => InTime'
  <2> SUFFICES ASSUME timers_' # {}
               PROVE  /\ earlistChange_ => Leads(earlistExpiration_)'
                      /\ ~reused' => InTime'
    OBVIOUS
  <2>1. UNCHANGED <<timers_, due, allocated, reused>> /\ timers_ # {}
    OBVIOUS
  <2>2. earlistChange_ => Leads(e)
    BY <1>1, <2>1 DEF IInv, HeapInv, Flag
  <2>3. ~reused => InTime
    BY <1>1, <2>1 DEF IInv, HeapInv
  <2>4. CASE earlistChange_
    <3>1. left' = DelayOf(due[e])
      BY <1>2, <2>1, <2>2, <2>4 DEF Deadlines, Leads
    <3>2. e \in Timer
      BY <2>1, <2>2, <2>4 DEF Leads
    <3>3. left' # Disarmed
      BY <1>3, <3>1, <3>2 DEF Disarmed
    <3> QED
      BY <2>1, <2>2, <2>4, <3>1, <3>3 DEF Leads, InTime
  <2>5. CASE ~earlistChange_
    BY <1>2, <2>1, <2>3, <2>5 DEF InTime
  <2> QED
    BY <2>4, <2>5 DEF IInv, TypeOK
<1>7. /\ \A u \in Expired' : due'[u] <= 0
      /\ e = NoTimer => timers_' = {}
  BY <1>1 DEF IInv, HeapInv
<1>8. Flag' /\ timers_' # {} => Leads(earlistExpiration_)'
  BY <1>1, <1>6 DEF Flag
<1>9. ~reused' /\ timers_' # {} => InTime'
  BY <1>6
<1> QED
  BY <1>1, <1>4, <1>5, <1>7, <1>8, <1>9 DEF HeapInv

-----------------------------------------------------------------------------
(* The calls of the user.                                                  *)

\* What the action property says of a step.
KeepsCancelled == running' \notin {running, NoTimer} => running' \notin cancelled

Good == IInv' /\ KeepsCancelled

LEMMA HeapType == ASSUME TypeOK PROVE Heap \in Heaps
  BY DEF TypeOK, Heap, Heaps

\* Where the timers are when no pass has any.
LEMMA AtHome ==
    ASSUME IInv, MayCall, NEW t \in allocated, ~InExpired(t)
    PROVE  t \in timers_ /\ t \notin Expired
<1>1. ~timerCallbackRunning_ => Expired = {}
  BY DEF IInv, TimersOwned, MayCall, Expired, ToSet
<1>2. t \notin Expired
  BY <1>1 DEF InExpired
<1> QED
  BY <1>2 DEF IInv, TimersOwned

\* The parts of the invariant that a call does not reach.
LEMMA CallLemma ==
    ASSUME IInv, UNCHANGED passVars
    PROVE  PassInv' /\ Expired' = Expired /\ KeepsCancelled
           /\ pos' \in 1..(Len(expired_') + 1)
  BY DEF IInv, TypeOK, PassInv, passVars, batchVars, Expired, KeepsCancelled

LEMMA AddNewLemma ==
    ASSUME IInv, NEW t \in Timer, NEW when \in 0..MaxDelay, NEW every \in Interval,
           AddNew(t, when, every)
    PROVE  Good
<1> DEFINE g == HeapAdd(Heap, t, due')
<1>1. /\ ~restarting /\ t \notin allocated /\ UNCHANGED passVars /\ UNCHANGED deleted
      /\ due' = [due EXCEPT ![t] = when] /\ interval' = [interval EXCEPT ![t] = every]
      /\ allocated' = allocated \cup {t} /\ cancelled' = cancelled \ {t}
      /\ reused' = (~earlistChange_' /\ (reused \/ t = earlistExpiration_))
  BY DEF AddNew, MayCall
<1>2. t \notin Expired /\ t \notin timers_ /\ ~InExpired(t)
  BY <1>1 DEF IInv, TimersOwned, InExpired
<1>3. due \in [Timer -> Times] /\ when \in Times /\ due' \in [Timer -> Times]
  BY <1>1, TimersAssumption DEF IInv, TypeOK, Times
<1>4. SetHeap(g) /\ ResetIfChanged(g, due', allocated')
  BY <1>2 DEF AddNew, addTimer
<1>5. /\ g \in Heaps /\ g.timers = timers_ \cup {t}
      /\ g.earlist \in g.timers /\ \A u \in g.timers : due'[g.earlist] <= due'[u]
      /\ g.change = (earlistExpiration_ # g.earlist)
  <2>1. Heap \in Heaps /\ Heap.timers = timers_ /\ Heap.earlist = earlistExpiration_
    BY HeapType DEF IInv, Heap
  <2>2. earlistExpiration_ = NoTimer => timers_ = {}
    BY DEF IInv, HeapInv
  <2> QED
    BY <1>2, <1>3, <2>1, <2>2, HeapAddLemma
<1> HIDE DEF g
<1>6. timers_' = g.timers /\ earlistExpiration_' = g.earlist /\ earlistChange_' = g.change
  BY <1>4 DEF SetHeap
<1>7. earlistExpiration_' \in allocated'
  BY <1>1, <1>5, <1>6 DEF IInv, TimersOwned
<1>8. left' = IF earlistChange_' THEN DelayOf(due'[earlistExpiration_']) ELSE left
  BY <1>4, <1>6, <1>7 DEF ResetIfChanged, Deadlines
<1>9. HeapInv' /\ left' \in Disarmed..MaxDelay
  <2>1. timers_' \subseteq allocated' /\ timers_' \subseteq Timer /\ timers_' \cap Expired = {}
    BY <1>1, <1>2, <1>5, <1>6 DEF IInv, TypeOK, TimersOwned
  <2>2. \A u \in Expired : due'[u] <= 0
    BY <1>1, <1>2 DEF IInv, HeapInv, TypeOK, TimersOwned
  <2>3. ~reused' /\ ~earlistChange_' =>
           ~reused /\ earlistExpiration_' \in timers_ /\ due'[earlistExpiration_'] = due[earlistExpiration_']
    BY <1>1, <1>5, <1>6 DEF IInv, TypeOK
  <2> QED
    BY <1>1, <1>3, <1>5, <1>6, <1>8, <2>1, <2>2, <2>3, FreshLemma
<1>10. TypeOK' /\ TimersOwned' /\ PassInv' /\ CancelInv' /\ KeepsCancelled
  <2>1. PassInv' /\ Expired' = Expired /\ KeepsCancelled
    BY <1>1, CallLemma
  <2>2. TypeOK'
    BY <1>1, <1>3, <1>5, <1>6, <1>9, TimersAssumption
    DEF IInv, TypeOK, Times, passVars, batchVars, Heaps
  <2>3. TimersOwned'
    BY <1>1, <1>2, <1>5, <1>6, <2>1 DEF IInv, TimersOwned, passVars
  <2>4. CancelInv'
    BY <1>1, <2>1 DEF IInv, CancelInv
  <2> QED
    BY <2>1, <2>2, <2>3, <2>4
<1> QED
  BY <1>9, <1>10 DEF Good, IInv

LEMMA AddAgainLemma ==
    ASSUME IInv, NEW t \in Timer, AddAgain(t)
    PROVE  Good
<1>1. /\ ~restarting /\ t \in allocated /\ UNCHANGED passVars
      /\ UNCHANGED timerVars /\ UNCHANGED <<cancelled, reused>>
  BY DEF AddAgain, MayCall
<1>2. HeapInv' /\ left' \in Disarmed..MaxDelay /\ UNCHANGED heapVars
  <2>1. CASE InExpired(t)
    <3>1. UNCHANGED <<heapVars, left>>
      BY <2>1 DEF AddAgain, addTimer
    <3> QED
      BY <1>1, <3>1
      DEF IInv, TypeOK, HeapInv, Flag, Leads, InTime, Expired, heapVars, timerVars, passVars,
          batchVars
  <2>2. CASE ~InExpired(t)
    <3>1. t \in timers_
      BY <1>1, <2>2, AtHome DEF AddAgain
    <3>2. HeapAdd(Heap, t, due) = Heap
      BY <3>1 DEF HeapAdd, Heap
    <3>3. SetHeap(Heap) /\ ResetIfChanged(Heap, due, allocated)
      BY <2>2, <3>2 DEF AddAgain, addTimer
    <3>4. UNCHANGED <<timers_, earlistExpiration_, earlistChange_, due, allocated>>
      BY <1>1, <3>3 DEF SetHeap, Heap, timerVars
    <3>5. ResetIfChanged([Heap EXCEPT !.timers = timers_'], due, allocated')
      BY <3>3, <3>4 DEF Heap
    <3> QED
      BY <1>1, <3>4, <3>5, StaleLemma DEF heapVars, IInv, TypeOK, TimersOwned, Times
  <2> QED
    BY <2>1, <2>2
<1>3. PassInv' /\ Expired' = Expired /\ KeepsCancelled
  BY <1>1, CallLemma
<1> QED
  BY <1>1, <1>2, <1>3
  DEF Good, IInv, TypeOK, TimersOwned, CancelInv, heapVars, timerVars, passVars, batchVars

LEMMA DelAbsentLemma ==
    ASSUME IInv, DelAbsent
    PROVE  Good
<1>1. /\ ~restarting /\ UNCHANGED passVars /\ UNCHANGED heapVars
      /\ UNCHANGED timerVars /\ UNCHANGED <<cancelled, reused>>
      /\ UNCHANGED <<timers_, earlistExpiration_, earlistChange_, due, allocated>>
  BY DEF DelAbsent, MayCall, heapVars, timerVars
<1>2. ResetIfChanged([Heap EXCEPT !.timers = timers_'], due, allocated')
  BY <1>1 DEF DelAbsent, Heap
<1>3. HeapInv' /\ left' \in Disarmed..MaxDelay
  BY <1>1, <1>2, StaleLemma DEF IInv, TypeOK, TimersOwned, Times
<1>4. PassInv' /\ Expired' = Expired /\ KeepsCancelled
  BY <1>1, CallLemma
<1> QED
  BY <1>1, <1>3, <1>4
  DEF Good, IInv, TypeOK, TimersOwned, CancelInv, heapVars, timerVars, passVars, batchVars

LEMMA DelTimerLemma ==
    ASSUME IInv, NEW t \in Timer, delTimer(t)
    PROVE  Good
<1>1. /\ ~restarting /\ t \in allocated /\ UNCHANGED passVars
      /\ cancelled' = cancelled \cup {t}
  BY DEF delTimer, MayCall
<1>2. PassInv' /\ Expired' = Expired /\ KeepsCancelled
  BY <1>1, CallLemma
<1>3. CASE InExpired(t)
  <2>1. /\ deleted' = deleted \cup {t} /\ t \in Expired
        /\ UNCHANGED <<timers_, earlistExpiration_, earlistChange_, due, interval, allocated>>
        /\ UNCHANGED <<left, reused>>
    BY <1>3 DEF delTimer, InExpired, heapVars
  <2>2. HeapInv'
    BY <1>1, <1>2, <2>1 DEF IInv, HeapInv, Flag, Leads, InTime, passVars, batchVars
  <2>3. TypeOK' /\ TimersOwned' /\ CancelInv'
    BY <1>1, <1>2, <2>1 DEF IInv, TypeOK, TimersOwned, CancelInv, passVars, batchVars
  <2> QED
    BY <1>2, <2>2, <2>3 DEF Good, IInv
<1>4. CASE ~InExpired(t)
  <2> DEFINE g == HeapDel(Heap, t, due)
  <2>1. /\ SetHeap(g) /\ ResetIfChanged(g, due, allocated')
        /\ allocated' = allocated \ {t} /\ deleted' = deleted \ {t}
        /\ due' = [due EXCEPT ![t] = 0] /\ interval' = [interval EXCEPT ![t] = 0]
        /\ reused' = (~earlistChange_' /\ reused)
    BY <1>4 DEF delTimer, Free
  <2>2. t \in timers_ /\ t \notin Expired
    BY <1>1, <1>4, AtHome DEF delTimer
  <2>3. due \in [Timer -> Times] /\ 0 \in Times /\ due' \in [Timer -> Times]
    BY <2>1, TimersAssumption DEF IInv, TypeOK, Times
  <2>4. /\ g \in Heaps /\ g.timers = timers_ \ {t}
        /\ g.timers = {} => g.earlist = earlistExpiration_ /\ g.change = earlistChange_
        /\ g.timers # {} =>
              /\ g.earlist \in g.timers /\ \A u \in g.timers : due[g.earlist] <= due[u]
              /\ g.change = (earlistExpiration_ # g.earlist)
    <3>1. /\ Heap \in Heaps /\ Heap.timers = timers_ /\ Heap.earlist = earlistExpiration_
          /\ Heap.change = earlistChange_
      BY HeapType DEF IInv, Heap
    <3> QED
      BY <2>2, <2>3, <3>1, HeapDelLemma
  <2> HIDE DEF g
  <2>5. timers_' = g.timers /\ earlistExpiration_' = g.earlist /\ earlistChange_' = g.change
    BY <2>1 DEF SetHeap
  <2>6. \A u \in Expired : due'[u] = due[u] /\ u \in allocated'
    BY <2>1, <2>2 DEF IInv, TypeOK, TimersOwned
  <2>7. allocated' \subseteq Timer /\ timers_' = timers_ \ {t}
    BY <2>1, <2>4, <2>5 DEF IInv, TypeOK
  <2>8. ASSUME timers_' = {} PROVE HeapInv' /\ left' \in Disarmed..MaxDelay
    <3>1. UNCHANGED <<earlistExpiration_, earlistChange_>>
      BY <2>4, <2>5, <2>8
    <3>2. ResetIfChanged([Heap EXCEPT !.timers = timers_'], due, allocated')
      BY <2>1, <2>5, <3>1 DEF ResetIfChanged, Heap
    <3> QED
      BY <1>1, <2>3, <2>6, <2>7, <2>8, <3>1, <3>2, StaleLemma
  <2>9. ASSUME timers_' # {} PROVE HeapInv' /\ left' \in Disarmed..MaxDelay
    <3>1. /\ earlistExpiration_' \in timers_' /\ earlistExpiration_' \in timers_
          /\ earlistExpiration_' \in allocated' /\ earlistExpiration_' # t
          /\ due'[earlistExpiration_'] = due[earlistExpiration_']
      BY <2>1, <2>4, <2>5, <2>7, <2>9 DEF IInv, TimersOwned, TypeOK
    <3>2. \A u \in timers_' : due'[u] = due[u] /\ due'[earlistExpiration_'] <= due'[u]
      <4>1. \A u \in timers_' : u \in Timer /\ u # t
        BY <2>7 DEF IInv, TypeOK
      <4>2. \A u \in timers_' : due'[u] = due[u]
        BY <2>1, <4>1 DEF IInv, TypeOK
      <4>3. \A u \in timers_' : due[earlistExpiration_'] <= due[u]
        BY <2>4, <2>5, <2>9
      <4> QED
        BY <3>1, <4>2, <4>3
    <3>3. left' = IF earlistChange_' THEN DelayOf(due'[earlistExpiration_']) ELSE left
      BY <2>1, <2>5, <3>1 DEF ResetIfChanged, Deadlines
    <3>4. earlistChange_' = (earlistExpiration_ # earlistExpiration_')
      BY <2>4, <2>5, <2>9
    <3>5. timers_' \subseteq allocated' /\ timers_' \subseteq Timer /\ timers_' \cap Expired = {}
      BY <2>1, <2>7 DEF IInv, TypeOK, TimersOwned
    <3>6. \A u \in Expired : due'[u] <= 0
      BY <2>6 DEF IInv, HeapInv
    <3>7. ~reused' /\ ~earlistChange_' => ~reused
      BY <2>1
    <3> QED
      BY <1>1, <2>3, <3>1, <3>2, <3>3, <3>4, <3>5, <3>6, <3>7, FreshLemma
  <2>10. HeapInv' /\ left' \in Disarmed..MaxDelay
    BY <2>8, <2>9
  <2>11. TypeOK'
    <3>1. interval' \in [Timer -> Interval \cup {0}]
      BY <2>1 DEF IInv, TypeOK
    <3>2. timers_' \in SUBSET Timer /\ earlistExpiration_' \in Timer \cup {NoTimer}
          /\ earlistChange_' \in BOOLEAN
      BY <2>4, <2>5 DEF Heaps
    <3>3. deleted' \subseteq allocated' /\ allocated' \subseteq Timer /\ cancelled' \subseteq Timer
      BY <1>1, <2>1 DEF IInv, TypeOK
    <3>4. reused' \in BOOLEAN
      BY <2>1
    <3> QED
      BY <1>1, <2>3, <2>10, <3>1, <3>2, <3>3, <3>4
      DEF IInv, TypeOK, Times, passVars, batchVars
  <2>12. TimersOwned' /\ CancelInv'
    <3>1. expired_' = expired_
      BY <1>1 DEF passVars
    <3>2. TimersOwned'
      BY <1>1, <1>2, <2>1, <2>2, <2>7, <3>1 DEF IInv, TimersOwned, passVars, batchVars
    <3>3. CancelInv'
      BY <1>1, <1>2, <2>1, <2>2 DEF IInv, CancelInv
    <3> QED
      BY <3>2, <3>3
  <2> QED
    BY <1>2, <2>10, <2>11, <2>12 DEF Good, IInv
<1> QED
  BY <1>3, <1>4

-----------------------------------------------------------------------------
(* The pass.                                                               *)

LEMMA ReadLemma ==
    ASSUME IInv, handdleRead
    PROVE  Good
<1>1. /\ ~timerCallbackRunning_ /\ ~restarting /\ left = 0 /\ expired_' \in Sorted(Due)
      /\ timers_' = timers_ \ Due /\ timerCallbackRunning_' = TRUE
      /\ UNCHANGED <<earlistExpiration_, earlistChange_, due, interval, deleted, allocated>>
      /\ UNCHANGED <<pos, running, restarting, earlistChangeTemp, left, cancelled, reused>>
  BY DEF handdleRead, timerVars, batchVars
<1>2. expired_' \in Seq(Timer) /\ Expired' = Due /\ IsInjective(expired_')
  <2>1. TypeOK /\ Due \in SUBSET Timer
    BY DEF IInv, TypeOK, Due
  <2>2. \A s \in Sorted(Due) : s \in Seq(Timer) /\ ToSet(s) = Due /\ IsInjective(s)
    BY <2>1, SortedLemma
  <2> QED
    BY <1>1, <2>2 DEF Expired
<1>3. Expired = {} /\ pos = 1 /\ running = NoTimer /\ ~earlistChangeTemp
  BY <1>1 DEF IInv, TimersOwned, PassInv, Expired, ToSet
<1>4. TypeOK'
  <2>1. pos' \in 1..(Len(expired_') + 1)
    BY <1>1, <1>2, <1>3
  <2> QED
    BY <1>1, <1>2, <2>1 DEF IInv, TypeOK
<1>5. TimersOwned'
  BY <1>1, <1>2, <1>3 DEF IInv, TimersOwned, Due
<1>6. PassInv' /\ KeepsCancelled
  BY <1>1, <1>3 DEF IInv, PassInv, KeepsCancelled
<1>7. CancelInv'
  BY <1>1, <1>2, <1>3 DEF IInv, CancelInv
<1>8. HeapInv'
  <2>1. timers_ = {} => timers_' = {}
    BY <1>1
  <2> QED
    BY <1>1, <1>2, <1>3, <2>1 DEF IInv, HeapInv, Flag, Leads, InTime, Due
<1> QED
  BY <1>4, <1>5, <1>6, <1>7, <1>8 DEF Good, IInv

\* Steps of the iterator touch nothing that the heap's invariant speaks of.
LEMMA IteratorLemma ==
    ASSUME IInv, UNCHANGED <<expired_, restarting, earlistChangeTemp>>,
           UNCHANGED <<heapVars, timerVars, left, cancelled, reused>>,
           timerCallbackRunning_, timerCallbackRunning_' = timerCallbackRunning_,
           pos' \in 1..(Len(expired_) + 1), running' \in Timer \cup {NoTimer},
           running' # NoTimer => pos' <= Len(expired_) /\ running' = expired_[pos'],
           KeepsCancelled
    PROVE  Good
<1>1. Expired' = Expired
  BY DEF Expired
<1>2. HeapInv'
  BY <1>1 DEF IInv, HeapInv, Flag, Leads, InTime, heapVars, timerVars
<1> QED
  BY <1>1, <1>2 DEF Good, IInv, TypeOK, TimersOwned, PassInv, CancelInv, heapVars, timerVars

LEMMA NextExpiredLemma ==
    ASSUME IInv, NextExpired
    PROVE  Good
<1>1. /\ timerCallbackRunning_ /\ running = NoTimer /\ pos <= Len(expired_)
      /\ pos \in 1..(Len(expired_) + 1) /\ expired_ \in Seq(Timer)
  BY DEF IInv, TypeOK, NextExpired
<1>2. Len(expired_) \in Nat /\ pos \in DOMAIN expired_ /\ expired_[pos] \in Timer
  BY <1>1
<1>3. expired_[pos] \in Expired
  BY <1>2 DEF Expired, ToSet
<1>4. expired_[pos] \notin deleted => expired_[pos] \notin cancelled
  BY <1>3 DEF IInv, TimersOwned, CancelInv
<1>5. \/ running' = expired_[pos] /\ pos' = pos /\ expired_[pos] \notin deleted
      \/ running' = NoTimer /\ pos' = pos + 1
  BY <1>1 DEF NextExpired, MayRun
<1>6. KeepsCancelled
  BY <1>4, <1>5 DEF KeepsCancelled, NextExpired
<1>7. pos' \in 1..(Len(expired_) + 1) /\ running' \in Timer \cup {NoTimer}
      /\ (running' # NoTimer => pos' <= Len(expired_) /\ running' = expired_[pos'])
  BY <1>1, <1>2, <1>5
<1> QED
  BY <1>1, <1>6, <1>7, IteratorLemma DEF NextExpired

LEMMA CallbackReturnsLemma ==
    ASSUME IInv, CallbackReturns
    PROVE  Good
<1>1. /\ timerCallbackRunning_ /\ pos <= Len(expired_) /\ running' = NoTimer /\ pos' = pos + 1
      /\ pos \in 1..(Len(expired_) + 1) /\ Len(expired_) \in Nat
  BY DEF IInv, TypeOK, PassInv, CallbackReturns
<1>2. pos' \in 1..(Len(expired_) + 1)
  BY <1>1
<1> QED
  BY <1>1, <1>2, IteratorLemma DEF CallbackReturns, KeepsCancelled

LEMMA BatchEndsLemma ==
    ASSUME IInv, BatchEnds
    PROVE  Good
<1>1. /\ timerCallbackRunning_ /\ ~restarting /\ ~earlistChangeTemp
      /\ timerCallbackRunning_' = FALSE /\ running = NoTimer /\ running' = NoTimer /\ pos' = 1
      /\ restarting' = TRUE /\ earlistChangeTemp' = FALSE
      /\ UNCHANGED <<expired_, timers_, earlistExpiration_, earlistChange_>>
      /\ UNCHANGED <<due, interval, deleted, allocated, left, cancelled, reused>>
  BY DEF IInv, PassInv, BatchEnds, heapVars, timerVars
<1>2. Expired' = Expired
  BY <1>1 DEF Expired
<1>3. TypeOK'
  <2>1. Len(expired_) \in Nat
    BY DEF IInv, TypeOK
  <2>2. pos' \in 1..(Len(expired_') + 1)
    BY <1>1, <2>1
  <2> QED
    BY <1>1, <2>2 DEF IInv, TypeOK
<1>4. HeapInv'
  BY <1>1, <1>2 DEF IInv, HeapInv, Flag, Leads, InTime
<1> QED
  BY <1>1, <1>2, <1>3, <1>4 DEF Good, IInv, TimersOwned, PassInv, CancelInv, KeepsCancelled

LEMMA RestartEndsLemma ==
    ASSUME IInv, RestartEnds
    PROVE  Good
<1> DEFINE e == earlistExpiration_
<1>1. /\ ~timerCallbackRunning_ /\ restarting /\ restarting' = FALSE /\ expired_ = <<>>
      /\ earlistChange_' = earlistChangeTemp /\ earlistChangeTemp' = FALSE
      /\ UNCHANGED <<timers_, earlistExpiration_, due, interval, deleted, allocated, cancelled>>
      /\ UNCHANGED <<expired_, timerCallbackRunning_, pos, running>>
      /\ reused' = (~earlistChangeTemp /\ reused)
  BY DEF IInv, PassInv, RestartEnds, timerVars
<1>2. Expired' = Expired /\ Expired = {}
  BY <1>1 DEF Expired, ToSet
<1>3. left' = IF earlistChangeTemp THEN DelayOf(due[e]) ELSE left
  <2>1. CASE earlistChangeTemp
    <3>1. e \in allocated
      BY <2>1 DEF IInv, HeapInv, TimersOwned
    <3> QED
      BY <2>1, <3>1 DEF RestartEnds, ResetIfChanged, Deadlines, Heap
  <2>2. CASE ~earlistChangeTemp
    BY <2>2 DEF RestartEnds, ResetIfChanged, Heap
  <2> QED
    BY <2>1, <2>2 DEF IInv, TypeOK
<1>4. earlistChangeTemp => e \in timers_ /\ e \in Timer /\ Leads(e)
  BY <1>1 DEF IInv, TypeOK, HeapInv, Flag
<1>5. \A u \in Timer : DelayOf(due[u]) \in 1..MaxDelay
  <2>1. \A u \in Timer : due[u] \in Times
    BY DEF IInv, TypeOK, Times
  <2> QED
    BY <2>1, DelayLemma, TimersAssumption DEF Times
<1>6. TypeOK'
  <2>1. left' \in Disarmed..MaxDelay
    <3>1. CASE earlistChangeTemp
      <4>1. left' \in 1..MaxDelay
        BY <1>3, <1>4, <1>5, <3>1
      <4> QED
        BY <4>1, TimersAssumption DEF Disarmed
    <3>2. CASE ~earlistChangeTemp
      BY <1>3, <3>2 DEF IInv, TypeOK
    <3> QED
      BY <3>1, <3>2
  <2>2. earlistChange_' \in BOOLEAN
    BY <1>1 DEF IInv, TypeOK
  <2> QED
    BY <1>1, <2>1, <2>2 DEF IInv, TypeOK
<1>7. HeapInv'
  <2>1. Flag' = earlistChangeTemp
    BY <1>1 DEF Flag
  <2>2. earlistChangeTemp => Leads(earlistExpiration_)'
    BY <1>1, <1>4 DEF Leads
  <2>3. ~reused' /\ timers_' # {} => InTime'
    <3>1. CASE earlistChangeTemp
      <4>1. left' = DelayOf(due[e]) /\ left' \in 1..MaxDelay
        BY <1>3, <1>4, <1>5, <3>1
      <4>2. left' # Disarmed
        BY <4>1 DEF Disarmed
      <4> QED
        BY <1>1, <1>4, <3>1, <4>1, <4>2 DEF InTime, Leads
    <3>2. CASE ~earlistChangeTemp
      BY <1>1, <1>3, <3>2 DEF IInv, HeapInv, InTime
    <3> QED
      BY <3>1, <3>2
  <2> QED
    BY <1>1, <1>2, <2>1, <2>2, <2>3 DEF IInv, HeapInv
<1> QED
  BY <1>1, <1>2, <1>6, <1>7 DEF Good, IInv, TimersOwned, PassInv, CancelInv, KeepsCancelled

LEMMA RestartNextLemma ==
    ASSUME IInv, RestartNext
    PROVE  Good
<1> DEFINE t == Head(expired_)
           g == HeapAdd(Heap, t, due')
<1>1. /\ restarting /\ ~timerCallbackRunning_ /\ expired_' = Tail(expired_)
      /\ UNCHANGED <<timerCallbackRunning_, pos, running, restarting>>
      /\ UNCHANGED <<left, cancelled, reused>>
  BY DEF RestartNext, IInv, PassInv
<1>2. /\ t \in Expired /\ expired_' \in Seq(Timer) /\ Expired' = Expired \ {t}
      /\ IsInjective(expired_')
  <2>1. expired_ \in Seq(Timer) /\ expired_ # <<>> /\ IsInjective(expired_)
    BY DEF RestartNext, IInv, TypeOK, TimersOwned
  <2> QED
    BY <1>1, <2>1, TailLemma DEF Expired
<1>3. t \in Timer /\ t \in allocated /\ t \notin timers_ /\ due[t] <= 0
  BY <1>2 DEF IInv, TypeOK, TimersOwned, HeapInv
<1>4. \/ /\ Restarts(t)
         /\ due' = [due EXCEPT ![t] = interval[t]]
         /\ SetHeap(g)
         /\ earlistChangeTemp' = (earlistChangeTemp \/ earlistChange_')
         /\ UNCHANGED <<interval, deleted, allocated>>
      \/ /\ ~Restarts(t)
         /\ Free(t)
         /\ UNCHANGED <<timers_, earlistExpiration_, earlistChange_, earlistChangeTemp>>
  BY DEF RestartNext, heapVars
<1>5. pos' \in 1..(Len(expired_') + 1)
  <2>1. pos' = 1 /\ Len(expired_') \in Nat
    BY <1>1, <1>2 DEF IInv, PassInv
  <2> QED
    BY <2>1
<1>6. PassInv' /\ KeepsCancelled
  BY <1>1, <1>4 DEF IInv, PassInv, KeepsCancelled
<1> HIDE DEF t, g
<1>7. CASE Restarts(t)
  <2>1. /\ due' = [due EXCEPT ![t] = interval[t]] /\ SetHeap(g)
        /\ earlistChangeTemp' = (earlistChangeTemp \/ earlistChange_')
        /\ UNCHANGED <<interval, deleted, allocated>> /\ t \notin deleted
    BY <1>4, <1>7 DEF Restarts
  <2>2. due' \in [Timer -> Times] /\ due'[t] \in Times
    <3>1. interval[t] \in Times
      <4>1. interval[t] \in Interval \cup {0}
        BY <1>3 DEF IInv, TypeOK
      <4>2. Interval \cup {0} \subseteq Times
        BY TimersAssumption DEF Times
      <4> QED
        BY <4>1, <4>2
    <3>2. due \in [Timer -> Times]
      BY DEF IInv, TypeOK, Times
    <3> QED
      BY <1>3, <2>1, <3>1, <3>2
  <2>3. /\ g \in Heaps /\ g.timers = timers_ \cup {t}
        /\ g.earlist \in g.timers /\ \A u \in g.timers : due'[g.earlist] <= due'[u]
        /\ g.change = (earlistExpiration_ # g.earlist)
    <3>1. Heap \in Heaps /\ Heap.timers = timers_ /\ Heap.earlist = earlistExpiration_
      BY HeapType DEF IInv, Heap
    <3>2. earlistExpiration_ = NoTimer => timers_ = {}
      BY DEF IInv, HeapInv
    <3> QED
      BY <1>3, <2>2, <3>1, <3>2, HeapAddLemma DEF g
  <2>4. timers_' = g.timers /\ earlistExpiration_' = g.earlist /\ earlistChange_' = g.change
    BY <2>1 DEF SetHeap
  <2>5. TypeOK'
    <3>1. timers_' \subseteq Timer /\ earlistExpiration_' \in Timer \cup {NoTimer}
          /\ earlistChange_' \in BOOLEAN
      BY <2>3, <2>4 DEF Heaps
    <3>2. earlistChangeTemp' \in BOOLEAN
      BY <2>1, <3>1 DEF IInv, TypeOK
    <3> QED
      BY <1>1, <1>2, <1>5, <2>1, <2>2, <3>1, <3>2 DEF IInv, TypeOK, Times
  <2>6. TimersOwned'
    BY <1>1, <1>2, <1>3, <2>1, <2>3, <2>4 DEF IInv, TimersOwned
  <2>7. CancelInv'
    BY <1>1, <1>2, <2>1 DEF IInv, CancelInv
  <2>8. earlistExpiration_' \in Timer /\ earlistExpiration_' \in timers_'
        /\ earlistExpiration_' \in allocated'
    BY <1>3, <2>1, <2>3, <2>4 DEF IInv, TypeOK, TimersOwned
  <2>9. \A u \in timers_' : due'[u] \in Times /\ due'[earlistExpiration_'] \in Times
                           /\ DelayOf(due'[earlistExpiration_']) <= DelayOf(due'[u])
    <3>1. SUFFICES ASSUME NEW u \in timers_'
                   PROVE  /\ due'[u] \in Times /\ due'[earlistExpiration_'] \in Times
                          /\ DelayOf(due'[earlistExpiration_']) <= DelayOf(due'[u])
      OBVIOUS
    <3>2. u \in Timer /\ due'[earlistExpiration_'] <= due'[u]
      BY <1>3, <2>3, <2>4 DEF IInv, TypeOK
    <3> QED
      BY <2>2, <2>8, <3>2, DelayLemma
  <2>10. Leads(earlistExpiration_)'
    BY <2>8, <2>9 DEF Leads
  <2>11. ~reused /\ ~earlistChangeTemp' => InTime'
    <3>1. SUFFICES ASSUME ~reused, ~earlistChangeTemp' PROVE InTime'
      OBVIOUS
    <3>2. ~earlistChangeTemp /\ earlistExpiration_' = earlistExpiration_
      BY <2>1, <2>3, <2>4, <3>1
    <3>3. left # Disarmed /\ left \in Int /\ left <= DelayOf(due'[earlistExpiration_'])
      <4>1. left \in Int
        BY DEF IInv, TypeOK, Disarmed
      <4>2. CASE earlistExpiration_' = t
        <5>1. left \in {0, 1}
          BY <1>2, <3>2, <4>2 DEF IInv, HeapInv
        <5>2. DelayOf(due'[earlistExpiration_']) \in 1..MaxDelay
          BY <2>8, <2>9, DelayLemma, TimersAssumption DEF Times
        <5> QED
          BY <5>1, <5>2, TimersAssumption DEF Disarmed
      <4>3. CASE earlistExpiration_' # t
        <5>1. earlistExpiration_ \in timers_
          BY <2>3, <2>4, <2>8, <3>2, <4>3
        <5>2. InTime
          BY <3>1, <3>2, <5>1 DEF IInv, HeapInv
        <5>3. due'[earlistExpiration_] = due[earlistExpiration_]
          BY <2>1, <2>8, <3>2, <4>3 DEF IInv, TypeOK
        <5> QED
          BY <3>2, <4>1, <5>1, <5>2, <5>3 DEF InTime
      <4> QED
        BY <4>2, <4>3
    <3>4. \A u \in timers_' : DelayOf(due'[u]) \in Int
      BY <2>9, TimersAssumption DEF DelayOf, Times
    <3> QED
      BY <1>1, <2>8, <2>9, <3>3, <3>4 DEF InTime
  <2>12. \A u \in Expired' : due'[u] <= 0
    <3>1. SUFFICES ASSUME NEW u \in Expired' PROVE due'[u] <= 0
      OBVIOUS
    <3>2. u # t /\ u \in Timer /\ due[u] <= 0
      BY <1>2 DEF IInv, TypeOK, TimersOwned, HeapInv
    <3> QED
      BY <2>1, <3>2 DEF IInv, TypeOK
  <2>13. earlistExpiration_' \notin Expired' /\ earlistExpiration_' # NoTimer
    BY <2>6, <2>8 DEF TimersOwned, NoTimer, Timer
  <2>14. HeapInv'
    BY <1>1, <2>8, <2>10, <2>11, <2>12, <2>13 DEF HeapInv
  <2> QED
    BY <1>6, <2>5, <2>6, <2>7, <2>14 DEF Good, IInv
<1>8. CASE ~Restarts(t)
  <2>1. /\ UNCHANGED <<timers_, earlistExpiration_, earlistChange_, earlistChangeTemp>>
        /\ allocated' = allocated \ {t} /\ deleted' = deleted \ {t}
        /\ due' = [due EXCEPT ![t] = 0] /\ interval' = [interval EXCEPT ![t] = 0]
    BY <1>4, <1>8 DEF Free
  <2>2. TypeOK'
    <3>1. due' \in [Timer -> -Timers..MaxDelay] /\ interval' \in [Timer -> Interval \cup {0}]
      BY <1>3, <2>1, TimersAssumption DEF IInv, TypeOK
    <3>2. deleted' \subseteq allocated' /\ allocated' \subseteq Timer
      BY <2>1 DEF IInv, TypeOK
    <3> QED
      BY <1>1, <1>2, <1>5, <2>1, <3>1, <3>2 DEF IInv, TypeOK
  <2>3. TimersOwned' /\ CancelInv'
    BY <1>1, <1>2, <1>3, <2>1 DEF IInv, TimersOwned, CancelInv
  <2>4. \A u \in Timer : u # t => due'[u] = due[u]
    BY <2>1 DEF IInv, TypeOK
  <2>5. HeapInv'
    <3>1. \A u \in timers_ : u \in Timer /\ u # t
      BY <1>3 DEF IInv, TypeOK
    <3>2. \A u \in Expired' : due'[u] <= 0
      BY <1>2, <2>4 DEF IInv, TypeOK, TimersOwned, HeapInv
    <3>3. Flag' = Flag /\ (Flag /\ timers_ # {} => earlistExpiration_ \in timers_)
      BY <1>1, <2>1 DEF Flag, IInv, HeapInv
    <3>4. Flag /\ timers_ # {} => Leads(earlistExpiration_)'
      BY <2>1, <2>4, <3>1, <3>3 DEF Leads, IInv, HeapInv
    <3>5. ~reused /\ timers_ # {} /\ ~earlistChangeTemp => InTime'
      BY <1>1, <2>1, <2>4, <3>1 DEF InTime, IInv, HeapInv
    <3> QED
      BY <1>1, <1>2, <2>1, <3>2, <3>3, <3>4, <3>5 DEF IInv, HeapInv
  <2> QED
    BY <1>6, <2>2, <2>3, <2>5 DEF Good, IInv
<1> QED
  BY <1>7, <1>8

-----------------------------------------------------------------------------
(* Time.                                                                   *)

LEMMA LaterLemma ==
    ASSUME TypeOK, NEW t \in Timer
    PROVE  /\ Later(t) \in Times
           /\ due[t] > 0 => Later(t) = due[t] - 1
           /\ due[t] <= 0 => Later(t) <= 0
<1> DEFINE T == {u \in allocated : due[t] <= due[u] /\ due[u] <= 0}
           Past == {due[u] : u \in T}
           f == [u \in T |-> due[u]]
<1>0. due[t] \in Times /\ due[t] \in Int
  BY TimersAssumption DEF TypeOK, Times
<1>1. IsFiniteSet(Timer) /\ Cardinality(Timer) = Timers
  BY FS_Interval, TimersAssumption DEF Timer
<1>2. T \in SUBSET Timer
  BY DEF TypeOK
<1>3. IsFiniteSet(T) /\ Cardinality(T) <= Timers /\ Cardinality(T) \in Nat
  BY <1>1, <1>2, FS_Subset, FS_CardinalityType
<1>4. f \in Surjection(T, Past)
  BY DEF Surjection
<1>5. IsFiniteSet(Past) /\ Cardinality(Past) <= Cardinality(T)
  BY <1>3, <1>4, FS_Surjection
<1>6. Cardinality(Past) \in Nat
  BY <1>5, FS_CardinalityType
<1> DEFINE n == Cardinality(Past)
<1>7. n \in Nat /\ n <= Timers
  BY <1>3, <1>5, <1>6, TimersAssumption
<1>8. Later(t) = IF due[t] > 0 THEN due[t] - 1 ELSE -n
  BY DEF Later
<1> HIDE DEF n
<1> QED
  BY <1>0, <1>7, <1>8, TimersAssumption DEF Times

LEMMA TickLemma ==
    ASSUME IInv, Tick
    PROVE  Good
<1>1. /\ due' = [t \in Timer |-> IF t \in allocated THEN Later(t) ELSE 0]
      /\ left' = IF left > 0 THEN left - 1 ELSE left
      /\ UNCHANGED <<timers_, earlistExpiration_, earlistChange_, interval, deleted, allocated>>
      /\ UNCHANGED <<expired_, timerCallbackRunning_, pos, running>>
      /\ UNCHANGED <<restarting, earlistChangeTemp, cancelled, reused>>
  BY DEF Tick, heapVars, passVars, batchVars
<1>2. TypeOK /\ TimersOwned /\ HeapInv /\ left \in Int
  BY DEF IInv, TypeOK, Disarmed
<1>3. \A t \in allocated : /\ t \in Timer /\ due[t] \in Int /\ due'[t] \in Int
                           /\ due[t] > 0 => due'[t] = due[t] - 1
                           /\ due[t] <= 0 => due'[t] <= 0
  BY <1>1, <1>2, LaterLemma, TimersAssumption DEF TypeOK, Times
<1>4. TypeOK'
  <2>1. due' \in [Timer -> Times]
    BY <1>1, <1>2, LaterLemma, TimersAssumption DEF Times
  <2>2. left' \in Disarmed..MaxDelay
    BY <1>1, <1>2, TimersAssumption DEF TypeOK, Disarmed
  <2> QED
    BY <1>1, <1>2, <2>1, <2>2 DEF TypeOK, Times
<1>5. Expired' = Expired
  BY <1>1 DEF Expired
<1>6. timers_ \subseteq allocated /\ Expired \subseteq allocated
  BY <1>2 DEF TimersOwned
<1>7. HeapInv'
  <2>1. Flag' = Flag
    BY <1>1 DEF Flag
  <2>2. \A u \in Expired : due'[u] <= 0
    BY <1>2, <1>3, <1>6 DEF HeapInv
  <2>3. ASSUME Leads(earlistExpiration_) PROVE Leads(earlistExpiration_)'
    <3> DEFINE e == earlistExpiration_
    <3>1. \A u \in timers_ : DelayOf(due'[e]) <= DelayOf(due'[u])
      BY <1>3, <1>6, <2>3 DEF Leads, DelayOf
    <3> QED
      BY <1>1, <2>3, <3>1 DEF Leads
  <2>4. ASSUME InTime PROVE InTime'
    <3>1. left' # Disarmed
      BY <1>1, <1>2, <2>4 DEF InTime, Disarmed
    <3>2. \A u \in timers_ : left' <= DelayOf(due'[u])
      BY <1>1, <1>2, <1>3, <1>6, <2>4 DEF InTime, DelayOf
    <3> QED
      BY <1>1, <3>1, <3>2 DEF InTime
  <2>5. left \in {0, 1} => left' \in {0, 1}
    BY <1>1
  <2> QED
    BY <1>1, <1>2, <1>5, <2>1, <2>2, <2>3, <2>4, <2>5 DEF HeapInv
<1> QED
  BY <1>1, <1>4, <1>5, <1>7 DEF Good, IInv, TimersOwned, PassInv, CancelInv, KeepsCancelled

-----------------------------------------------------------------------------
(* Every step.                                                             *)

LEMMA InitLemma == Init => IInv
<1> SUFFICES ASSUME Init PROVE IInv
  OBVIOUS
<1>1. Expired = {} /\ IsInjective(expired_) /\ expired_ \in Seq(Timer)
  BY DEF Init, Expired, ToSet, IsInjective
<1>2. TypeOK
  <2>1. pos \in 1..(Len(expired_) + 1)
    BY DEF Init
  <2>2. 0 \in -Timers..MaxDelay /\ left \in Disarmed..MaxDelay
    BY TimersAssumption DEF Init, Disarmed
  <2>3. due \in [Timer -> -Timers..MaxDelay] /\ interval \in [Timer -> Interval \cup {0}]
    BY <2>2 DEF Init
  <2> QED
    BY <1>1, <2>1, <2>2, <2>3 DEF Init, TypeOK
<1> QED
  BY <1>1, <1>2
  DEF Init, IInv, TimersOwned, PassInv, CancelInv, HeapInv, Flag, NoTimer

LEMMA StepLemma == IInv /\ [Next]_vars => IInv' /\ KeepsCancelled
<1>1. ASSUME IInv, UserCall PROVE Good
  BY <1>1, AddNewLemma, AddAgainLemma, DelTimerLemma, DelAbsentLemma DEF UserCall
<1>2. ASSUME IInv, UNCHANGED vars PROVE Good
  <2>1. UNCHANGED <<timers_, earlistExpiration_, earlistChange_, due, interval, deleted,
                    allocated, expired_, timerCallbackRunning_, pos, running, restarting,
                    earlistChangeTemp, left, cancelled, reused>>
    BY <1>2 DEF vars, heapVars, timerVars, passVars, batchVars
  <2>2. Expired' = Expired
    BY <2>1 DEF Expired
  <2>3. HeapInv'
    BY <1>2, <2>1, <2>2 DEF IInv, HeapInv, Flag, Leads, InTime
  <2> QED
    BY <1>2, <2>1, <2>2, <2>3
    DEF Good, IInv, TypeOK, TimersOwned, PassInv, CancelInv, KeepsCancelled
<1> QED
  BY <1>1, <1>2, ReadLemma, NextExpiredLemma, CallbackReturnsLemma, BatchEndsLemma,
     RestartNextLemma, RestartEndsLemma, TickLemma
  DEF Next, Good

-----------------------------------------------------------------------------
(* The contract of TimerLife.                                              *)

\* The heap has what the batch has not: the stage of a timer from the batch.
Staged ==
    \A t \in Timer :
        StageOf(t) = IF t \notin allocated THEN "free"
                     ELSE IF t \notin Expired THEN "waiting"
                     ELSE IF running = t THEN "running"
                     ELSE IF HasTurn(t) THEN "expired" ELSE "ran"

LEMMA StagedLemma == IInv => Staged
  BY DEF IInv, TimersOwned, Staged, StageOf

\* A step leaves a timer alone that it does not name.
LEMMA SameStage ==
    ASSUME NEW t \in Timer, Staged, Staged',
           (t \in allocated') = (t \in allocated), (t \in Expired') = (t \in Expired),
           t \in Expired => /\ (running' = t) = (running = t)
                            /\ running # t => HasTurn(t)' = HasTurn(t),
           interval'[t] = interval[t], (t \in cancelled') = (t \in cancelled)
    PROVE  Lives(t)
<1>1. StageOf(t)' = StageOf(t)
  BY DEF Staged
<1> QED
  BY <1>1 DEF Lives, Life!vars

\* The batch stays as it is.
LEMMA SameBatch ==
    ASSUME NEW t \in Timer, UNCHANGED <<expired_, pos, running, restarting>>
    PROVE  /\ Expired' = Expired /\ HasTurn(t)' = HasTurn(t)
  BY DEF Expired, HasTurn

LEMMA CallsLive ==
    ASSUME IInv, Staged, Staged', IInv', UserCall, NEW t \in Timer
    PROVE  Lives(t)
<1>1. UNCHANGED <<expired_, pos, running, restarting, timerCallbackRunning_>>
  BY DEF UserCall, AddNew, AddAgain, delTimer, DelAbsent, passVars, batchVars
<1>2. Expired' = Expired /\ HasTurn(t)' = HasTurn(t)
  BY <1>1, SameBatch
<1>3. ASSUME NEW u \in Timer, NEW when \in 0..MaxDelay, NEW every \in Interval,
             AddNew(u, when, every)
      PROVE  Lives(t)
  <2>1. /\ u \notin allocated /\ interval' = [interval EXCEPT ![u] = every]
        /\ allocated' = allocated \cup {u} /\ cancelled' = cancelled \ {u}
    BY <1>3 DEF AddNew
  <2>2. CASE t = u
    <3>1. t \notin Expired
      BY <2>1, <2>2 DEF IInv, TimersOwned
    <3>2. StageOf(t) = "free" /\ StageOf(t)' = "waiting"
      BY <1>2, <2>1, <2>2, <3>1 DEF Staged
    <3>3. (t \in cancelled') = FALSE
      BY <2>1, <2>2
    <3>4. (interval'[t] > 0) \in BOOLEAN
      OBVIOUS
    <3> QED
      BY <3>2, <3>3, <3>4 DEF Lives, Life!Next, Life!Add
  <2>3. CASE t # u
    <3>1. interval'[t] = interval[t]
      BY <2>1, <2>3 DEF IInv, TypeOK
    <3> QED
      BY <1>1, <1>2, <2>1, <2>3, <3>1, SameStage
  <2> QED
    BY <2>2, <2>3
<1>4. ASSUME NEW u \in Timer, delTimer(u) PROVE Lives(t)
  <2>1. /\ u \in allocated /\ cancelled' = cancelled \cup {u}
    BY <1>4 DEF delTimer
  <2>2. CASE InExpired(u)
    <3>1. u \in Expired /\ UNCHANGED <<allocated, interval>>
      BY <1>4, <2>2 DEF delTimer, InExpired
    <3>2. CASE t = u
      <4>1. StageOf(t)' = StageOf(t) /\ StageOf(t) \notin {"free", "waiting"}
        BY <1>1, <1>2, <2>1, <3>1, <3>2 DEF Staged
      <4>2. (t \in cancelled') = TRUE
        BY <2>1, <3>2
      <4> QED
        BY <3>1, <4>1, <4>2 DEF Lives, Life!Next, Life!Cancel
    <3>3. CASE t # u
      BY <1>1, <1>2, <2>1, <3>1, <3>3, SameStage
    <3> QED
      BY <3>2, <3>3
  <2>3. CASE ~InExpired(u)
    <3>1. allocated' = allocated \ {u} /\ interval' = [interval EXCEPT ![u] = 0]
      BY <1>4, <2>3 DEF delTimer, Free
    <3>2. u \notin Expired
      BY <1>4, <2>1, <2>3, AtHome DEF delTimer
    <3>3. CASE t = u
      <4>1. StageOf(t) = "waiting" /\ StageOf(t)' = "free"
        BY <2>1, <3>1, <3>2, <3>3 DEF Staged
      <4>2. (t \in cancelled') = TRUE
        BY <2>1, <3>3
      <4>3. (interval'[t] > 0) = FALSE
        <5>1. interval'[t] = 0
          BY <3>1, <3>3 DEF IInv, TypeOK
        <5> QED
          BY <5>1
      <4> QED
        BY <4>1, <4>2, <4>3 DEF Lives, Life!Next, Life!Cancel
    <3>4. CASE t # u
      <4>1. interval'[t] = interval[t]
        BY <3>1, <3>4 DEF IInv, TypeOK
      <4> QED
        BY <1>1, <1>2, <2>1, <3>1, <3>4, <4>1, SameStage
    <3> QED
      BY <3>3, <3>4
  <2> QED
    BY <2>2, <2>3
<1>5. ASSUME UNCHANGED <<timerVars, cancelled>> PROVE Lives(t)
  BY <1>1, <1>2, <1>5, SameStage DEF timerVars
<1> QED
  BY <1>3, <1>4, <1>5 DEF UserCall, AddAgain, DelAbsent

LEMMA ReadLives ==
    ASSUME IInv, Staged, Staged', IInv', handdleRead, NEW t \in Timer
    PROVE  Lives(t)
<1>1. /\ timers_' = timers_ \ Due /\ UNCHANGED <<interval, allocated, running, restarting>>
      /\ pos' = 1 /\ running = NoTimer /\ ~restarting /\ UNCHANGED cancelled
  BY DEF handdleRead, timerVars, batchVars, IInv, PassInv
<1>2. Expired = {}
  BY DEF handdleRead, IInv, TimersOwned, Expired, ToSet
<1>3. timers_ = allocated /\ Expired' = allocated \ timers_'
  BY <1>1, <1>2 DEF IInv, TimersOwned
<1>4. CASE t \in Due
  <2>1. t \in allocated /\ t \in Expired'
    BY <1>1, <1>3, <1>4 DEF Due
  <2>2. \E i \in DOMAIN expired_' : expired_'[i] = t
    BY <2>1 DEF Expired, ToSet
  <2>3. DOMAIN expired_' = 1..Len(expired_')
    BY DEF IInv, TypeOK
  <2>4. HasTurn(t)' = TRUE
    BY <1>1, <2>2, <2>3 DEF HasTurn
  <2>5. running' # t
    BY <1>1 DEF NoTimer, Timer
  <2>6. StageOf(t) = "waiting" /\ StageOf(t)' = "expired"
    BY <1>1, <1>2, <2>1, <2>4, <2>5 DEF Staged
  <2> QED
    BY <1>1, <2>6 DEF Lives, Life!Next, Life!Expire
<1>5. CASE t \notin Due
  <2>1. (t \in Expired') = (t \in Expired)
    BY <1>1, <1>2, <1>3, <1>5
  <2> QED
    BY <1>1, <1>2, <2>1, SameStage
<1> QED
  BY <1>4, <1>5

\* The iterator: whose turn it is, and who else is waiting for it.
LEMMA TurnLemma ==
    ASSUME IInv, timerCallbackRunning_, pos <= Len(expired_),
           UNCHANGED <<expired_, restarting>>
    PROVE  /\ expired_[pos] \in Timer /\ expired_[pos] \in Expired /\ HasTurn(expired_[pos])
           /\ pos' = pos => \A t \in Timer : HasTurn(t)' = HasTurn(t)
           /\ pos' = pos + 1 => \A t \in Timer :
                 HasTurn(t)' = (HasTurn(t) /\ t # expired_[pos])
<1>1. /\ ~restarting /\ expired_ \in Seq(Timer) /\ pos \in 1..Len(expired_)
      /\ Len(expired_) \in Nat /\ pos \in Nat
  BY DEF IInv, TypeOK, PassInv
<1>2. expired_[pos] \in Timer /\ expired_[pos] \in Expired /\ HasTurn(expired_[pos])
  BY <1>1 DEF Expired, ToSet, HasTurn
<1>3. \A t \in Timer : pos' = pos => HasTurn(t)' = HasTurn(t)
  BY DEF HasTurn
<1>4. ASSUME pos' = pos + 1, NEW t \in Timer
      PROVE  HasTurn(t)' = (HasTurn(t) /\ t # expired_[pos])
  <2>1. \A i \in 1..Len(expired_) : expired_[i] = expired_[pos] => i = pos
    BY <1>1 DEF IInv, TimersOwned, IsInjective
  <2>2. HasTurn(t)' => HasTurn(t) /\ t # expired_[pos]
    <3>1. ASSUME NEW i \in (pos + 1)..Len(expired_), expired_[i] = t
          PROVE  i \in pos..Len(expired_) /\ t # expired_[pos]
      BY <1>1, <2>1, <3>1
    <3> QED
      BY <1>4, <3>1 DEF HasTurn
  <2>3. HasTurn(t) /\ t # expired_[pos] => HasTurn(t)'
    <3>1. ASSUME NEW i \in pos..Len(expired_), expired_[i] = t, t # expired_[pos]
          PROVE  i \in (pos + 1)..Len(expired_)
      BY <1>1, <3>1
    <3> QED
      BY <1>4, <3>1 DEF HasTurn
  <2>4. HasTurn(t) \in BOOLEAN /\ HasTurn(t)' \in BOOLEAN
    BY DEF HasTurn
  <2> QED
    BY <2>2, <2>3, <2>4
<1> QED
  BY <1>2, <1>3, <1>4

LEMMA IteratorLives ==
    ASSUME IInv, Staged, Staged', IInv', NextExpired \/ CallbackReturns, NEW t \in Timer
    PROVE  Lives(t)
<1> DEFINE x == expired_[pos]
<1>1. /\ timerCallbackRunning_ /\ pos <= Len(expired_)
      /\ UNCHANGED <<expired_, restarting, interval, allocated, cancelled>>
  BY DEF NextExpired, CallbackReturns, IInv, PassInv, timerVars
<1>2. /\ x \in Timer /\ x \in Expired /\ x \in allocated /\ HasTurn(x)
      /\ pos' = pos => \A u \in Timer : HasTurn(u)' = HasTurn(u)
      /\ pos' = pos + 1 => \A u \in Timer : HasTurn(u)' = (HasTurn(u) /\ u # x)
  BY <1>1, TurnLemma DEF IInv, TimersOwned
<1>3. Expired' = Expired
  BY <1>1 DEF Expired
<1> HIDE DEF x
<1>4. \/ running = NoTimer /\ running' = x /\ pos' = pos /\ x \notin deleted
      \/ running = NoTimer /\ running' = NoTimer /\ pos' = pos + 1 /\ x \in deleted
      \/ running = x /\ running' = NoTimer /\ pos' = pos + 1
  BY DEF NextExpired, CallbackReturns, MayRun, IInv, PassInv, x
<1>5. NoTimer \notin Timer
  BY DEF NoTimer, Timer
<1>6. (x \in cancelled) = (x \in deleted)
  BY <1>2 DEF IInv, CancelInv
<1>7. CASE t = x
  <2>1. CASE running = NoTimer /\ running' = x /\ x \notin deleted
    <3>1. StageOf(t) = "expired" /\ StageOf(t)' = "running"
      BY <1>1, <1>2, <1>3, <1>5, <1>7, <2>1 DEF Staged
    <3>2. (t \in cancelled) = FALSE
      BY <1>6, <1>7, <2>1
    <3> QED
      BY <1>1, <3>1, <3>2 DEF Lives, Life!Next, Life!Start
  <2>2. CASE running = NoTimer /\ running' = NoTimer /\ pos' = pos + 1 /\ x \in deleted
    <3>1. HasTurn(t)' = FALSE
      BY <1>2, <1>7, <2>2
    <3>2. StageOf(t) = "expired" /\ StageOf(t)' = "ran"
      BY <1>1, <1>2, <1>3, <1>5, <1>7, <2>2, <3>1 DEF Staged
    <3>3. (t \in cancelled) = TRUE
      BY <1>6, <1>7, <2>2
    <3> QED
      BY <1>1, <3>2, <3>3 DEF Lives, Life!Next, Life!Start
  <2>3. CASE running = x /\ running' = NoTimer /\ pos' = pos + 1
    <3>1. HasTurn(t)' = FALSE
      BY <1>2, <1>7, <2>3
    <3>2. StageOf(t) = "running" /\ StageOf(t)' = "ran"
      BY <1>1, <1>2, <1>3, <1>5, <1>7, <2>3, <3>1 DEF Staged
    <3> QED
      BY <1>1, <3>2 DEF Lives, Life!Next, Life!Return
  <2> QED
    BY <1>4, <2>1, <2>2, <2>3
<1>8. CASE t # x
  <2>1. HasTurn(t)' = HasTurn(t)
    <3>1. HasTurn(t) \in BOOLEAN /\ HasTurn(t)' \in BOOLEAN
      BY DEF HasTurn
    <3> QED
      BY <1>2, <1>4, <1>8, <3>1
  <2>2. running # t /\ running' # t
    BY <1>4, <1>5, <1>8
  <2> QED
    BY <1>1, <1>3, <2>1, <2>2, SameStage
<1> QED
  BY <1>7, <1>8

\* While the batch is restarted nobody runs and nobody has a turn.
LEMMA RestartingLemma ==
    ASSUME IInv, restarting
    PROVE  running = NoTimer /\ \A t \in Timer : running # t /\ ~HasTurn(t)
  BY DEF IInv, PassInv, HasTurn, NoTimer, Timer

LEMMA BatchLives ==
    ASSUME IInv, Staged, Staged', IInv', BatchEnds \/ RestartEnds, NEW t \in Timer
    PROVE  Lives(t)
<1>1. UNCHANGED <<expired_, running, interval, allocated, cancelled>>
  BY DEF BatchEnds, RestartEnds, timerVars
<1>2. Expired' = Expired
  BY <1>1 DEF Expired
<1>3. CASE BatchEnds
  <2>1. pos \in Nat /\ Len(expired_) \in Nat /\ pos > Len(expired_) /\ restarting' = TRUE
    BY <1>3 DEF BatchEnds, IInv, TypeOK
  <2>2. HasTurn(t) = FALSE /\ HasTurn(t)' = FALSE
    BY <2>1 DEF HasTurn
  <2> QED
    BY <1>1, <1>2, <2>2, SameStage
<1>4. CASE RestartEnds
  <2>1. Expired = {}
    BY <1>4 DEF RestartEnds, Expired, ToSet
  <2> QED
    BY <1>1, <1>2, <2>1, SameStage
<1> QED
  BY <1>3, <1>4

LEMMA RestartNextLives ==
    ASSUME IInv, Staged, Staged', IInv', RestartNext, NEW t \in Timer
    PROVE  Lives(t)
<1> DEFINE u == Head(expired_)
<1>1. /\ restarting /\ expired_' = Tail(expired_) /\ UNCHANGED <<running, restarting, cancelled>>
      /\ \/ Restarts(u) /\ UNCHANGED <<interval, allocated>>
         \/ ~Restarts(u) /\ allocated' = allocated \ {u} /\ interval' = [interval EXCEPT ![u] = 0]
  BY DEF RestartNext, Free
<1>2. u \in Expired /\ Expired' = Expired \ {u}
  <2>1. expired_ \in Seq(Timer) /\ expired_ # <<>> /\ IsInjective(expired_)
    BY DEF RestartNext, IInv, TypeOK, TimersOwned
  <2> QED
    BY <1>1, <2>1, TailLemma DEF Expired
<1> HIDE DEF u
<1>3. u \in allocated /\ u \in Timer /\ (u \in cancelled) = (u \in deleted)
  <2>1. u \in allocated
    BY <1>2 DEF IInv, TimersOwned
  <2> QED
    BY <2>1 DEF IInv, TypeOK, CancelInv
<1>4. \A x \in Timer : running # x /\ HasTurn(x) = FALSE /\ running' # x /\ HasTurn(x)' = FALSE
  BY <1>1, RestartingLemma DEF HasTurn
<1>5. CASE t = u
  <2>1. StageOf(t) = "ran"
    BY <1>2, <1>3, <1>4, <1>5 DEF Staged
  <2>2. CASE Restarts(u) /\ UNCHANGED <<interval, allocated>>
    <3>1. StageOf(t)' = "waiting"
      BY <1>2, <1>3, <1>5, <2>2 DEF Staged
    <3>2. (interval[t] > 0) = TRUE /\ (t \in cancelled) = FALSE
      BY <1>3, <1>5, <2>2 DEF Restarts
    <3> QED
      BY <1>1, <2>1, <2>2, <3>1, <3>2 DEF Lives, Life!Next, Life!Restart
  <2>3. CASE ~Restarts(u) /\ allocated' = allocated \ {u}
             /\ interval' = [interval EXCEPT ![u] = 0]
    <3>1. StageOf(t)' = "free"
      BY <1>5, <2>3 DEF Staged
    <3>2. ~(interval[t] > 0) \/ t \in cancelled
      BY <1>3, <1>5, <2>3 DEF Restarts
    <3>3. (interval'[t] > 0) = FALSE
      <4>1. interval'[t] = 0
        BY <1>3, <1>5, <2>3 DEF IInv, TypeOK
      <4> QED
        BY <4>1
    <3> QED
      BY <1>1, <2>1, <3>1, <3>2, <3>3 DEF Lives, Life!Next, Life!Free
  <2> QED
    BY <1>1, <2>2, <2>3
<1>6. CASE t # u
  <2>1. interval'[t] = interval[t] /\ (t \in allocated') = (t \in allocated)
    BY <1>1, <1>6 DEF IInv, TypeOK
  <2>2. (t \in Expired') = (t \in Expired) /\ (t \in cancelled') = (t \in cancelled)
    BY <1>1, <1>2, <1>6
  <2>3. HasTurn(t)' = HasTurn(t) /\ (running' = t) = (running = t)
    BY <1>1, <1>4
  <2> QED
    BY <2>1, <2>2, <2>3, SameStage
<1> QED
  BY <1>5, <1>6

LEMMA LifeInit == Init => \A t \in Timer : Life(t)!Init
<1> SUFFICES ASSUME Init, NEW t \in Timer PROVE Life(t)!Init
  OBVIOUS
<1>1. StageOf(t) = "free" /\ (interval[t] > 0) = FALSE /\ (t \in cancelled) = FALSE
  BY DEF Init, StageOf
<1> QED
  BY <1>1 DEF Life!Init

LEMMA LifeStep == IInv /\ [Next]_vars => [\A t \in Timer : Lives(t)]_vars
<1> SUFFICES ASSUME IInv, Next, NEW t \in Timer PROVE Lives(t)
  BY Zenon
<1>1. IInv' /\ Staged /\ Staged'
  <2>1. IInv'
    BY StepLemma
  <2> QED
    BY <2>1, StagedLemma, PTL
<1>2. CASE Tick
  <2>1. UNCHANGED <<expired_, pos, running, restarting, interval, allocated, cancelled>>
    BY <1>2 DEF Tick, passVars, batchVars
  <2> QED
    BY <1>1, <2>1, SameBatch, SameStage
<1> QED
  BY <1>1, <1>2, CallsLive, ReadLives, IteratorLives, BatchLives, RestartNextLives DEF Next

-----------------------------------------------------------------------------
(* The theorems.                                                           *)

(* IInv holds in every state.                                              *)
THEOREM TimersInvariant == Spec => []IInv
<1>1. IInv /\ [Next]_vars => IInv'
  BY StepLemma
<1> QED
  BY <1>1, InitLemma, PTL DEF Spec

(* The timers, their heap and the pass keep their types.                   *)
THEOREM TypeCorrect == Spec => []TypeOK
<1>1. IInv => TypeOK
  BY DEF IInv
<1> QED
  BY <1>1, TimersInvariant, PTL

(* No timer is lost, leaked, freed twice or run after it was freed.        *)
THEOREM TimersAreOwnedOnce == Spec => []TimersOwned
<1>1. IInv => TimersOwned
  BY DEF IInv
<1> QED
  BY <1>1, TimersInvariant, PTL

(* timerfd_ is never late for a timer that waits, wherever the flag is     *)
(* left over from, save after the allocator gave a new timer the address   *)
(* that the heap remembered, and then only until timerfd_ is next set.     *)
THEOREM TimersAreInTime == Spec => []TimerNotLate
<1>1. IInv => TimerNotLate
  BY DEF IInv, PassInv, HeapInv, InTime, TimerNotLate
<1> QED
  BY <1>1, TimersInvariant, PTL

(* Every timer lives by TimerLife: its callback is called once each time   *)
(* it expires unless it was cancelled before, and a cancelled timer        *)
(* neither starts nor waits again.                                         *)
THEOREM TimersLiveByContract == Spec => LifeSpec
  BY LifeInit, LifeStep, TimersInvariant, PTL DEF Spec, LifeSpec

(* The same as an implementation: the scheduler is TimerLife, seen from    *)
(* any timer.                                                              *)
THEOREM SchedulerImplementsLife ==
    ASSUME NEW t \in Timer
    PROVE  Spec => Life(t)!Spec
<1>1. Init => Life(t)!Init
  BY LifeInit
<1>2. IInv /\ [Next]_vars => [Life(t)!Next]_(Life(t)!vars)
  <2>1. UNCHANGED vars => UNCHANGED Life(t)!vars
    <3>1. SUFFICES ASSUME UNCHANGED vars PROVE UNCHANGED Life(t)!vars
      OBVIOUS
    <3>2. UNCHANGED <<allocated, timers_, running, restarting, pos, expired_, interval, cancelled>>
      BY <3>1 DEF vars, heapVars, timerVars, passVars, batchVars
    <3> QED
      BY <3>2 DEF Life!vars, StageOf, HasTurn
  <2> QED
    BY LifeStep, <2>1 DEF Lives
<1> QED
  BY <1>1, <1>2, TimersInvariant, PTL DEF Spec, Life!Spec

(* What delTimer was given is freed by the end of the batch at the latest, *)
(* a timer that repeats too, which is otherwise restarted there.           *)
CancelledIsFreed == ~timerCallbackRunning_ /\ ~restarting => cancelled \cap allocated = {}

(* A cancelled timer is freed with the batch it expired in.                *)
THEOREM CancelledAreFreed == Spec => []CancelledIsFreed
<1>1. IInv => CancelledIsFreed
  <2>1. expired_ = <<>> => Expired = {}
    BY DEF Expired, ToSet
  <2> QED
    BY <2>1 DEF IInv, TimersOwned, CancelInv, CancelledIsFreed
<1> QED
  BY <1>1, TimersInvariant, PTL

(* After delTimer, also from another timer's callback in the same batch,   *)
(* or from its own, the timer's callback does not start again.             *)
CancelledNeverRuns ==
    [][running' \notin {running, NoTimer} => running' \notin cancelled]_vars

(* No callback of a cancelled timer starts.                                *)
THEOREM CancelledNeverStart == Spec => CancelledNeverRuns
<1>1. IInv /\ [Next]_vars
        => [running' \notin {running, NoTimer} => running' \notin cancelled]_vars
  BY StepLemma DEF KeepsCancelled
<1> QED
  BY <1>1, TimersInvariant, PTL DEF Spec, CancelledNeverRuns
=============================================================================
