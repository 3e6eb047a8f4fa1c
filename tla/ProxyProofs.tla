---------------------------- MODULE ProxyProofs ----------------------------
(***************************************************************************)
(* The three parts around the proxy's tasks: connections are spread in     *)
(* turn, for any number of workers, connections and buckets that replace   *)
(* one another; the properties of the ring, for any servers, keys, digests *)
(* and threads; and the loader of the configuration, which implements      *)
(* PublishedContent, for any readers, any changes of the file and any      *)
(* grace that is longer than what a reader needs.  At the end, the three   *)
(* of them side by side.                                                   *)
(***************************************************************************)
EXTENDS MCProxy, SequenceTheorems, WellFoundedInduction, TLAPS

-----------------------------------------------------------------------------
(* The loops of the workers.                                               *)

Buckets == [nextLoops_ : Seq(Worker), next_ : Nat]
Loops(b) == buckets[b].nextLoops_

\* Whoever uses a bucket uses one that has been made.
LocalInv ==
    \A t \in Thread : /\ local[t] <= Len(buckets)
                      /\ at[t] \in {"add", "next"} => local[t] # 0

\* A loop is registered once, in one bucket; before that it has had no connection.
Registered(w) == at[w] \in {"loop", "dead"}
ListInv ==
    /\ \A b \in 1..Len(buckets) :
          /\ buckets[b].next_ <= Len(Loops(b))
          /\ \A j \in 1..Len(Loops(b)) : Registered(Loops(b)[j])
    /\ \A b, c \in 1..Len(buckets) : \A i \in 1..Len(Loops(b)), j \in 1..Len(Loops(c)) :
          Loops(b)[i] = Loops(c)[j] => b = c /\ i = j
    /\ \A w \in Worker : ~Registered(w) => owed[w] = {}

\* The loops that may still come before the one at position j has its next turn:
\* the rest of the round, and in the next one those in front of it.
Ahead(next, j, k) ==
    IF j <= next THEN k > next \/ k < j ELSE next < k /\ k < j

TurnInv ==
    \A b \in 1..Len(buckets) : \A j \in 1..Len(Loops(b)) : \A v \in owed[Loops(b)[j]] :
        \E k \in 1..Len(Loops(b)) : Loops(b)[k] = v /\ Ahead(buckets[b].next_, j, k)

BucketInv == BucketTypeOK /\ LocalInv /\ ListInv /\ TurnInv

-----------------------------------------------------------------------------
LEMMA BucketInitLemma == BucketInit => BucketInv
<1> SUFFICES ASSUME BucketInit PROVE BucketInv
  OBVIOUS
<1>1. buckets = <<>> /\ Len(buckets) = 0 /\ buckets \in Seq(Buckets)
  BY DEF BucketInit
<1>2. BucketTypeOK /\ LocalInv
  BY <1>1, ThreadAssumption DEF BucketInit, BucketTypeOK, LocalInv, Thread, Buckets
<1>3. ListInv /\ TurnInv
  BY <1>1, ThreadAssumption DEF BucketInit, ListInv, TurnInv, Registered, Thread
<1> QED
  BY <1>2, <1>3 DEF BucketInv

LEMMA BucketFacts ==
    ASSUME BucketTypeOK
    PROVE  /\ buckets \in Seq(Buckets) /\ Len(buckets) \in Nat
           /\ \A b \in 1..Len(buckets) : /\ buckets[b] \in Buckets
                                         /\ Loops(b) \in Seq(Worker) /\ Len(Loops(b)) \in Nat
                                         /\ buckets[b].next_ \in Nat
                                         /\ \A j \in 1..Len(Loops(b)) : Loops(b)[j] \in Worker
<1>1. buckets \in Seq(Buckets)
  BY DEF BucketTypeOK, Buckets
<1>2. \A b \in 1..Len(buckets) : buckets[b] \in Buckets
  BY <1>1, ElementOfSeq
<1>3. \A b \in 1..Len(buckets) : Loops(b) \in Seq(Worker) /\ buckets[b].next_ \in Nat
  BY <1>2 DEF Buckets, Loops
<1>4. \A b \in 1..Len(buckets) : Len(Loops(b)) \in Nat
                                 /\ \A j \in 1..Len(Loops(b)) : Loops(b)[j] \in Worker
  BY <1>3, ElementOfSeq, LenProperties
<1> QED
  BY <1>1, <1>2, <1>3, <1>4, LenProperties

\* Steps that leave the buckets alone.
LEMMA QuietLemma ==
    ASSUME BucketInv, BucketTypeOK', LocalInv', UNCHANGED <<buckets, owed>>,
           \A w \in Worker : Registered(w) => Registered(w)'
    PROVE  BucketInv'
<1>1. ListInv'
  <2>1. \A b \in 1..Len(buckets) : \A j \in 1..Len(Loops(b)) :
            at'[Loops(b)[j]] \in {"loop", "dead"}
    BY BucketFacts DEF BucketInv, ListInv, Registered
  <2> QED
    BY <2>1 DEF BucketInv, ListInv, Loops, Registered
<1>2. TurnInv'
  BY DEF BucketInv, TurnInv, Loops
<1> QED
  BY <1>1, <1>2 DEF BucketInv

LEMMA StartLemma ==
    ASSUME BucketInv, (\E w \in Worker : StartThread(w) \/ WorkerDies(w)) \/ StartReturns \/ Accept
    PROVE  BucketInv'
<1>1. UNCHANGED <<instance_, buckets, local, given, owed>>
  BY DEF StartThread, WorkerDies, StartReturns, Accept
<1>2. PICK t \in Thread, to \in {"check", "dead", "loop"} :
          at' = [at EXCEPT ![t] = to] /\ (to = "dead" \/ t = Main \/ at[t] = "unborn")
  BY DEF StartThread, WorkerDies, StartReturns, Accept, Move, Thread
<1>3. BucketTypeOK' /\ LocalInv'
  BY <1>1, <1>2 DEF BucketInv, BucketTypeOK, LocalInv
<1>4. \A w \in Worker : Registered(w) => Registered(w)'
  BY <1>2, ThreadAssumption DEF Registered, BucketInv, BucketTypeOK, Thread
<1> QED
  BY <1>1, <1>3, <1>4, QuietLemma

LEMMA CheckLemma ==
    ASSUME BucketInv, NEW t \in Thread, CheckInstance(t) \/ ReturnInstance(t)
    PROVE  BucketInv'
<1>1. UNCHANGED <<instance_, buckets, given, owed>>
  BY DEF CheckInstance, ReturnInstance
<1>2. PICK to \in {"create", "return", "next", "add"} :
          at' = [at EXCEPT ![t] = to] /\ at[t] \in {"check", "return"}
  BY DEF CheckInstance, ReturnInstance, Move
<1>3. PICK b \in 0..Len(buckets) :
          local' = [local EXCEPT ![t] = b] /\ (to \in {"next", "add"} => b # 0)
  <2>0. local[t] \in 0..Len(buckets) /\ instance_ \in 0..Len(buckets)
        /\ local = [local EXCEPT ![t] = local[t]]
    BY BucketFacts DEF BucketInv, BucketTypeOK, LocalInv
  <2>1. CASE CheckInstance(t)
    <3>1. local' = local /\ at' = [at EXCEPT ![t] = IF instance_ = 0 THEN "create" ELSE "return"]
      BY <2>1 DEF CheckInstance, Move
    <3>2. to \in {"create", "return"}
      BY <1>2, <3>1 DEF BucketInv, BucketTypeOK
    <3> QED
      BY <2>0, <3>1, <3>2
  <2>2. CASE ReturnInstance(t)
    BY <2>0, <2>2 DEF ReturnInstance
  <2> QED
    BY <2>1, <2>2
<1>4. BucketTypeOK'
  BY <1>1, <1>2, <1>3, BucketFacts DEF BucketInv, BucketTypeOK
<1>5. LocalInv'
  BY <1>1, <1>2, <1>3, BucketFacts DEF BucketInv, BucketTypeOK, LocalInv
<1>6. \A w \in Worker : Registered(w) => Registered(w)'
  BY <1>2 DEF Registered, BucketInv, BucketTypeOK, Thread
<1> QED
  BY <1>1, <1>4, <1>5, <1>6, QuietLemma

LEMMA CreateLemma ==
    ASSUME BucketInv, NEW t \in Thread, CreateInstance(t)
    PROVE  BucketInv'
<1> DEFINE empty == [nextLoops_ |-> <<>>, next_ |-> 0]
           n == Len(buckets) + 1
<1>1. empty \in Buckets /\ Len(empty.nextLoops_) = 0
  BY DEF Buckets
<1>2. /\ buckets' = Append(buckets, empty) /\ buckets' \in Seq(Buckets) /\ Len(buckets') = n
      /\ n \in Nat /\ buckets'[n] = empty
      /\ \A b \in 1..Len(buckets) : buckets'[b] = buckets[b]
  BY <1>1, BucketFacts DEF CreateInstance, BucketInv
<1>3. /\ instance_' = n /\ local' = [local EXCEPT ![t] = n]
      /\ at[t] = "create" /\ at' = [at EXCEPT ![t] = "return"] /\ UNCHANGED <<given, owed>>
  BY <1>2 DEF CreateInstance, Move
<1>4. BucketTypeOK'
  BY <1>2, <1>3 DEF BucketInv, BucketTypeOK, Buckets
<1>5. LocalInv'
  BY <1>2, <1>3, BucketFacts DEF BucketInv, BucketTypeOK, LocalInv
<1>6. \A w \in Worker : Registered(w) => Registered(w)'
  BY <1>3 DEF Registered, BucketInv, BucketTypeOK, Thread
<1>7. \A b \in 1..n : IF b = n THEN Len(Loops(b)') = 0 /\ buckets'[b].next_ = 0
                      ELSE b \in 1..Len(buckets) /\ buckets'[b] = buckets[b]
                           /\ Loops(b)' = Loops(b)
  BY <1>1, <1>2, BucketFacts DEF Loops, BucketInv
<1>8. ListInv'
  <2>1. \A b \in 1..Len(buckets) : \A j \in 1..Len(Loops(b)) :
            at'[Loops(b)[j]] \in {"loop", "dead"}
    BY <1>6, BucketFacts DEF BucketInv, ListInv, Registered
  <2>2. \A b \in 1..n : buckets'[b].next_ <= Len(Loops(b)')
    BY <1>7 DEF BucketInv, ListInv
  <2>3. \A b \in 1..n : \A j \in 1..Len(Loops(b)') : Registered(Loops(b)[j])'
    BY <1>7, <2>1 DEF Registered
  <2>4. \A b, c \in 1..n : \A i \in 1..Len(Loops(b)'), j \in 1..Len(Loops(c)') :
            Loops(b)'[i] = Loops(c)'[j] => b = c /\ i = j
    BY <1>7 DEF BucketInv, ListInv
  <2>5. \A w \in Worker : ~Registered(w)' => owed'[w] = {}
    BY <1>3, <1>6 DEF BucketInv, ListInv
  <2> QED
    BY <1>2, <2>2, <2>3, <2>4, <2>5 DEF ListInv
<1>9. TurnInv'
  <2> SUFFICES ASSUME NEW b \in 1..n, NEW j \in 1..Len(Loops(b)'), NEW v \in owed'[Loops(b)'[j]]
               PROVE  \E k \in 1..Len(Loops(b)') :
                          Loops(b)'[k] = v /\ Ahead(buckets'[b].next_, j, k)
    BY <1>2 DEF TurnInv
  <2>1. b \in 1..Len(buckets) /\ buckets'[b] = buckets[b] /\ Loops(b)' = Loops(b)
    BY <1>7
  <2>2. j \in 1..Len(Loops(b)) /\ v \in owed[Loops(b)[j]]
    BY <1>3, <2>1
  <2>3. PICK k \in 1..Len(Loops(b)) : Loops(b)[k] = v /\ Ahead(buckets[b].next_, j, k)
    BY <2>1, <2>2 DEF BucketInv, TurnInv
  <2> QED
    BY <2>1, <2>3
<1> QED
  BY <1>4, <1>5, <1>8, <1>9 DEF BucketInv
LEMMA AddLemma ==
    ASSUME BucketInv, NEW w \in Worker, addEventLoop(w)
    PROVE  BucketInv'
<1> DEFINE d == local[w]
           n == Len(Loops(d)) + 1
<1>0. w \in Thread /\ w # Main
  BY ThreadAssumption DEF Thread
<1>1. d \in 1..Len(buckets) /\ at[w] = "add" /\ ~Registered(w)
  BY <1>0, BucketFacts DEF BucketInv, BucketTypeOK, LocalInv, addEventLoop, Move, Registered
<1>2. Loops(d) \in Seq(Worker) /\ Len(Loops(d)) \in Nat /\ buckets[d] \in Buckets
  BY <1>1, BucketFacts DEF BucketInv
<1> DEFINE grown == [buckets[d] EXCEPT !.nextLoops_ = Append(@, w)]
<1>3. grown \in Buckets /\ grown.nextLoops_ = Append(Loops(d), w) /\ grown.next_ = buckets[d].next_
  <2>1. buckets[d].nextLoops_ = Loops(d) /\ Append(Loops(d), w) \in Seq(Worker)
    BY <1>2 DEF Loops
  <2>2. grown = [buckets[d] EXCEPT !.nextLoops_ = Append(Loops(d), w)]
    BY <2>1
  <2> QED
    BY <1>2, <2>1, <2>2 DEF Buckets
<1>4. buckets' = [buckets EXCEPT ![d] = grown]
  BY <1>1 DEF addEventLoop
<1>5. /\ buckets' \in Seq(Buckets) /\ Len(buckets') = Len(buckets)
      /\ \A b \in 1..Len(buckets) : buckets'[b] = IF b = d THEN grown ELSE buckets[b]
  <2> HIDE DEF d, grown
  <2> QED
    BY <1>1, <1>3, <1>4, BucketFacts, ExceptSeq DEF BucketInv
<1>6. /\ at' = [at EXCEPT ![w] = "loop"] /\ local' = [local EXCEPT ![w] = 0]
      /\ UNCHANGED <<instance_, given, owed>>
  BY DEF addEventLoop, Move, Forget
<1>7. \A b \in 1..Len(buckets) :
          /\ buckets'[b].next_ = buckets[b].next_
          /\ IF b = d THEN /\ Len(Loops(b)') = n /\ Loops(b)'[n] = w
                           /\ \A j \in 1..Len(Loops(b)) : Loops(b)'[j] = Loops(b)[j]
                      ELSE Loops(b)' = Loops(b)
  <2>1. Len(Append(Loops(d), w)) = n /\ Append(Loops(d), w)[n] = w
        /\ \A j \in 1..Len(Loops(d)) : Append(Loops(d), w)[j] = Loops(d)[j]
    BY <1>2
  <2>2. \A b \in 1..Len(buckets) : Loops(b)' = buckets'[b].nextLoops_
    BY DEF Loops
  <2> HIDE DEF d, n, grown
  <2> QED
    BY <1>3, <1>5, <2>1, <2>2 DEF Loops
<1> HIDE DEF d
<1>8. BucketTypeOK'
  BY <1>0, <1>5, <1>6 DEF BucketInv, BucketTypeOK, Buckets, Thread
<1>9. LocalInv'
  BY <1>0, <1>5, <1>6, BucketFacts DEF BucketInv, BucketTypeOK, LocalInv
<1>10. \A v \in Worker : Registered(v)' <=> Registered(v) \/ v = w
  BY <1>6 DEF Registered, BucketInv, BucketTypeOK, Thread
<1>11. ListInv'
  <2>1. \A b \in 1..Len(buckets) :
            /\ buckets'[b].next_ <= Len(Loops(b)')
            /\ \A j \in 1..Len(Loops(b)') : at'[Loops(b)'[j]] \in {"loop", "dead"}
    <3> TAKE b \in 1..Len(buckets)
    <3>1. /\ buckets[b].next_ \in Nat /\ buckets[b].next_ <= Len(Loops(b))
          /\ Len(Loops(b)) \in Nat
          /\ \A j \in 1..Len(Loops(b)) : Loops(b)[j] \in Worker /\ Registered(Loops(b)[j])
      BY BucketFacts DEF BucketInv, ListInv
    <3>2. \A j \in 1..Len(Loops(b)) : at'[Loops(b)[j]] \in {"loop", "dead"}
      BY <1>10, <3>1 DEF Registered
    <3>3. at'[w] = "loop"
      BY <1>0, <1>6 DEF BucketInv, BucketTypeOK
    <3>4. CASE b = d
      BY <1>7, <3>1, <3>2, <3>3, <3>4
    <3>5. CASE b # d
      BY <1>7, <3>1, <3>2, <3>5
    <3> QED
      BY <3>4, <3>5
  <2>2. \A b \in 1..Len(buckets) : \A j \in 1..Len(Loops(b)) : Loops(b)[j] # w
    BY <1>1 DEF BucketInv, ListInv
  <2>3. \A b, c \in 1..Len(buckets) : \A i \in 1..Len(Loops(b)'), j \in 1..Len(Loops(c)') :
            Loops(b)'[i] = Loops(c)'[j] => b = c /\ i = j
    <3>1. \A b \in 1..Len(buckets) : \A j \in 1..Len(Loops(b)') :
              \/ b = d /\ j = n /\ Loops(b)'[j] = w
              \/ j \in 1..Len(Loops(b)) /\ Loops(b)'[j] = Loops(b)[j]
      BY <1>2, <1>7
    <3> SUFFICES ASSUME NEW b \in 1..Len(buckets), NEW c \in 1..Len(buckets),
                        NEW i \in 1..Len(Loops(b)'), NEW j \in 1..Len(Loops(c)'),
                        Loops(b)'[i] = Loops(c)'[j]
                 PROVE  b = c /\ i = j
      OBVIOUS
    <3>2. CASE Loops(b)'[i] = w
      <4>1. b = d /\ i = n
        BY <2>2, <3>1, <3>2
      <4>2. c = d /\ j = n
        BY <2>2, <3>1, <3>2
      <4> QED
        BY <4>1, <4>2
    <3>3. CASE Loops(b)'[i] # w
      <4>1. i \in 1..Len(Loops(b)) /\ Loops(b)'[i] = Loops(b)[i]
        BY <3>1, <3>3
      <4>2. j \in 1..Len(Loops(c)) /\ Loops(c)'[j] = Loops(c)[j]
        BY <3>1, <3>3
      <4>3. Loops(b)[i] = Loops(c)[j]
        BY <4>1, <4>2
      <4>4. \A e, f \in 1..Len(buckets) : \A x \in 1..Len(Loops(e)), y \in 1..Len(Loops(f)) :
                Loops(e)[x] = Loops(f)[y] => e = f /\ x = y
        BY DEF BucketInv, ListInv
      <4> QED
        BY <4>1, <4>2, <4>3, <4>4
    <3> QED
      BY <3>2, <3>3
  <2>4. \A v \in Worker : ~Registered(v)' => owed'[v] = {}
    BY <1>6, <1>10 DEF BucketInv, ListInv
  <2> QED
    BY <1>5, <2>1, <2>3, <2>4 DEF ListInv, Registered
<1>12. TurnInv'
  <2> SUFFICES ASSUME NEW b \in 1..Len(buckets), NEW j \in 1..Len(Loops(b)'),
                      NEW v \in owed'[Loops(b)'[j]]
               PROVE  \E k \in 1..Len(Loops(b)') :
                          Loops(b)'[k] = v /\ Ahead(buckets'[b].next_, j, k)
    BY <1>5 DEF TurnInv
  <2>1. j \in 1..Len(Loops(b)) /\ Loops(b)'[j] = Loops(b)[j]
    <3>1. owed'[w] = {}
      BY <1>1, <1>6 DEF BucketInv, ListInv
    <3> QED
      BY <1>2, <1>7, <3>1
  <2>2. v \in owed[Loops(b)[j]]
    BY <1>6, <2>1
  <2>3. PICK k \in 1..Len(Loops(b)) : Loops(b)[k] = v /\ Ahead(buckets[b].next_, j, k)
    BY <2>1, <2>2 DEF BucketInv, TurnInv
  <2>4. k \in 1..Len(Loops(b)') /\ Loops(b)'[k] = Loops(b)[k]
    BY <1>2, <1>7
  <2> QED
    BY <1>7, <2>3, <2>4
<1> QED
  BY <1>8, <1>9, <1>11, <1>12 DEF BucketInv
LEMMA NextLemma ==
    ASSUME BucketInv, getNextLoop
    PROVE  BucketInv' /\ owed[given'] = {}
<1> DEFINE d == local[Main]
           next == buckets[d].next_
           i == IF Wraps(buckets[d]) THEN 0 ELSE next
           w == Loops(d)[i + 1]
           served == [buckets[d] EXCEPT !.next_ = i + 1]
<1>0. Main \in Thread
  BY DEF Thread
<1>1. d \in 1..Len(buckets)
  BY <1>0, BucketFacts DEF BucketInv, BucketTypeOK, LocalInv, getNextLoop, Move
<1>2. /\ Loops(d) \in Seq(Worker) /\ Len(Loops(d)) \in Nat /\ Loops(d) # <<>>
      /\ next \in Nat /\ next <= Len(Loops(d)) /\ buckets[d] \in Buckets
      /\ Len(Loops(d)) > 0
  <2>1. Loops(d) # <<>>
    BY DEF getNextLoop, Bucket, Loops
  <2> QED
    BY <1>1, <2>1, BucketFacts, EmptySeq DEF BucketInv, ListInv
<1>3. Wraps(buckets[d]) <=> Len(Loops(d)) <= next
  BY DEF Wraps, Loops
<1>4. i + 1 \in 1..Len(Loops(d)) /\ i \in Nat /\ i = (IF next = Len(Loops(d)) THEN 0 ELSE next)
  BY <1>2, <1>3
<1>5. w \in Worker
  BY <1>2, <1>4, ElementOfSeq
<1>6. /\ buckets' = [buckets EXCEPT ![d] = served]
      /\ given' = w
      /\ owed' = [v \in Worker |-> IF v = w THEN ToSet(Loops(d)) \ {w} ELSE owed[v] \ {w}]
      /\ at' = [at EXCEPT ![Main] = "loop"] /\ local' = [local EXCEPT ![Main] = 0]
      /\ UNCHANGED instance_
  BY <1>1 DEF getNextLoop, Move, Forget, Bucket, Loops
<1>7. served \in Buckets /\ served.nextLoops_ = Loops(d) /\ served.next_ = i + 1
  <2> HIDE DEF i
  <2> QED
    BY <1>2, <1>4 DEF Buckets, Loops
<1>8. /\ buckets' \in Seq(Buckets) /\ Len(buckets') = Len(buckets)
      /\ \A b \in 1..Len(buckets) : buckets'[b] = IF b = d THEN served ELSE buckets[b]
  <2> HIDE DEF d, served
  <2> QED
    BY <1>1, <1>6, <1>7, BucketFacts, ExceptSeq DEF BucketInv
<1>9. \A b \in 1..Len(buckets) :
          /\ Loops(b)' = Loops(b)
          /\ buckets'[b].next_ = IF b = d THEN i + 1 ELSE buckets[b].next_
  <2> HIDE DEF served, i
  <2> QED
    BY <1>7, <1>8 DEF Loops
<1> HIDE DEF d, next, i, w, served
<1>10. BucketTypeOK'
  <2>1. ToSet(Loops(d)) \subseteq Worker
    BY <1>2, ElementOfSeq, LenProperties DEF ToSet
  <2>2. owed' \in [Worker -> SUBSET Worker]
    BY <1>5, <1>6, <2>1 DEF BucketInv, BucketTypeOK
  <2> QED
    BY <1>0, <1>5, <1>6, <1>8, <2>2 DEF BucketInv, BucketTypeOK, Buckets
<1>11. LocalInv'
  BY <1>0, <1>6, <1>8, BucketFacts DEF BucketInv, BucketTypeOK, LocalInv
<1>12. \A v \in Worker : at'[v] = at[v]
  BY <1>6, ThreadAssumption DEF BucketInv, BucketTypeOK, Thread
<1>13. ListInv'
  <2>1. \A b \in 1..Len(buckets) :
            /\ buckets'[b].next_ <= Len(Loops(b)')
            /\ \A j \in 1..Len(Loops(b)') : at'[Loops(b)'[j]] \in {"loop", "dead"}
    <3> TAKE b \in 1..Len(buckets)
    <3>1. /\ buckets[b].next_ <= Len(Loops(b))
          /\ \A j \in 1..Len(Loops(b)) : Loops(b)[j] \in Worker /\ Registered(Loops(b)[j])
      BY BucketFacts DEF BucketInv, ListInv
    <3>2. i + 1 <= Len(Loops(d))
      BY <1>2, <1>4
    <3>3. buckets'[b].next_ <= Len(Loops(b)')
      BY <1>9, <3>1, <3>2
    <3>4. \A j \in 1..Len(Loops(b)) : at'[Loops(b)[j]] \in {"loop", "dead"}
      BY <1>12, <3>1 DEF Registered
    <3> QED
      BY <1>9, <3>3, <3>4
  <2>2. \A b, c \in 1..Len(buckets) : \A x \in 1..Len(Loops(b)'), y \in 1..Len(Loops(c)') :
            Loops(b)'[x] = Loops(c)'[y] => b = c /\ x = y
    BY <1>9 DEF BucketInv, ListInv
  <2>3. \A v \in Worker : at'[v] \notin {"loop", "dead"} => owed'[v] = {}
    <3>1. Registered(w)
      BY <1>1, <1>4 DEF BucketInv, ListInv, w
    <3> QED
      BY <1>6, <1>12, <3>1 DEF BucketInv, ListInv, Registered
  <2> QED
    BY <1>8, <2>1, <2>2, <2>3 DEF ListInv, Registered
<1>14. owed[w] = {}
  <2>1. \A v \in owed[w] : \E k \in 1..Len(Loops(d)) : Ahead(next, i + 1, k)
    BY <1>1, <1>4 DEF BucketInv, TurnInv, w, next
  <2>2. \A k \in 1..Len(Loops(d)) : ~Ahead(next, i + 1, k)
    BY <1>2, <1>4 DEF Ahead
  <2> QED
    BY <2>1, <2>2
<1>15. TurnInv'
  <2> SUFFICES ASSUME NEW b \in 1..Len(buckets), NEW j \in 1..Len(Loops(b)'),
                      NEW v \in owed'[Loops(b)'[j]]
               PROVE  \E k \in 1..Len(Loops(b)') :
                          Loops(b)'[k] = v /\ Ahead(buckets'[b].next_, j, k)
    BY <1>8 DEF TurnInv
  <2>0. Loops(b)' = Loops(b) /\ j \in 1..Len(Loops(b)) /\ v \in owed'[Loops(b)[j]]
    BY <1>9
  <2> SUFFICES \E k \in 1..Len(Loops(b)) : Loops(b)[k] = v /\ Ahead(buckets'[b].next_, j, k)
    BY <2>0
  <2>1. Loops(b)[j] \in Worker /\ Len(Loops(b)) \in Nat
    BY <2>0, BucketFacts DEF BucketInv
  <2>2. CASE Loops(b)[j] = w
    <3>1. b = d /\ j = i + 1
      BY <1>1, <1>4, <2>0, <2>2 DEF BucketInv, ListInv, w
    <3>2. v \in ToSet(Loops(d)) /\ v # w
      BY <1>5, <1>6, <2>0, <2>2
    <3>3. PICK k \in 1..Len(Loops(d)) : Loops(d)[k] = v
      BY <1>2, <3>2, LenProperties DEF ToSet
    <3>4. k # i + 1
      BY <3>2, <3>3 DEF w
    <3>5. Ahead(i + 1, i + 1, k)
      BY <1>4, <3>4 DEF Ahead
    <3> QED
      BY <1>9, <3>1, <3>3, <3>5
  <2>3. CASE Loops(b)[j] # w
    <3>1. v \in owed[Loops(b)[j]] /\ v # w
      BY <1>6, <2>0, <2>1, <2>3
    <3>2. PICK k \in 1..Len(Loops(b)) : Loops(b)[k] = v /\ Ahead(buckets[b].next_, j, k)
      BY <2>0, <3>1 DEF BucketInv, TurnInv
    <3>3. CASE b # d
      BY <1>9, <3>2, <3>3
    <3>4. CASE b = d
      <4>1. k # i + 1 /\ j # i + 1 /\ k \in Nat /\ j \in Nat /\ j <= Len(Loops(d))
            /\ k <= Len(Loops(d)) /\ k >= 1 /\ Ahead(next, j, k)
        BY <2>0, <2>1, <2>3, <3>1, <3>2, <3>4 DEF w, next
      <4>2. Ahead(i + 1, j, k)
        BY <1>2, <1>4, <4>1 DEF Ahead
      <4> QED
        BY <1>9, <3>2, <3>4, <4>2
    <3> QED
      BY <3>3, <3>4
  <2> QED
    BY <2>2, <2>3
<1> QED
  BY <1>6, <1>10, <1>11, <1>13, <1>14, <1>15 DEF BucketInv

LEMMA BucketStep == BucketInv /\ [BucketNext]_bucketVars => BucketInv'
<1> SUFFICES ASSUME BucketInv, [BucketNext]_bucketVars PROVE BucketInv'
  OBVIOUS
<1>1. CASE UNCHANGED bucketVars
  BY <1>1
  DEF bucketVars, BucketInv, BucketTypeOK, LocalInv, ListInv, TurnInv, Loops, Registered
<1>2. CASE NoNextLoop
  <2>1. Main \in Thread /\ Main \notin Worker
    BY ThreadAssumption DEF Thread
  <2>2. /\ UNCHANGED <<instance_, buckets, owed>> /\ given' = NoLoop
        /\ at' = [at EXCEPT ![Main] = "loop"] /\ local' = [local EXCEPT ![Main] = 0]
    BY <1>2 DEF NoNextLoop, Move, Forget
  <2>3. BucketTypeOK' /\ LocalInv'
    BY <2>1, <2>2, BucketFacts DEF BucketInv, BucketTypeOK, LocalInv
  <2>4. \A w \in Worker : Registered(w) => Registered(w)'
    BY <2>1, <2>2 DEF Registered, BucketInv, BucketTypeOK
  <2> QED
    BY <2>2, <2>3, <2>4, QuietLemma
<1> QED
  BY <1>1, <1>2, StartLemma, CheckLemma, CreateLemma, AddLemma, NextLemma DEF BucketNext

(* BucketInv holds in every state.                                              *)
THEOREM BucketInvariant == BucketSpec => []BucketInv
<1> QED
  BY BucketStep, BucketInitLemma, PTL DEF BucketSpec

(* The variables keep their types: a bucket that is used has been made.    *)
THEOREM BucketTypeCorrect == BucketSpec => []BucketTypeOK
<1>1. BucketInv => BucketTypeOK
  BY DEF BucketInv
<1> QED
  BY <1>1, BucketInvariant, PTL

(* No loop gets its next connection before the others have had theirs.     *)
THEOREM ConnectionsGoRound == BucketSpec => LoopsInTurn
<1> DEFINE Turn == at[Main] = "next" /\ at'[Main] = "loop" /\ given' # NoLoop
                       => owed[given'] = {}
<1>1. BucketInv /\ [BucketNext]_bucketVars => [Turn]_bucketVars
  <2> SUFFICES ASSUME BucketInv, BucketNext, at[Main] = "next", at'[Main] = "loop", given' # NoLoop
               PROVE  owed[given'] = {}
    BY DEF Turn
  <2>1. at \in [Thread -> {"unborn", "starting", "check", "create", "return", "add", "next",
                          "loop", "dead"}]
        /\ Main \in Thread /\ Main \notin Worker
    BY ThreadAssumption DEF BucketInv, BucketTypeOK, Thread
  <2>2. getNextLoop \/ NoNextLoop
    BY <2>1
    DEF BucketNext, StartThread, addEventLoop, WorkerDies, StartReturns, Accept, CheckInstance,
        CreateInstance, ReturnInstance, Move, Thread
  <2>3. ~NoNextLoop
    BY DEF NoNextLoop
  <2> QED
    BY <2>2, <2>3, NextLemma
<1> QED
  BY <1>1, BucketInvariant, PTL DEF BucketSpec, LoopsInTurn

-----------------------------------------------------------------------------
(* The ring.                                                               *)

-----------------------------------------------------------------------------
(* The map of points.                                                      *)

Less == {pair \in Nat \X Nat : pair[1] < pair[2]}

LEMMA LessIsWellFounded == IsWellFoundedOn(Less, Nat)
  BY NatLessThanWellFounded DEF OpToRel, Less

\* Least is what its name says.
LEMMA LeastLemma ==
    ASSUME NEW S \in SUBSET Nat, S # {}
    PROVE  Least(S) \in S /\ \A q \in S : Least(S) <= q
<1>1. PICK p \in S : \A q \in S : ~(<<q, p>> \in Less)
  BY LessIsWellFounded, WFMin
<1>2. \A q \in S : ~(q < p)
  BY <1>1 DEF Less
<1>3. \E r \in S : \A q \in S : r <= q
  BY <1>2
<1> QED
  BY <1>3 DEF Least

Maps == [Position -> Node \cup {NoNode}]

\* upper_bound, with its way around the end, is the nearest point behind k.
LEMMA NearestLemma ==
    ASSUME NEW map \in Maps, NEW k \in Position, Points(map) # {}
    PROVE  /\ upper_bound(map, k) \in Points(map)
           /\ \A q \in Points(map) : Distance(k, upper_bound(map, k)) <= Distance(k, q)
<1> DEFINE behind == {p \in Points(map) : p > k}
<1>1. Points(map) \subseteq Position /\ Position \subseteq Nat /\ k \in Nat
  BY RingAssumption DEF Points, Position
<1>2. CASE behind # {}
  <2>1. upper_bound(map, k) = Least(behind)
    BY <1>2 DEF upper_bound
  <2>2. /\ upper_bound(map, k) \in behind
        /\ \A q \in behind : upper_bound(map, k) <= q
    BY <1>1, <1>2, <2>1, LeastLemma
  <2> QED
    BY <1>1, <2>2, RingAssumption DEF Distance, Position
<1>3. CASE behind = {}
  <2>1. upper_bound(map, k) = Least(Points(map))
    BY <1>3 DEF upper_bound
  <2>2. /\ upper_bound(map, k) \in Points(map)
        /\ \A q \in Points(map) : upper_bound(map, k) <= q
    BY <1>1, <2>1, LeastLemma
  <2>3. \A q \in Points(map) : ~(q > k)
    BY <1>3
  <2> QED
    BY <1>1, <2>2, <2>3, RingAssumption DEF Distance, Position
<1> QED
  BY <1>2, <1>3

\* No two points are equally far behind k.
LEMMA DistanceLemma ==
    ASSUME NEW k \in Position, NEW p \in Position, NEW q \in Position,
           Distance(k, p) <= Distance(k, q), Distance(k, q) <= Distance(k, p)
    PROVE  p = q
  BY RingAssumption DEF Distance, Position

\* The points two maps have in common decide together: the point of k in one,
\* if it is in the other, and the point of k in that one, if it is in the first.
LEMMA SamePointLemma ==
    ASSUME NEW m1 \in Maps, NEW m2 \in Maps, NEW k \in Position,
           Points(m1) # {}, Points(m2) # {},
           upper_bound(m1, k) \in Points(m2), upper_bound(m2, k) \in Points(m1)
    PROVE  upper_bound(m1, k) = upper_bound(m2, k)
  BY NearestLemma, DistanceLemma DEF Points

\* A key that an insertion moves gets the new server.
LEMMA InsertedLemma ==
    ASSUME NEW map \in Maps, NEW n \in Node, NEW k \in Position,
           getMappingNodeFromKey(Inserted(map, n), k) # getMappingNodeFromKey(map, k)
    PROVE  getMappingNodeFromKey(Inserted(map, n), k) = n
<1> DEFINE new == Inserted(map, n)
           u == upper_bound(new, k)
<1> HIDE DEF u
<1>1. new \in Maps /\ n # NoNode
  BY RingAssumption DEF Inserted, Maps
<1>2. \A p \in Position : new[p] = map[p] \/ (map[p] = NoNode /\ new[p] = n)
  BY DEF Inserted
<1>3. Points(map) \subseteq Points(new)
  BY <1>1, <1>2 DEF Points
<1>4. Points(new) # {}
  BY <1>3 DEF getMappingNodeFromKey
<1>5. u \in Points(new) /\ u \in Position
  BY <1>1, <1>4, NearestLemma DEF Points, u
<1>6. getMappingNodeFromKey(new, k) = new[u]
  BY <1>4 DEF getMappingNodeFromKey, u
<1>7. SUFFICES ASSUME new[u] # n PROVE FALSE
  BY <1>6
<1>8. u \in Points(map) /\ new[u] = map[u]
  BY <1>2, <1>5, <1>7 DEF Points
<1>9. u = upper_bound(map, k)
  <2>1. upper_bound(map, k) \in Points(new)
    BY <1>3, <1>8, NearestLemma
  <2> QED
    BY <1>1, <1>4, <1>8, <2>1, SamePointLemma DEF u
<1> QED
  BY <1>6, <1>8, <1>9 DEF getMappingNodeFromKey

\* A key that a deletion moves has lost its point.
LEMMA ErasedLemma ==
    ASSUME NEW map \in Maps, NEW n \in Node, NEW k \in Position,
           getMappingNodeFromKey(Erased(map, n), k) # getMappingNodeFromKey(map, k)
    PROVE  /\ getMappingNodeFromKey(map, k) # NoNode
           /\ Erased(map, n)[upper_bound(map, k)] = NoNode
<1> DEFINE new == Erased(map, n)
           u == upper_bound(map, k)
<1> HIDE DEF u
<1>1. new \in Maps
  BY DEF Erased, Maps
<1>2. \A p \in Position : new[p] = map[p] \/ new[p] = NoNode
  BY DEF Erased
<1>3. Points(new) \subseteq Points(map)
  BY <1>2 DEF Points
<1>4. Points(map) # {}
  BY <1>3 DEF getMappingNodeFromKey
<1>5. u \in Points(map) /\ u \in Position
  BY <1>4, NearestLemma DEF Points, u
<1>6. getMappingNodeFromKey(map, k) = map[u] /\ map[u] # NoNode
  BY <1>4, <1>5 DEF getMappingNodeFromKey, u, Points
<1>7. SUFFICES ASSUME new[u] # NoNode PROVE FALSE
  BY <1>6 DEF u
<1>8. u \in Points(new) /\ new[u] = map[u]
  BY <1>2, <1>5, <1>7 DEF Points
<1>9. u = upper_bound(new, k)
  <2>1. upper_bound(new, k) \in Points(map)
    BY <1>1, <1>3, <1>8, NearestLemma
  <2> QED
    BY <1>1, <1>4, <1>8, <2>1, SamePointLemma DEF u
<1> QED
  BY <1>6, <1>8, <1>9 DEF getMappingNodeFromKey

-----------------------------------------------------------------------------
(* The digest of a lookup that no other one disturbs.                      *)

DigestOf(t) == Digest[key[t]]

\* The sum of the words before the i-th.
SumBefore(digest, i) ==
    (IF i > 1 THEN digest[1] ELSE 0) + (IF i > 2 THEN digest[2] ELSE 0)
        + (IF i > 3 THEN digest[3] ELSE 0) + (IF i > 4 THEN digest[4] ELSE 0)

WriteInv(t) ==
    step[t] = "write" => /\ word[t] \in Word /\ output[t] = 0
                         /\ alone[t] => \A i \in Word : i < word[t] => m_data[i] = DigestOf(t)[i]

ReadInv(t) ==
    step[t] = "read" => /\ word[t] \in Word
                        /\ alone[t] => /\ \A i \in Word : m_data[i] = DigestOf(t)[i]
                                       /\ output[t] = SumBefore(DigestOf(t), word[t])

MapInv(t) == step[t] = "map" /\ alone[t] => output[t] = SumOf(DigestOf(t))

FoundInv(t) ==
    step[t] = "found" =>
        IF Points(hashMap_) = {} THEN found[t] = NoNode
        ELSE /\ \E p \in Points(hashMap_) : hashMap_[p] = found[t]
             /\ alone[t] => Nearest(HashOf(key[t]), found[t])

LookupInv == \A t \in Task : WriteInv(t) /\ ReadInv(t) /\ MapInv(t) /\ FoundInv(t)

RingInv == RingTypeOK /\ LookupInv

LEMMA WordsLemma == Word = {1, 2, 3, 4} /\ Word \subseteq Nat
  BY DEF Word

LEMMA PositionLemma ==
    /\ Position \subseteq Nat
    /\ \A sum \in Nat : Sum32(sum) \in Position
    /\ \A k \in Key, i \in Word : Digest[k][i] \in Position
  BY RingAssumption DEF Position, Sum32

\* A lookup that was not disturbed arrives at the hash of its key.
LEMMA HashLemma ==
    ASSUME NEW k \in Key
    PROVE  Sum32(SumOf(Digest[k])) = HashOf(k) /\ HashOf(k) \in Position
<1>1. \A i \in {1, 2, 3, 4} : Digest[k][i] \in Nat
  BY PositionLemma, WordsLemma
<1>2. SumOf(Digest[k]) \in Nat
  BY <1>1 DEF SumOf
<1> QED
  BY <1>2, PositionLemma DEF HashOf, Sum32

LEMMA RingInitStep == RingInit => RingInv
<1> SUFFICES ASSUME RingInit PROVE RingInv
  OBVIOUS
<1>1. RingTypeOK
  <2>1. 0 \in Position
    BY RingAssumption DEF Position
  <2> QED
    BY <2>1 DEF RingInit, RingTypeOK
<1>2. LookupInv
  BY DEF RingInit, LookupInv, WriteInv, ReadInv, MapInv, FoundInv
<1> QED
  BY <1>1, <1>2 DEF RingInv

\* The servers change while no lookup is under way.
LEMMA QuietStep ==
    ASSUME RingInv, Quiet, UNCHANGED lookup
    PROVE  LookupInv'
  BY DEF RingInv, Quiet, lookup, LookupInv, WriteInv, ReadInv, MapInv, FoundInv

LEMMA AddStep ==
    ASSUME RingInv, NEW n \in Node, addHashNodesFromString(n)
    PROVE  RingInv'
<1>1. Inserted(hashMap_, n) \in Maps
  BY DEF RingInv, RingTypeOK, Inserted, Maps
<1>2. LastWritten(n) \in [Word -> Position]
  BY RingAssumption DEF RingInv, RingTypeOK, LastWritten
<1>3. RingTypeOK'
  BY <1>1, <1>2 DEF RingInv, RingTypeOK, addHashNodesFromString, lookup, Maps
<1> QED
  BY <1>3, QuietStep DEF addHashNodesFromString, RingInv

LEMMA DeleteStep ==
    ASSUME RingInv, NEW n \in Node, deleteHashNodesFromString(n)
    PROVE  RingInv'
<1>1. Erased(hashMap_, n) \in Maps
  BY DEF RingInv, RingTypeOK, Erased, Maps
<1>2. RingTypeOK'
  BY <1>1 DEF RingInv, RingTypeOK, deleteHashNodesFromString, lookup, Maps
<1> QED
  BY <1>2, QuietStep DEF deleteHashNodesFromString, RingInv

LEMMA GenerateStep ==
    ASSUME RingInv, NEW t \in Task, NEW k \in Key, GenerateMD5(t, k)
    PROVE  RingInv'
<1> USE DEF RingInv, GenerateMD5, ring
<1>1. RingTypeOK'
  BY DEF RingTypeOK
<1>2. ASSUME NEW u \in Task PROVE (WriteInv(u) /\ ReadInv(u) /\ MapInv(u) /\ FoundInv(u))'
  <2>1. WriteInv(u)'
    BY DEF LookupInv, WriteInv, RingTypeOK, DigestOf, Word
  <2>2. ReadInv(u)' /\ MapInv(u)'
    BY DEF LookupInv, ReadInv, MapInv, RingTypeOK, DigestOf
  <2>3. FoundInv(u)'
    BY DEF LookupInv, FoundInv, RingTypeOK, Nearest
  <2> QED
    BY <2>1, <2>2, <2>3
<1> QED
  BY <1>1, <1>2 DEF LookupInv

LEMMA WriteStep ==
    ASSUME RingInv, NEW t \in Task, md5_finish(t)
    PROVE  RingInv'
<1> USE DEF RingInv, md5_finish, ring
<1>1. word[t] \in Word /\ word[t] \in 1..4 /\ Digest[key[t]][word[t]] \in Position
  BY PositionLemma DEF LookupInv, WriteInv, RingTypeOK, Word
<1>2. RingTypeOK'
  BY <1>1 DEF RingTypeOK, Word
<1>3. ASSUME NEW u \in Task PROVE (WriteInv(u) /\ ReadInv(u) /\ MapInv(u) /\ FoundInv(u))'
  <2>1. u # t /\ step[u] \in {"write", "read"} => ~alone'[u]
    BY DEF RingTypeOK
  <2>2. u # t => step'[u] = step[u] /\ word'[u] = word[u]
    BY DEF RingTypeOK
  <2>3. alone'[u] => alone[u]
    BY DEF RingTypeOK
  <2>4. WriteInv(u)'
    BY <1>1, <2>1, <2>2, <2>3 DEF LookupInv, WriteInv, RingTypeOK, DigestOf, Word
  <2>5. ReadInv(u)'
    BY <1>1, <2>1, <2>2, <2>3
    DEF LookupInv, WriteInv, ReadInv, RingTypeOK, DigestOf, Word, SumBefore
  <2>6. MapInv(u)'
    BY <2>2, <2>3 DEF LookupInv, MapInv, RingTypeOK, DigestOf
  <2>7. FoundInv(u)'
    BY <2>2, <2>3 DEF LookupInv, FoundInv, RingTypeOK, Nearest
  <2> QED
    BY <2>4, <2>5, <2>6, <2>7
<1> QED
  BY <1>2, <1>3 DEF LookupInv

LEMMA ReadStep ==
    ASSUME RingInv, NEW t \in Task, ToULong32(t)
    PROVE  RingInv'
<1> USE DEF RingInv, ToULong32, ring
<1>1. word[t] \in Word /\ word[t] \in 1..4 /\ m_data[word[t]] \in Nat
  BY PositionLemma DEF LookupInv, ReadInv, RingTypeOK, Word
<1>2. RingTypeOK'
  BY <1>1 DEF RingTypeOK, Word
<1>3. ASSUME NEW u \in Task PROVE (WriteInv(u) /\ ReadInv(u) /\ MapInv(u) /\ FoundInv(u))'
  <2>1. u # t => step'[u] = step[u] /\ word'[u] = word[u] /\ output'[u] = output[u]
    BY DEF RingTypeOK
  <2>2. \A i \in Word : DigestOf(u)[i] \in Nat
    BY PositionLemma DEF RingTypeOK, DigestOf
  <2>3. ReadInv(u)' /\ MapInv(u)'
    <3>1. CASE u # t
      BY <2>1, <3>1 DEF LookupInv, ReadInv, MapInv, RingTypeOK, DigestOf
    <3>2. CASE u = t
      BY <1>1, <2>2, <3>2
      DEF LookupInv, ReadInv, MapInv, RingTypeOK, DigestOf, Word, SumBefore, SumOf
    <3> QED
      BY <3>1, <3>2
  <2>4. WriteInv(u)' /\ FoundInv(u)'
    BY <2>1 DEF LookupInv, WriteInv, FoundInv, RingTypeOK, DigestOf, Nearest
  <2> QED
    BY <2>3, <2>4
<1> QED
  BY <1>2, <1>3 DEF LookupInv

LEMMA MapStep ==
    ASSUME RingInv, NEW t \in Task, MapKey(t)
    PROVE  RingInv'
<1> USE DEF RingInv, MapKey, ring
<1> DEFINE k == Sum32(output[t])
<1>1. k \in Position /\ hashMap_ \in Maps
  BY PositionLemma DEF RingTypeOK, Maps
<1>2. Points(hashMap_) # {} => /\ upper_bound(hashMap_, k) \in Points(hashMap_)
                              /\ Nearest(k, found'[t])
  BY <1>1, NearestLemma DEF RingTypeOK, getMappingNodeFromKey, Nearest
<1>3. RingTypeOK'
  BY <1>1, <1>2 DEF RingTypeOK, getMappingNodeFromKey, Points
<1>4. alone[t] => k = HashOf(key[t])
  BY HashLemma DEF LookupInv, MapInv, RingTypeOK, DigestOf
<1>5. ASSUME NEW u \in Task PROVE (WriteInv(u) /\ ReadInv(u) /\ MapInv(u) /\ FoundInv(u))'
  <2>1. FoundInv(u)'
    <3>1. CASE u # t
      BY <3>1 DEF LookupInv, FoundInv, RingTypeOK, Nearest
    <3>2. CASE u = t
      BY <1>2, <1>4, <3>2 DEF FoundInv, RingTypeOK, getMappingNodeFromKey, Nearest
    <3> QED
      BY <3>1, <3>2
  <2>2. WriteInv(u)' /\ ReadInv(u)' /\ MapInv(u)'
    BY DEF LookupInv, WriteInv, ReadInv, MapInv, RingTypeOK, DigestOf
  <2> QED
    BY <2>1, <2>2
<1> QED
  BY <1>3, <1>5 DEF LookupInv

LEMMA ReturnStep ==
    ASSUME RingInv, NEW t \in Task, LookupReturns(t)
    PROVE  RingInv'
<1> USE DEF RingInv, LookupReturns, ring
<1>1. RingTypeOK'
  BY DEF RingTypeOK
<1>2. LookupInv'
  BY DEF LookupInv, WriteInv, ReadInv, MapInv, FoundInv, RingTypeOK, DigestOf, Nearest
<1> QED
  BY <1>1, <1>2

LEMMA RingStep == RingInv /\ [RingNext]_ringVars => RingInv'
<1> SUFFICES ASSUME RingInv, [RingNext]_ringVars PROVE RingInv'
  OBVIOUS
<1>1. ASSUME NEW n \in Node, addHashNodesFromString(n) \/ deleteHashNodesFromString(n)
      PROVE  RingInv'
  BY <1>1, AddStep, DeleteStep
<1>2. ASSUME NEW t \in Task, \E k \in Key : GenerateMD5(t, k)
      PROVE  RingInv'
  BY <1>2, GenerateStep
<1>3. ASSUME NEW t \in Task, md5_finish(t) \/ ToULong32(t) \/ MapKey(t) \/ LookupReturns(t)
      PROVE  RingInv'
  BY <1>3, WriteStep, ReadStep, MapStep, ReturnStep
<1>4. CASE UNCHANGED ringVars
  BY <1>4 DEF RingInv, RingTypeOK, LookupInv, WriteInv, ReadInv, MapInv, FoundInv, DigestOf,
              Nearest, ringVars
<1> QED
  BY <1>1, <1>2, <1>3, <1>4 DEF RingNext

-----------------------------------------------------------------------------
(* The inductive invariant: what md5_ holds of the digest of a lookup that *)
(* is alone, up to the word it has come to.                                *)
THEOREM RingInvariant == RingSpec => []RingInv
  BY RingInitStep, RingStep, PTL DEF RingSpec

(* Every variable of the ring and of the lookups has its type.             *)
THEOREM RingTypeCorrect == RingSpec => []RingTypeOK
<1>1. RingInv => RingTypeOK
  BY DEF RingInv
<1> QED
  BY <1>1, RingInvariant, PTL

(* A lookup finds a server of the ring, and the key's own if no other one  *)
(* has written into md5_ meanwhile.                                        *)
THEOREM LookupAlwaysFindsServer == RingSpec => []LookupFindsServer
<1>1. RingInv => LookupFindsServer
  BY DEF RingInv, LookupInv, FoundInv, LookupFindsServer
<1> QED
  BY <1>1, RingInvariant, PTL

(* Consistent hashing: only keys of a server that has just been added, or  *)
(* whose point was deleted, move.                                          *)
THEOREM KeysMoveOnlyWhenTheyMust == RingSpec => MovesOnlyItsKeys
<1> DEFINE before(k) == getMappingNodeFromKey(hashMap_, k)
           after(k) == getMappingNodeFromKey(hashMap_', k)
           Moved(k) == before(k) # after(k) =>
                           \/ after(k) \in nodes_' \ nodes_
                           \/ /\ before(k) # NoNode
                              /\ hashMap_'[upper_bound(hashMap_, k)] = NoNode
<1>1. RingInv /\ [RingNext]_ringVars => [\A k \in Position : Moved(k)]_ringVars
  <2> SUFFICES ASSUME RingInv, RingNext, NEW k \in Position
               PROVE  Moved(k)
    OBVIOUS
  <2>0. hashMap_ \in Maps
    BY DEF RingInv, RingTypeOK, Maps
  <2>1. ASSUME NEW n \in Node, addHashNodesFromString(n) PROVE Moved(k)
    BY <2>0, <2>1, InsertedLemma DEF addHashNodesFromString, MayAdd
  <2>2. ASSUME NEW n \in Node, deleteHashNodesFromString(n) PROVE Moved(k)
    BY <2>0, <2>2, ErasedLemma DEF deleteHashNodesFromString
  <2>3. ASSUME UNCHANGED hashMap_ PROVE Moved(k)
    BY <2>3
  <2> QED
    BY <2>1, <2>2, <2>3
    DEF RingNext, GenerateMD5, md5_finish, ToULong32, MapKey, LookupReturns, ring
<1> QED
  BY <1>1, RingInvariant, PTL DEF RingSpec, MovesOnlyItsKeys

-----------------------------------------------------------------------------
(* The loader of the configuration.                                        *)

Busy(r) == rd[r] # "idle"

FileInv == file.st_mtime <= file.version + 1

\* Contents only grow; the other slot is empty but between filling and deletion.
SlotInv ==
    /\ current = Null => /\ rl \in {"begin", "stated", "parsed"} /\ freed = {}
                         /\ \A r \in Reader : ~Busy(r)
    /\ current # Null => rl # "begin" /\ \A c \in freed : c < current
    /\ rl \notin {"switch", "sleep"} => _p_content[other] = Null
    /\ rl = "parsed" => Len(has) > 0 /\ (current # Null => current < Len(has))
    /\ rl = "switch" => _p_content[other] = Len(has) /\ current < Len(has)
    /\ rl = "sleep" => /\ _p_content[other] # Null /\ _p_content[other] < current
                      /\ \A c \in freed : c < _p_content[other]

\* A reader is in the slot in use, or was before the switch: then it has been
\* at it for longer than the loading thread has slept.
ReaderInv ==
    \A r \in Reader : Busy(r) =>
        /\ _p_content[no[r]] # Null
        /\ rd[r] = "using" => ptr[r] = _p_content[no[r]]
        /\ no[r] = _using_no \/ (rl = "sleep" /\ age[r] >= slept)

LoaderInv == LoaderTypeOK /\ FileInv /\ SlotInv /\ ReaderInv

-----------------------------------------------------------------------------
(* What the type invariant says of the slots.                              *)
Slots == {0, 1}

LEMMA SlotLemma ==
    ASSUME LoaderTypeOK
    PROVE  /\ other \in Slots /\ other # _using_no /\ 1 - other = _using_no
           /\ \A i \in Slots : i = _using_no \/ i = other
           /\ Len(has) \in Nat
           /\ \A i \in Slots : _p_content[i] # Null => _p_content[i] \in 1..Len(has)
           /\ \A c \in 1..Len(has) : c # Null
  BY LoaderAssumption DEF LoaderTypeOK, other, Slots

LEMMA LoaderInitLemma == LoaderInit => LoaderInv
<1> SUFFICES ASSUME LoaderInit PROVE LoaderInv
  OBVIOUS
<1>1. Len(<<>>) = 0 /\ <<>> \in Seq(Version)
  OBVIOUS
<1>2. LoaderTypeOK
  BY <1>1, LoaderAssumption DEF LoaderInit, LoaderTypeOK, Version, Mtime
<1>3. FileInv /\ SlotInv /\ ReaderInv
  BY LoaderAssumption
  DEF LoaderInit, FileInv, SlotInv, ReaderInv, Busy, current, other
<1> QED
  BY <1>2, <1>3 DEF LoaderInv

LEMMA FileChangesLemma ==
    ASSUME LoaderInv, NEW kind \in {"good", "bad", "missing"}, NEW later \in {0, 1},
           FileChanges(kind, later)
    PROVE  LoaderInv'
<1>1. file' = [kind |-> kind, version |-> file.version + 1,
               st_mtime |-> file.st_mtime + later, fresh |-> later = 1]
      /\ file.version < MaxChanges /\ file.version \in Nat /\ file.st_mtime \in Nat
      /\ file.st_mtime <= file.version + 1
  BY LoaderAssumption DEF FileChanges, LoaderInv, LoaderTypeOK, FileInv, Version, Mtime
<1>2. file'.version \in Version /\ file'.st_mtime \in Mtime /\ FileInv'
  BY <1>1, LoaderAssumption DEF Version, Mtime, FileInv
<1>3. LoaderTypeOK'
  BY <1>1, <1>2 DEF FileChanges, LoaderInv, LoaderTypeOK, slots, loading, readers
<1>4. SlotInv' /\ ReaderInv'
  BY DEF FileChanges, LoaderInv, SlotInv, ReaderInv, Busy, current, other, slots, loading, readers
<1> QED
  BY <1>2, <1>3, <1>4 DEF LoaderInv

LEMMA StatLemma ==
    ASSUME LoaderInv, need_reload \/ StatFile
    PROVE  LoaderInv'
<1> USE DEF LoaderInv, need_reload, StatFile, Goto, Resting, slots, readers
<1>1. LoaderTypeOK' /\ FileInv'
  BY DEF LoaderTypeOK, FileInv
<1>2. SlotInv'
  BY DEF SlotInv, Busy, current, other
<1>3. ReaderInv'
  BY DEF ReaderInv, Busy
<1> QED
  BY <1>1, <1>2, <1>3

LEMMA ParseFileLemma ==
    ASSUME LoaderInv, ParseFile
    PROVE  LoaderInv'
<1>1. has' = has \/ (has' \in Seq(Version) /\ Len(has') = Len(has) + 1 /\ rl' = "parsed")
  <2>1. has \in Seq(Version) /\ file.version \in Version
    BY DEF LoaderInv, LoaderTypeOK
  <2>2. Append(has, file.version) \in Seq(Version)
        /\ Len(Append(has, file.version)) = Len(has) + 1
    BY <2>1
  <2> QED
    BY <2>2 DEF ParseFile
<1>2. LoaderTypeOK' /\ FileInv'
  <2>1. Len(has) \in Nat /\ Len(has') >= Len(has) /\ Len(has') \in Nat
    BY <1>1 DEF LoaderInv, LoaderTypeOK
  <2>2. 1..Len(has) \subseteq 1..Len(has')
    BY <2>1
  <2>3. rl' \in {"begin", "idle", "parsed"} /\ has' \in Seq(Version)
    BY <1>1 DEF LoaderInv, LoaderTypeOK, ParseFile, Resting
  <2> QED
    BY <2>2, <2>3 DEF LoaderInv, LoaderTypeOK, ParseFile, readers, FileInv
<1>3. SlotInv'
  BY <1>1, SlotLemma
  DEF LoaderInv, SlotInv, ParseFile, Resting, readers, Busy, current, other, LoaderTypeOK, Slots
<1>4. ReaderInv'
  BY DEF LoaderInv, ReaderInv, ParseFile, readers, Busy
<1> QED
  BY <1>2, <1>3, <1>4 DEF LoaderInv

LEMMA FillSlotLemma ==
    ASSUME LoaderInv, FillSlot
    PROVE  LoaderInv'
<1> DEFINE i == IF current = Null THEN _using_no ELSE other
<1>1. i \in Slots /\ Len(has) \in 1..Len(has) /\ rl = "parsed"
  BY SlotLemma DEF LoaderInv, SlotInv, FillSlot, LoaderTypeOK, Slots
<1>2. _p_content' = [_p_content EXCEPT ![i] = Len(has)]
  BY DEF FillSlot
<1>3. LoaderTypeOK' /\ FileInv'
  BY <1>1, <1>2 DEF LoaderInv, LoaderTypeOK, FileInv, FillSlot, TimeLoaded, readers, Slots
<1>4. SlotInv'
  BY <1>1, <1>2, SlotLemma
  DEF LoaderInv, SlotInv, FillSlot, readers, Busy, current, other, LoaderTypeOK, Slots
<1>5. ReaderInv'
  BY <1>1, <1>2, SlotLemma
  DEF LoaderInv, SlotInv, ReaderInv, FillSlot, readers, Busy, LoaderTypeOK, Slots
<1> QED
  BY <1>3, <1>4, <1>5 DEF LoaderInv

LEMMA SwitchSlotLemma ==
    ASSUME LoaderInv, SwitchSlot
    PROVE  /\ LoaderInv'
           /\ rl = "switch" /\ current' = Len(has) /\ current # Null /\ current' > current
<1>1. current # Null /\ rl = "switch" /\ rl' = "sleep" /\ _using_no' = other /\ slept' = 0
  BY DEF LoaderInv, SlotInv, SwitchSlot, current
<1>2. LoaderTypeOK' /\ FileInv'
  BY <1>1, SlotLemma, LoaderAssumption
  DEF LoaderInv, LoaderTypeOK, FileInv, SwitchSlot, readers, Slots
<1>3. current' = Len(has) /\ _p_content'[other'] = current /\ current < Len(has)
  BY <1>1, SlotLemma DEF LoaderInv, SlotInv, SwitchSlot, current, other
<1>4. SlotInv'
  <2>1. current # Null /\ current' # Null /\ (current < Len(has)) /\ freed' = freed
    BY <1>1, <1>3, SlotLemma, LoaderAssumption DEF LoaderInv, SwitchSlot
  <2>2. \A c \in freed : c \in Nat /\ c < current /\ c < Len(has)
    BY <2>1, SlotLemma DEF LoaderInv, SlotInv, LoaderTypeOK, current
  <2> QED
    BY <1>1, <1>3, <2>1, <2>2 DEF SlotInv
<1>5. ReaderInv'
  BY <1>1, <1>2 DEF LoaderInv, ReaderInv, SwitchSlot, readers, Busy, LoaderTypeOK
<1> QED
  BY <1>1, <1>2, <1>3, <1>4, <1>5, SlotLemma DEF LoaderInv

\* Who still is at the other slot has been there for as long as a reader may be.
LEMMA NobodyBehind ==
    ASSUME LoaderInv, DeletePrevious, NEW r \in Reader, Busy(r)
    PROVE  no[r] = _using_no
  BY LoaderAssumption
  DEF LoaderInv, ReaderInv, DeletePrevious, SleptEnough, LoaderTypeOK

LEMMA DeletePreviousLemma ==
    ASSUME LoaderInv, DeletePrevious
    PROVE  LoaderInv'
<1>1. other \in Slots /\ _p_content[other] \in 1..Len(has) /\ rl = "sleep" /\ rl' = "idle"
  BY SlotLemma DEF LoaderInv, SlotInv, DeletePrevious, Goto
<1>2. LoaderTypeOK' /\ FileInv'
  BY <1>1 DEF LoaderInv, LoaderTypeOK, FileInv, DeletePrevious, readers, Slots
<1>3. SlotInv'
  BY <1>1, SlotLemma
  DEF LoaderInv, SlotInv, DeletePrevious, current, other, readers, Busy, LoaderTypeOK, Slots
<1>4. ReaderInv'
  BY <1>1, NobodyBehind, SlotLemma
  DEF LoaderInv, ReaderInv, DeletePrevious, readers, Busy, LoaderTypeOK, Slots
<1> QED
  BY <1>2, <1>3, <1>4 DEF LoaderInv

LEMMA ReaderLemma ==
    ASSUME LoaderInv, NEW r \in Reader, ReadIndex(r) \/ Proceed(r)
    PROVE  LoaderInv'
<1>1. /\ UNCHANGED <<file, slots, loading>> /\ UNCHANGED <<current, other>>
      /\ current # Null
  BY DEF ReadIndex, Proceed, ReadSlot, LastUse, slots, loading, current, other, LoaderInv, SlotInv,
         Busy
<1>2. SlotInv' /\ FileInv'
  BY <1>1 DEF LoaderInv, SlotInv, FileInv, slots, loading
<1>3. CASE ReadIndex(r)
  <2>1. LoaderTypeOK'
    BY <1>1, <1>3 DEF LoaderInv, LoaderTypeOK, ReadIndex, slots, loading
  <2>2. ReaderInv'
    BY <1>1, <1>3 DEF LoaderInv, LoaderTypeOK, ReaderInv, ReadIndex, Busy, current, slots, loading
  <2> QED
    BY <1>2, <2>1, <2>2 DEF LoaderInv
<1>4. CASE ReadSlot(r)
  <2>1. LoaderTypeOK'
    BY <1>1, <1>4 DEF LoaderInv, LoaderTypeOK, ReadSlot, slots, loading
  <2>2. ReaderInv'
    BY <1>1, <1>4 DEF LoaderInv, LoaderTypeOK, ReaderInv, ReadSlot, Busy, slots, loading
  <2> QED
    BY <1>2, <2>1, <2>2 DEF LoaderInv
<1>5. CASE LastUse(r)
  <2>1. LoaderTypeOK'
    BY <1>1, <1>5, LoaderAssumption DEF LoaderInv, LoaderTypeOK, LastUse, slots, loading
  <2>2. ReaderInv'
    BY <1>1, <1>5 DEF LoaderInv, LoaderTypeOK, ReaderInv, LastUse, Busy, slots, loading
  <2> QED
    BY <1>2, <2>1, <2>2 DEF LoaderInv
<1> QED
  BY <1>3, <1>4, <1>5 DEF Proceed

LEMMA TickLemma ==
    ASSUME LoaderInv, Tick
    PROVE  LoaderInv'
<1>1. \A r \in Reader : age'[r] \in 0..Hold /\ (Busy(r) => age'[r] = age[r] + 1)
  BY LoaderAssumption DEF LoaderInv, LoaderTypeOK, Tick, Busy
<1>2. age' \in [Reader -> 0..Hold]
  BY <1>1 DEF Tick
<1>3. slept' \in 0..Grace /\ slept' <= slept + 1
  BY LoaderAssumption DEF LoaderInv, LoaderTypeOK, Tick
<1>4. LoaderTypeOK' /\ FileInv'
  BY <1>2, <1>3 DEF LoaderInv, LoaderTypeOK, FileInv, Tick, slots
<1>5. SlotInv'
  BY DEF LoaderInv, SlotInv, Tick, slots, current, other, Busy
<1>6. ReaderInv'
  BY <1>1, <1>3, LoaderAssumption DEF LoaderInv, ReaderInv, LoaderTypeOK, Tick, slots, Busy
<1> QED
  BY <1>4, <1>5, <1>6 DEF LoaderInv

-----------------------------------------------------------------------------
(* LoaderInv holds in every state.                                              *)
THEOREM LoaderInvariant == LoaderSpec => []LoaderInv
<1>1. LoaderInv /\ [LoaderNext]_loaderVars => LoaderInv'
  <2> SUFFICES ASSUME LoaderInv, [LoaderNext]_loaderVars PROVE LoaderInv'
    OBVIOUS
  <2>1. CASE LoadingThread
    BY <2>1, StatLemma, ParseFileLemma, FillSlotLemma, SwitchSlotLemma, DeletePreviousLemma
    DEF LoadingThread
  <2>2. CASE UNCHANGED loaderVars
    BY <2>2
    DEF loaderVars, slots, loading, readers, LoaderInv, LoaderTypeOK, FileInv, SlotInv, ReaderInv,
        Busy, current, other
  <2> QED
    BY <2>1, <2>2, FileChangesLemma, ReaderLemma, TickLemma DEF LoaderNext
<1> QED
  BY <1>1, LoaderInitLemma, PTL DEF LoaderSpec

(* The loader's variables keep their types.                                *)
THEOREM LoaderTypeCorrect == LoaderSpec => []LoaderTypeOK
<1>1. LoaderInv => LoaderTypeOK
  BY DEF LoaderInv
<1> QED
  BY <1>1, LoaderInvariant, PTL
-----------------------------------------------------------------------------
(* What a reader holds, in terms of the slots: whole, until its last use.  *)
HeldInv ==
    \A r \in Reader : /\ ~Busy(r) => Held(r) = Null
                      /\ Busy(r) => Held(r) = _p_content[no[r]] /\ Held(r) # Null

LEMMA HeldLemma ==
    ASSUME LoaderInv
    PROVE  HeldInv
<1> SUFFICES ASSUME NEW r \in Reader
             PROVE  /\ ~Busy(r) => Held(r) = Null
                    /\ Busy(r) => Held(r) = _p_content[no[r]] /\ Held(r) # Null
  BY DEF HeldInv
<1>1. CASE ~Busy(r)
  BY <1>1 DEF Busy, Held
<1>2. CASE Busy(r)
  <2>1. rd[r] \in {"indexed", "using"} /\ no[r] \in Slots
    BY <1>2 DEF LoaderInv, LoaderTypeOK, Busy, Slots
  <2>2. Held(r) = Whole(_p_content[no[r]])
    BY <1>2, <2>1 DEF LoaderInv, ReaderInv, Held
  <2>3. _p_content[no[r]] # Null /\ _p_content[no[r]] \in 1..Len(has)
    BY <1>2, <2>1, SlotLemma DEF LoaderInv, ReaderInv
  <2>4. _p_content[no[r]] \notin freed
    <3>1. CASE no[r] = _using_no
      <4>1. \A c \in freed : c < _p_content[no[r]]
        BY <2>3, <3>1 DEF LoaderInv, SlotInv, current
      <4> QED
        BY <2>3, <4>1
    <3>2. CASE no[r] # _using_no
      <4>1. no[r] = other /\ rl = "sleep"
        BY <1>2, <2>1, <3>2, SlotLemma DEF LoaderInv, ReaderInv
      <4>2. \A c \in freed : c < _p_content[no[r]]
        BY <4>1 DEF LoaderInv, SlotInv
      <4> QED
        BY <2>3, <4>2
    <3> QED
      BY <3>1, <3>2
  <2> QED
    BY <1>2, <2>2, <2>3, <2>4 DEF Whole
<1> QED
  BY <1>1, <1>2

held == [r \in Reader |-> Held(r)]
CellVars == <<current, held>>

\* Steps that leave the readers and the contents in their slots alone.
LEMMA StutterLemma ==
    ASSUME HeldInv, HeldInv', UNCHANGED <<rd, no, current>>,
           \A r \in Reader : Busy(r) => _p_content'[no[r]] = _p_content[no[r]]
    PROVE  UNCHANGED CellVars
<1>1. ASSUME NEW r \in Reader PROVE Held(r)' = Held(r)
  BY DEF HeldInv, Busy
<1> QED
  BY <1>1 DEF held, CellVars

LEMMA LoadingMaps ==
    ASSUME LoaderInv, LoaderInv', HeldInv, HeldInv', LoadingThread
    PROVE  [Cell!Next]_CellVars
<1>1. UNCHANGED <<rd, no>>
  BY DEF LoadingThread, need_reload, StatFile, ParseFile, FillSlot, SwitchSlot, DeletePrevious,
         readers
<1>2. CASE need_reload \/ StatFile \/ ParseFile
  <2>1. UNCHANGED <<current, _p_content>>
    BY <1>2 DEF need_reload, StatFile, ParseFile, slots, current
  <2> QED
    BY <1>1, <2>1, StutterLemma
<1>3. CASE FillSlot
  <2>1. CASE current = Null
    <3>1. \A r \in Reader : ~Busy(r) /\ ~Busy(r)'
      BY <1>1, <2>1 DEF LoaderInv, SlotInv, Busy
    <3>2. UNCHANGED held
      BY <3>1 DEF HeldInv, held
    <3>3. current' = Len(has) /\ Len(has) # Null
      BY <1>3, <2>1, SlotLemma, LoaderAssumption
      DEF LoaderInv, LoaderTypeOK, FillSlot, current, Slots
    <3>4. Cell!Publish
      BY <2>1, <3>2, <3>3 DEF Cell!Publish, held
    <3> QED
      BY <3>4 DEF Cell!Next
  <2>2. CASE current # Null
    <3>1. UNCHANGED current
      BY <1>3, <2>2, SlotLemma DEF LoaderInv, LoaderTypeOK, FillSlot, current, Slots
    <3>2. \A r \in Reader : Busy(r) => _p_content'[no[r]] = _p_content[no[r]]
      BY <1>3, <2>2, SlotLemma DEF LoaderInv, LoaderTypeOK, FillSlot, ReaderInv, Slots
    <3> QED
      BY <1>1, <3>1, <3>2, StutterLemma
  <2> QED
    BY <2>1, <2>2
<1>4. CASE SwitchSlot
  <2>1. current' = Len(has) /\ current # Null /\ current' > current /\ current' # Null
    BY <1>4, SwitchSlotLemma, SlotLemma, LoaderAssumption DEF LoaderInv
  <2>2. \A r \in Reader : Held(r)' = Held(r)
    BY <1>1, <1>4 DEF SwitchSlot, HeldInv, Busy
  <2>3. Cell!Publish
    BY <2>1, <2>2 DEF Cell!Publish
  <2> QED
    BY <2>3 DEF Cell!Next
<1>5. CASE DeletePrevious
  <2>1. UNCHANGED current
    BY <1>5, SlotLemma DEF LoaderInv, LoaderTypeOK, DeletePrevious, current, Slots
  <2>2. \A r \in Reader : Busy(r) => _p_content'[no[r]] = _p_content[no[r]]
    BY <1>5, NobodyBehind, SlotLemma DEF LoaderInv, LoaderTypeOK, DeletePrevious, Slots
  <2> QED
    BY <1>1, <2>1, <2>2, StutterLemma
<1> QED
  BY <1>2, <1>3, <1>4, <1>5 DEF LoadingThread

LEMMA ReadingMaps ==
    ASSUME LoaderInv, LoaderInv', HeldInv, HeldInv', NEW r \in Reader, ReadIndex(r) \/ Proceed(r)
    PROVE  [Cell!Next]_CellVars
<1>1. UNCHANGED <<_p_content, current>>
  BY DEF ReadIndex, Proceed, ReadSlot, LastUse, slots, current
<1>2. \A q \in Reader \ {r} : rd'[q] = rd[q] /\ no'[q] = no[q]
  BY DEF ReadIndex, Proceed, ReadSlot, LastUse, LoaderInv, LoaderTypeOK
<1>3. \A q \in Reader \ {r} : Held(q)' = Held(q)
  BY <1>1, <1>2 DEF HeldInv, Busy
<1>4. CASE ReadIndex(r)
  <2>1. Held(r) = Null /\ current # Null /\ Held(r)' = current
    BY <1>1, <1>4 DEF ReadIndex, HeldInv, Busy, LoaderInv, LoaderTypeOK, current
  <2>2. held' = [held EXCEPT ![r] = current]
    <3>1. \A q \in Reader : held'[q] = IF q = r THEN current ELSE held[q]
      BY <1>3, <2>1 DEF held
    <3>2. DOMAIN held = Reader /\ DOMAIN held' = Reader
          /\ held = [q \in Reader |-> held[q]] /\ held' = [q \in Reader |-> held'[q]]
      BY DEF held
    <3> QED
      BY <3>1, <3>2
  <2>3. Cell!Take(r)
    BY <1>1, <2>1, <2>2 DEF Cell!Take, held
  <2> QED
    BY <2>3 DEF Cell!Next
<1>5. CASE ReadSlot(r)
  <2>1. Held(r)' = Held(r)
    BY <1>1, <1>5 DEF ReadSlot, HeldInv, Busy, LoaderInv, LoaderTypeOK
  <2>2. UNCHANGED held
    BY <1>3, <2>1 DEF held
  <2> QED
    BY <1>1, <2>2 DEF CellVars
<1>6. CASE LastUse(r)
  <2>1. Held(r) # Null /\ Held(r)' = Null
    BY <1>6 DEF LastUse, HeldInv, Busy, LoaderInv, LoaderTypeOK
  <2>2. held' = [held EXCEPT ![r] = Null]
    <3>1. \A q \in Reader : held'[q] = IF q = r THEN Null ELSE held[q]
      BY <1>3, <2>1 DEF held
    <3>2. DOMAIN held = Reader /\ DOMAIN held' = Reader
          /\ held = [q \in Reader |-> held[q]] /\ held' = [q \in Reader |-> held'[q]]
      BY DEF held
    <3> QED
      BY <3>1, <3>2
  <2>3. Cell!Drop(r)
    BY <1>1, <2>1, <2>2 DEF Cell!Drop, held
  <2> QED
    BY <2>3 DEF Cell!Next
<1> QED
  BY <1>4, <1>5, <1>6 DEF Proceed

LEMMA StepMaps ==
    ASSUME LoaderInv, LoaderInv', HeldInv, HeldInv', [LoaderNext]_loaderVars
    PROVE  [Cell!Next]_CellVars
<1>1. CASE \/ Tick \/ UNCHANGED loaderVars
           \/ \E kind \in {"good", "bad", "missing"}, later \in {0, 1} : FileChanges(kind, later)
  <2>1. UNCHANGED <<rd, no, current, _p_content>>
    BY <1>1 DEF Tick, FileChanges, loaderVars, slots, loading, readers, current
  <2> QED
    BY <2>1, StutterLemma
<1> QED
  BY <1>1, LoadingMaps, ReadingMaps DEF LoaderNext

(* No reader ever finds a content that is deleted, or missing, or replaced *)
(* before its last use: the loader is a cell that is published at once.    *)
THEOREM ReadersSeeWholeContents == LoaderSpec => CellSpec
<1>1. LoaderInit => Cell!Init
  BY DEF LoaderInit, Cell!Init, current, Held
<1>2. LoaderInv => HeldInv
  BY HeldLemma
<1>3. LoaderInv /\ LoaderInv' /\ HeldInv /\ HeldInv' /\ [LoaderNext]_loaderVars
        => [Cell!Next]_<<current, [r \in Reader |-> Held(r)]>>
  BY StepMaps DEF CellVars, held
<1>4. LoaderSpec => Cell!Spec
  BY <1>1, <1>2, <1>3, LoaderInvariant, PTL DEF LoaderSpec, Cell!Spec
<1> QED
  BY <1>4 DEF CellSpec

-----------------------------------------------------------------------------
(* The three side by side.                                                 *)

LEMMA SideBySideInit == Init => BucketInit /\ RingInit /\ LoaderInit
  BY DEF Init

\* A step of the instance is a step of one part, and the others stutter.
LEMMA SideBySideStep ==
    [Next]_allVars => [BucketNext]_bucketVars /\ [RingNext]_ringVars /\ [LoaderNext]_loaderVars
  BY DEF Next, Bucket_, Ring_, Loader_, allVars

(* The instance the runs check is each of the three specifications, so     *)
(* that what is proved of a part holds of it.                              *)
THEOREM PartsSideBySide == FairSpec => BucketSpec /\ RingSpec /\ LoaderSpec
  BY SideBySideInit, SideBySideStep, PTL DEF FairSpec, BucketSpec, RingSpec, LoaderSpec

(* The variables of all three keep their types: an index stays in its      *)
(* array, a bucket or a content that is named has been made.               *)
THEOREM ProxyTypeCorrect == FairSpec => []TypeOK
<1>1. BucketTypeOK /\ RingTypeOK /\ LoaderTypeOK => TypeOK
  BY DEF TypeOK
<1> QED BY <1>1, PartsSideBySide, BucketTypeCorrect, RingTypeCorrect, LoaderTypeCorrect, PTL
=============================================================================
