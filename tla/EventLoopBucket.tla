-------------------------- MODULE EventLoopBucket --------------------------
(***************************************************************************)
(* How connections are spread over the worker loops.  TcpServer::start     *)
(* creates the worker threads; each makes an EventLoop and registers it in *)
(* EventLoopBucket::Instance() (base/EventLoopBucket.cpp), while the main  *)
(* thread already accepts connections and asks Instance() for the next     *)
(* loop.  Instance() tests and sets its static pointer without a lock, so  *)
(* that each thread inside it at the first call may create a bucket.       *)
(*                                                                         *)
(* mutex_ is held by addEventLoop and getNextLoop from beginning to end:   *)
(* each is a step.                                                         *)
(***************************************************************************)
EXTENDS Naturals, SequencesExt

CONSTANTS Worker,        \* the threads of the pool; a worker is named for its loop
          Main,          \* the thread that starts the server and accepts
          NoLoop

ASSUME ThreadAssumption == Main \notin Worker /\ NoLoop \notin Worker

VARIABLES
    instance_,           \* the bucket the static pointer names, 0 for nullptr
    buckets,             \* every EventLoopBucket made: nextLoops_ and next_
    at,                  \* where each thread is
    local,               \* the bucket a thread made, then the one it was returned
    given,               \* the loop of the last connection, NoLoop if there was none
    owed                 \* history: for each loop, those whose turn comes before its next

bucketVars == <<instance_, buckets, at, local, given, owed>>

Thread == Worker \cup {Main}

BucketTypeOK ==
    /\ instance_ \in Nat /\ instance_ <= Len(buckets)
    /\ buckets \in Seq([nextLoops_ : Seq(Worker), next_ : Nat])
    /\ at \in [Thread -> {"unborn", "starting", "check", "create", "return", "add", "next",
                          "loop", "dead"}]
    /\ local \in [Thread -> Nat]
    /\ given \in Worker \cup {NoLoop}
    /\ owed \in [Worker -> SUBSET Worker]

BucketInit ==
    /\ instance_ = 0 /\ buckets = <<>>
    /\ at = [t \in Thread |-> IF t = Main THEN "starting" ELSE "unborn"]
    /\ local = [t \in Thread |-> 0]
    /\ given = NoLoop
    /\ owed = [w \in Worker |-> {}]

Move(t, from, to) == at[t] = from /\ at' = [at EXCEPT ![t] = to]

-----------------------------------------------------------------------------
(* TcpServer::start and ThreadPool::start, in the main thread.             *)

\* pthread_create succeeds; the thread runs LoopThreadFunc.
StartThread(w) ==
    /\ at[Main] = "starting" /\ at[w] = "unborn"
    /\ at' = [at EXCEPT ![w] = "check"]
    /\ UNCHANGED <<instance_, buckets, local, given, owed>>

\* All threads run, or pthread_create has failed and the others are not tried.
StartReturns ==
    /\ Move(Main, "starting", "loop")
    /\ UNCHANGED <<instance_, buckets, local, given, owed>>

-----------------------------------------------------------------------------
(* Instance(), in any thread.                                              *)

CheckInstance(t) ==
    /\ Move(t, "check", IF instance_ = 0 THEN "create" ELSE "return")
    /\ UNCHANGED <<instance_, buckets, local, given, owed>>

CreateInstance(t) ==
    /\ Move(t, "create", "return")
    /\ buckets' = Append(buckets, [nextLoops_ |-> <<>>, next_ |-> 0])
    /\ instance_' = Len(buckets')
    /\ local' = [local EXCEPT ![t] = instance_']
    /\ UNCHANGED <<given, owed>>

\* The pointer is read again, unless the compiler has kept what was stored.
ReturnInstance(t) ==
    /\ Move(t, "return", IF t = Main THEN "next" ELSE "add")
    /\ \E b \in {instance_, local[t]} \ {0} : local' = [local EXCEPT ![t] = b]
    /\ UNCHANGED <<instance_, buckets, given, owed>>

-----------------------------------------------------------------------------
Bucket(t) == buckets[local[t]]
Forget(t) == local' = [local EXCEPT ![t] = 0]     \* the call is over

\* No two workers have the same tid: the insertion does not fail.
addEventLoop(w) ==
    /\ Move(w, "add", "loop")
    /\ buckets' = [buckets EXCEPT ![local[w]].nextLoops_ = Append(@, w)]
    /\ Forget(w)
    /\ UNCHANGED <<instance_, given, owed>>

\* Mutant: the last loop of the round is left out.
WrapsEarly(b) == Len(b.nextLoops_) <= b.next_ + 1

Wraps(b) == Len(b.nextLoops_) <= b.next_

\* defHandleAccept has a new descriptor.
Accept ==
    /\ Move(Main, "loop", "check")
    /\ UNCHANGED <<instance_, buckets, local, given, owed>>

\* getNextLoop of a bucket without loops: the descriptor is left open and forgotten.
NoNextLoop ==
    /\ Move(Main, "next", "loop")
    /\ Bucket(Main).nextLoops_ = <<>>
    /\ given' = NoLoop
    /\ Forget(Main)
    /\ UNCHANGED <<instance_, buckets, owed>>

getNextLoop ==
    /\ Move(Main, "next", "loop")
    /\ Bucket(Main).nextLoops_ # <<>>
    /\ LET i == IF Wraps(Bucket(Main)) THEN 0 ELSE Bucket(Main).next_
           w == Bucket(Main).nextLoops_[i + 1]
       IN /\ buckets' = [buckets EXCEPT ![local[Main]].next_ = i + 1]
          /\ given' = w
          /\ owed' = [v \in Worker |-> IF v = w THEN ToSet(Bucket(Main).nextLoops_) \ {w}
                                       ELSE owed[v] \ {w}]
    /\ Forget(Main)
    /\ UNCHANGED instance_

\* Thread::ThreadFunc catches what a callback of the loop has thrown: the
\* thread ends, and its loop stays in the bucket.
WorkerDies(w) ==
    /\ Move(w, "loop", "dead")
    /\ UNCHANGED <<instance_, buckets, local, given, owed>>

BucketNext ==
    \/ \E w \in Worker : StartThread(w) \/ addEventLoop(w) \/ WorkerDies(w)
    \/ StartReturns \/ Accept \/ NoNextLoop \/ getNextLoop
    \/ \E t \in Thread : CheckInstance(t) \/ CreateInstance(t) \/ ReturnInstance(t)

BucketSpec == BucketInit /\ [][BucketNext]_bucketVars

-----------------------------------------------------------------------------
(* Connections are spread in turn: a loop gets its next one only when each *)
(* loop that was in the bucket at its last one has had one since, however  *)
(* registrations, and replacements of the bucket by a thread that was late *)
(* in Instance(), fall between the connections.                            *)
LoopsInTurn ==
    [][at[Main] = "next" /\ at'[Main] = "loop" /\ given' # NoLoop => owed[given'] = {}]_bucketVars
=============================================================================
