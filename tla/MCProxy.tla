------------------------------ MODULE MCProxy ------------------------------
(***************************************************************************)
(* Three parts that share no state, in one instance: the spreading of the  *)
(* connections over the workers, the ring, and the loader of the           *)
(* configuration.  A behaviour is one of the part chosen at its start; the *)
(* other two stay in one initial state: interleaving would add nothing.    *)
(*                                                                         *)
(* n1 and n2 have a point in common; k1 lies behind all points, k2 on one, *)
(* with words that add up to more than the ring's size.                    *)
(***************************************************************************)
EXTENDS EventLoopBucket, ConsistencyHash, MdmInfoLoader, TLC

CONSTANTS n1, n2, n3, k1, k2

MCVirtual ==
    (n1 :> <<<<0, 0, 0, 0>>, <<2, 3, 1, 0>>>>) @@ (n2 :> <<<<1, 1, 0, 0>>>>)
        @@ (n3 :> <<<<3, 0, 2, 0>>>>)
MCDigest == (k1 :> <<1, 2, 0, 0>>) @@ (k2 :> <<3, 3, 0, 3>>)

VARIABLE part

allVars == <<part, bucketVars, ringVars, loaderVars>>

Init == /\ part \in {"bucket", "ring", "loader"}
        /\ BucketInit /\ RingInit /\ LoaderInit
        /\ part # "ring" => key = [t \in Task |-> k1]
        /\ part # "loader" => file.kind = "missing"

Bucket_ == part = "bucket" /\ BucketNext /\ UNCHANGED <<part, ringVars, loaderVars>>
Ring_ == part = "ring" /\ RingNext /\ UNCHANGED <<part, bucketVars, loaderVars>>
Loader_(A) == part = "loader" /\ A /\ UNCHANGED <<part, bucketVars, ringVars>>

Next == Bucket_ \/ Ring_ \/ Loader_(LoaderNext)

Fairness ==
    /\ WF_allVars(Loader_(LoadingThread)) /\ WF_allVars(Loader_(Tick))
    /\ \A r \in Reader : WF_allVars(Loader_(Proceed(r)))

FairSpec == Init /\ [][Next]_allVars /\ Fairness

(* The variables of the three parts keep their types: an index stays in    *)
(* its array, and a content or a bucket that is named has been made.       *)
TypeOK == BucketTypeOK /\ RingTypeOK /\ LoaderTypeOK
=============================================================================
