-------------------------- MODULE ConsistencyHash --------------------------
(***************************************************************************)
(* The ring of mdm/ConsistencyHash.cpp: each server (HashNode) has some    *)
(* virtual points on a circle of RingSize positions; a key goes to the     *)
(* server of the first point behind its own position.  All tasks of the    *)
(* proxy, on all worker threads, share one ring and, inside it, one MD5    *)
(* object: a lookup writes the digest of its key into md5_.m_data, four    *)
(* words, and then adds the words up, with nothing to keep another lookup  *)
(* out.                                                                    *)
(*                                                                         *)
(* The maps have no lock either: the ring is changed while no lookup is    *)
(* under way (the proxy gets it complete).  KeyType has 32 bits, as        *)
(* ToULong32 asserts; RingSize stands for 2^32.                            *)
(***************************************************************************)
EXTENDS Naturals, Sequences

CONSTANTS RingSize,
          Node, NoNode,  \* the names of servers
          Virtual,       \* the MD5s, as four words, of the virtual names of each
          Task,          \* the threads that look keys up
          Key,
          Digest         \* the MD5 of each key

Position == 0..(RingSize - 1)
Word == 1..4

ASSUME RingAssumption ==
    /\ RingSize \in Nat \ {0}
    /\ NoNode \notin Node
    /\ Virtual \in [Node -> Seq([Word -> Position])]
    /\ Digest \in [Key -> [Word -> Position]]

VARIABLES nodes_,
          hashMap_,      \* [Position -> the server whose point this is, or NoNode]
          m_data,        \* the words of md5_
          step, key,     \* where each thread is in its lookup, and of which key
          word, output,  \* the next word to write or add, and the sum
          found,         \* what the lookup returns
          alone          \* history: no other lookup has written since it began

ringVars == <<nodes_, hashMap_, m_data, step, key, word, output, found, alone>>

RingTypeOK ==
    /\ nodes_ \subseteq Node
    /\ hashMap_ \in [Position -> Node \cup {NoNode}]
    /\ m_data \in [Word -> Position]
    /\ step \in [Task -> {"idle", "write", "read", "map", "found"}]
    /\ key \in [Task -> Key]
    /\ word \in [Task -> 1..5]
    /\ output \in [Task -> Nat]
    /\ found \in [Task -> Node \cup {NoNode}]
    /\ alone \in [Task -> BOOLEAN]

RingInit ==
    /\ nodes_ = {} /\ hashMap_ = [p \in Position |-> NoNode]
    /\ m_data = [i \in Word |-> 0]
    /\ step = [t \in Task |-> "idle"] /\ key \in [Task -> Key]
    /\ word = [t \in Task |-> 1] /\ output = [t \in Task |-> 0]
    /\ found = [t \in Task |-> NoNode] /\ alone = [t \in Task |-> TRUE]

-----------------------------------------------------------------------------
Sum32(sum) == sum % RingSize

SumOf(digest) == digest[1] + digest[2] + digest[3] + digest[4]

\* The HashNode constructor computes the points of a server, through md5_ too.
getNodeKeys(n) == {Sum32(SumOf(Virtual[n][i])) : i \in DOMAIN Virtual[n]}
LastWritten(n) == IF Virtual[n] = <<>> THEN m_data ELSE Virtual[n][Len(Virtual[n])]

-----------------------------------------------------------------------------
(* The map of points.                                                      *)

Points(map) == {p \in Position : map[p] # NoNode}

Least(S) == CHOOSE p \in S : \A q \in S : p <= q

\* Mutant: a point at the position of the key is taken.
lower_bound(map, k) ==
    LET behind == {p \in Points(map) : p >= k}
    IN Least(IF behind # {} THEN behind ELSE Points(map))

\* The first point behind k, or the first of all when there is none.
upper_bound(map, k) ==
    LET behind == {p \in Points(map) : p > k}
    IN Least(IF behind # {} THEN behind ELSE Points(map))

getMappingNodeFromKey(map, k) ==
    IF Points(map) = {} THEN NoNode ELSE map[upper_bound(map, k)]

\* hashMap_.insert keeps the server that is there.
Inserted(map, n) ==
    [p \in Position |-> IF p \in getNodeKeys(n) /\ map[p] = NoNode THEN n ELSE map[p]]

\* The points are erased by position, whosever they are.
Erased(map, n) == [p \in Position |-> IF p \in getNodeKeys(n) THEN NoNode ELSE map[p]]

lookup == <<step, key, word, output, found, alone>>
Quiet == \A t \in Task : step[t] = "idle"

\* Mutant: a server that is known is added again.
MayAddAgain(n) == TRUE

MayAdd(n) == n \notin nodes_

addHashNodesFromString(n) ==
    /\ Quiet
    /\ MayAdd(n) /\ nodes_' = nodes_ \cup {n}
    /\ hashMap_' = Inserted(hashMap_, n)
    /\ m_data' = LastWritten(n)
    /\ UNCHANGED lookup

\* The name stays in nodes_: the server cannot be added again.
deleteHashNodesFromString(n) ==
    /\ Quiet
    /\ n \in nodes_ /\ UNCHANGED nodes_
    /\ hashMap_' = Erased(hashMap_, n)
    /\ UNCHANGED <<m_data, lookup>>

-----------------------------------------------------------------------------
(* getMappingNodeFromKeyString.                                            *)

ring == <<nodes_, hashMap_>>

\* GenerateMD5 works on the stack until md5_finish stores the words.
GenerateMD5(t, k) ==
    /\ step[t] = "idle" /\ step' = [step EXCEPT ![t] = "write"]
    /\ key' = [key EXCEPT ![t] = k]
    /\ word' = [word EXCEPT ![t] = 1]
    /\ output' = [output EXCEPT ![t] = 0]
    /\ alone' = [alone EXCEPT ![t] = TRUE]
    /\ UNCHANGED <<ring, m_data, found>>

md5_finish(t) ==
    /\ step[t] = "write"
    /\ m_data' = [m_data EXCEPT ![word[t]] = Digest[key[t]][word[t]]]
    /\ IF word[t] < 4 THEN word' = [word EXCEPT ![t] = @ + 1] /\ UNCHANGED step
       ELSE word' = [word EXCEPT ![t] = 1] /\ step' = [step EXCEPT ![t] = "read"]
    /\ alone' = [u \in Task |-> alone[u] /\ (u = t \/ step[u] \in {"idle", "map", "found"})]
    /\ UNCHANGED <<ring, key, output, found>>

ToULong32(t) ==
    /\ step[t] = "read"
    /\ output' = [output EXCEPT ![t] = @ + m_data[word[t]]]
    /\ IF word[t] < 4 THEN word' = [word EXCEPT ![t] = @ + 1] /\ UNCHANGED step
       ELSE word' = [word EXCEPT ![t] = 1] /\ step' = [step EXCEPT ![t] = "map"]
    /\ UNCHANGED <<ring, m_data, key, found, alone>>

MapKey(t) ==
    /\ step[t] = "map" /\ step' = [step EXCEPT ![t] = "found"]
    /\ found' = [found EXCEPT ![t] = getMappingNodeFromKey(hashMap_, Sum32(output[t]))]
    /\ UNCHANGED <<ring, m_data, key, word, output, alone>>

LookupReturns(t) ==
    /\ step[t] = "found" /\ step' = [step EXCEPT ![t] = "idle"]
    /\ output' = [output EXCEPT ![t] = 0]
    /\ found' = [found EXCEPT ![t] = NoNode]
    /\ UNCHANGED <<ring, m_data, key, word, alone>>

RingNext ==
    \/ \E n \in Node : addHashNodesFromString(n) \/ deleteHashNodesFromString(n)
    \/ \E t \in Task :
          \/ \E k \in Key : GenerateMD5(t, k)
          \/ md5_finish(t) \/ ToULong32(t) \/ MapKey(t) \/ LookupReturns(t)

RingSpec == RingInit /\ [][RingNext]_ringVars

-----------------------------------------------------------------------------
(* How far behind k the point p lies, once around for a point at k itself. *)
Distance(k, p) == IF p > k THEN p - k ELSE p + RingSize - k

HashOf(k) == SumOf(Digest[k]) % RingSize

(* A lookup finds a server whenever there is a point, one that has a point *)
(* then, whatever other lookups do to its digest; and if none has written  *)
(* into md5_ meanwhile, it is the server of the nearest point behind the   *)
(* key, the wrap-around of the sum and of the ring included.               *)
Nearest(k, n) ==
    \E p \in Points(hashMap_) : /\ hashMap_[p] = n
                                /\ \A q \in Points(hashMap_) : Distance(k, p) <= Distance(k, q)
LookupFindsServer ==
    \A t \in Task : step[t] = "found" =>
        IF Points(hashMap_) = {} THEN found[t] = NoNode
        ELSE /\ \E p \in Points(hashMap_) : hashMap_[p] = found[t]
             /\ alone[t] => Nearest(HashOf(key[t]), found[t])

(* The promise of consistent hashing: a key changes its server only for    *)
(* one that has just been added, or because the point it had was deleted;  *)
(* in particular a server that is refused, or deleted again, moves no key, *)
(* also when two servers have a point in common.                           *)
MovesOnlyItsKeys ==
    [][\A k \in Position :
          LET before == getMappingNodeFromKey(hashMap_, k)
              after == getMappingNodeFromKey(hashMap_', k)
          IN before # after => \/ after \in nodes_' \ nodes_
                               \/ /\ before # NoNode
                                  /\ hashMap_'[upper_bound(hashMap_, k)] = NoNode]_ringVars
=============================================================================
