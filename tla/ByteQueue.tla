----------------------------- MODULE ByteQueue -----------------------------
(***************************************************************************)
(* What base/Buffer promises its users: a double-ended queue of bytes.     *)
(* Bytes enter at the back (append, readFd), leave at the front (retrieve) *)
(* and may be put back at the front (prepend).                             *)
(***************************************************************************)
EXTENDS Naturals, Sequences

CONSTANTS Byte,
          MaxChunk      \* the longest run of bytes one call hands over

VARIABLE content

Chunk == UNION {[1..n -> Byte] : n \in 0..MaxChunk}

Init == content = <<>>

PushBack == \E data \in Chunk : content' = content \o data
PushFront == \E data \in Chunk : content' = data \o content
PopFront == \E n \in 0..Len(content) : content' = SubSeq(content, n + 1, Len(content))

Next == PushBack \/ PushFront \/ PopFront

Spec == Init /\ [][Next]_content
=============================================================================
