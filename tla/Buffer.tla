------------------------------- MODULE Buffer -------------------------------
(***************************************************************************)
(* base/Buffer.cpp: the byte buffer under every connection.  The readable  *)
(* bytes are buffer_[readerIndex_ .. writerIndex_); the room in front of   *)
(* them, kCheapPrepend bytes at first, serves prepend and is reclaimed by  *)
(* makeSpace.  The vector's cell i is buffer_[i + 1] here.                 *)
(***************************************************************************)
EXTENDS Naturals, Sequences

CONSTANTS Byte,
          Zero,            \* the byte resize() fills new cells with
          kCheapPrepend, InitialSize,
          ExtraSize,       \* sizeof extrabuf in readFd
          MaxChunk,        \* bound on one call's data, for TLC
          MaxSize          \* bound on the readable bytes, for TLC

ASSUME BufferAssumption ==
    /\ Zero \in Byte
    /\ kCheapPrepend \in Nat /\ InitialSize \in Nat /\ ExtraSize \in Nat
    /\ MaxChunk \in Nat /\ MaxSize \in Nat

VARIABLES buffer_, readerIndex_, writerIndex_

vars == <<buffer_, readerIndex_, writerIndex_>>

Size(buf) == Len(buf)
readableBytes == writerIndex_ - readerIndex_
writableBytes == Size(buffer_) - writerIndex_
prependableBytes == readerIndex_

Chunk == UNION {[1..n -> Byte] : n \in 0..MaxChunk}

TypeOK ==
    /\ buffer_ \in Seq(Byte)
    /\ readerIndex_ \in Nat
    /\ writerIndex_ \in Nat

Init ==
    /\ buffer_ = [i \in 1..(kCheapPrepend + InitialSize) |-> Zero]
    /\ readerIndex_ = kCheapPrepend
    /\ writerIndex_ = kCheapPrepend

-----------------------------------------------------------------------------
\* The cells from `at' on hold data, the others what they held.
Overwrite(buf, at, data) ==
    [i \in 1..Len(buf) |-> IF i \in (at + 1)..(at + Len(data)) THEN data[i - at] ELSE buf[i]]

Resize(buf, n) == [i \in 1..n |-> IF i <= Len(buf) THEN buf[i] ELSE Zero]

\* The vector and its two indices as one value, for the operations that
\* readFd composes.
State(buf, r, w) == [buf |-> buf, r |-> r, w |-> w]

\* Mutant: the bytes already read are never reclaimed.
NeedsGrowthAlways(s, len) == TRUE

NeedsGrowth(s, len) == (Len(s.buf) - s.w) + s.r < len + kCheapPrepend

\* Mutant: the readable bytes are moved to the very front, the indices are not.
makeSpaceToFront(s, len) ==
    IF NeedsGrowth(s, len)
    THEN State(Resize(s.buf, s.w + len), s.r, s.w)
    ELSE State(Overwrite(s.buf, 0, SubSeq(s.buf, s.r + 1, s.w)),
               kCheapPrepend, kCheapPrepend + (s.w - s.r))

makeSpace(s, len) ==
    IF NeedsGrowth(s, len)
    THEN State(Resize(s.buf, s.w + len), s.r, s.w)
    ELSE State(Overwrite(s.buf, kCheapPrepend, SubSeq(s.buf, s.r + 1, s.w)),
               kCheapPrepend, kCheapPrepend + (s.w - s.r))

ensureWritableBytes(s, len) == IF Len(s.buf) - s.w < len THEN makeSpace(s, len) ELSE s

\* append: room, copy, hasWritten.
Appended(s, data) ==
    LET room == ensureWritableBytes(s, Len(data))
    IN State(Overwrite(room.buf, room.w, data), room.r, room.w + Len(data))

Become(s) == buffer_' = s.buf /\ readerIndex_' = s.r /\ writerIndex_' = s.w

-----------------------------------------------------------------------------
Append_(data) ==
    /\ readableBytes + Len(data) <= MaxSize
    /\ Become(Appended(State(buffer_, readerIndex_, writerIndex_), data))

\* Mutant: all that readv returned is counted as written in place.
AlwaysFits(data) == TRUE

\* readv fills the writable bytes first and extrabuf with the rest.
FitsWritable(data) == Len(data) <= writableBytes

Filled(data) ==
    State(Overwrite(buffer_, writerIndex_, SubSeq(data, 1, writableBytes)),
          readerIndex_, Size(buffer_))

readFd(data) ==
    /\ Len(data) <= writableBytes + ExtraSize
    /\ readableBytes + Len(data) <= MaxSize
    /\ IF FitsWritable(data)
       THEN Become(State(Overwrite(buffer_, writerIndex_, data), readerIndex_, writerIndex_ + Len(data)))
       ELSE Become(Appended(Filled(data), SubSeq(data, writableBytes + 1, Len(data))))

retrieveAll ==
    /\ readerIndex_' = kCheapPrepend /\ writerIndex_' = kCheapPrepend
    /\ UNCHANGED buffer_

retrieve(len) ==
    /\ len <= readableBytes
    /\ IF len < readableBytes
       THEN readerIndex_' = readerIndex_ + len /\ UNCHANGED <<buffer_, writerIndex_>>
       ELSE retrieveAll

\* Mutant: the assertion at the head of prepend is dropped.
AnyPrepend(data) == TRUE

MayPrepend(data) == Len(data) <= prependableBytes

prepend(data) ==
    /\ MayPrepend(data)
    /\ readableBytes + Len(data) <= MaxSize
    /\ readerIndex_' = readerIndex_ - Len(data)
    /\ buffer_' = Overwrite(buffer_, readerIndex_ - Len(data), data)
    /\ UNCHANGED writerIndex_

Next ==
    \/ \E data \in Chunk : Append_(data) \/ readFd(data) \/ prepend(data)
    \/ \E len \in 0..readableBytes : retrieve(len)
    \/ retrieveAll

Spec == Init /\ [][Next]_vars

-----------------------------------------------------------------------------
(* The picture in Buffer.h: the indices never pass each other or the end,  *)
(* whatever sequence of reads, moves, growths and prepends came before.    *)
IndicesInOrder == readerIndex_ <= writerIndex_ /\ writerIndex_ <= Size(buffer_)

(* The readable bytes are a queue: no call loses, repeats or reorders one, *)
(* also when readv spills into extrabuf or the bytes are moved in place.   *)
Readable == SubSeq(buffer_, readerIndex_ + 1, writerIndex_)
Queue == INSTANCE ByteQueue WITH content <- Readable
QueueSpec == Queue!Spec

(* The vector grows only when the readable bytes and the new ones do not   *)
(* fit in it behind kCheapPrepend bytes: room that was read is reclaimed,  *)
(* so a connection that is read as fast as it fills does not grow.         *)
GrowsOnlyWhenFull ==
    [][Size(buffer_') > Size(buffer_)
          => kCheapPrepend + (writerIndex_' - readerIndex_') > Size(buffer_)]_vars
=============================================================================
