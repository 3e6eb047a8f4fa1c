---------------------------- MODULE BufferProofs ----------------------------
(***************************************************************************)
(* The properties of Buffer for every size, every prepend area and every   *)
(* sequence of calls.                                                      *)
(***************************************************************************)
EXTENDS Buffer, Integers, TLAPS

\* A vector of bytes with its indices in order and room for the prepend area.
WellFormed(s) ==
    /\ s.buf \in Seq(Byte) /\ s.r \in Nat /\ s.w \in Nat
    /\ s.r <= s.w /\ s.w <= Len(s.buf)
    /\ kCheapPrepend <= Len(s.buf)

Now == State(buffer_, readerIndex_, writerIndex_)
IInv == WellFormed(Now)

\* The bytes between the indices.
Held(s) == SubSeq(s.buf, s.r + 1, s.w)

\* Overwriting keeps the length and changes the cells of the data only.
LEMMA OverwriteLemma ==
    ASSUME NEW buf \in Seq(Byte), NEW at \in Nat, NEW data \in Seq(Byte)
    PROVE  /\ Overwrite(buf, at, data) \in Seq(Byte)
           /\ Len(Overwrite(buf, at, data)) = Len(buf)
           /\ \A i \in 1..Len(buf) : Overwrite(buf, at, data)[i] =
                 IF i \in (at + 1)..(at + Len(data)) THEN data[i - at] ELSE buf[i]
PROOF
<1>1. \A i \in (at + 1)..(at + Len(data)) : data[i - at] \in Byte
  OBVIOUS
<1>2. Overwrite(buf, at, data) \in [1..Len(buf) -> Byte]
  BY <1>1 DEF Overwrite
<1> QED
  BY <1>2 DEF Overwrite

\* Resizing keeps the cells that remain and fills the new ones.
LEMMA ResizeLemma ==
    ASSUME NEW buf \in Seq(Byte), NEW n \in Nat
    PROVE  /\ Resize(buf, n) \in Seq(Byte)
           /\ Len(Resize(buf, n)) = n
           /\ \A i \in 1..n : Resize(buf, n)[i] = IF i <= Len(buf) THEN buf[i] ELSE Zero
PROOF
<1>1. Resize(buf, n) \in [1..n -> Byte]
  BY BufferAssumption DEF Resize
<1> QED
  BY <1>1 DEF Resize

\* Two sequences with the same length and elements are the same.
LEMMA SameSeq ==
    ASSUME NEW s \in Seq(Byte), NEW t \in Seq(Byte), Len(s) = Len(t), \A i \in 1..Len(s) : s[i] = t[i]
    PROVE  s = t
OBVIOUS

\* The cells of a concatenation.
LEMMA ConcatLemma ==
    ASSUME NEW s \in Seq(Byte), NEW t \in Seq(Byte)
    PROVE  /\ s \o t \in Seq(Byte)
           /\ Len(s \o t) = Len(s) + Len(t)
           /\ \A i \in 1..(Len(s) + Len(t)) : (s \o t)[i] = IF i <= Len(s) THEN s[i] ELSE t[i - Len(s)]
OBVIOUS

\* The cells between two indices.
LEMMA SubSeqLemma ==
    ASSUME NEW s \in Seq(Byte), NEW a \in Nat, NEW b \in Nat, a <= b, b <= Len(s)
    PROVE  /\ SubSeq(s, a + 1, b) \in Seq(Byte)
           /\ Len(SubSeq(s, a + 1, b)) = b - a
           /\ \A i \in 1..(b - a) : SubSeq(s, a + 1, b)[i] = s[a + i]
OBVIOUS

\* The same bytes at two places of two vectors.
LEMMA SameHeld ==
    ASSUME NEW buf \in Seq(Byte), NEW r \in Nat, NEW w \in Nat, r <= w, w <= Len(buf),
           NEW buf2 \in Seq(Byte), NEW r2 \in Nat, NEW w2 \in Nat, r2 <= w2, w2 <= Len(buf2),
           w2 - r2 = w - r,
           \A i \in 1..(w - r) : buf2[r2 + i] = buf[r + i]
    PROVE  SubSeq(buf2, r2 + 1, w2) = SubSeq(buf, r + 1, w)
PROOF
<1>1. /\ SubSeq(buf, r + 1, w) \in Seq(Byte) /\ Len(SubSeq(buf, r + 1, w)) = w - r
      /\ \A i \in 1..(w - r) : SubSeq(buf, r + 1, w)[i] = buf[r + i]
  BY SubSeqLemma
<1>2. /\ SubSeq(buf2, r2 + 1, w2) \in Seq(Byte) /\ Len(SubSeq(buf2, r2 + 1, w2)) = w2 - r2
      /\ \A i \in 1..(w2 - r2) : SubSeq(buf2, r2 + 1, w2)[i] = buf2[r2 + i]
  BY SubSeqLemma
<1> QED
  BY <1>1, <1>2, SameSeq

\* room is s with its bytes, perhaps elsewhere, and len free cells behind them.
HasRoom(s, len, room) ==
    /\ WellFormed(room)
    /\ room.w + len <= Len(room.buf)
    /\ Held(room) = Held(s)
    /\ room.w - room.r = s.w - s.r
    /\ Len(room.buf) > Len(s.buf) => kCheapPrepend + (s.w - s.r) + len > Len(s.buf)

(* ensureWritableBytes keeps the shape and the bytes and makes the room.   *)
LEMMA SpaceLemma ==
    ASSUME NEW s, WellFormed(s), NEW len \in Nat
    PROVE  HasRoom(s, len, ensureWritableBytes(s, len))
PROOF
<1>r. PICK room : room = ensureWritableBytes(s, len)
  OBVIOUS
<1>s. PICK buf \in Seq(Byte), r \in Nat, w \in Nat : s.buf = buf /\ s.r = r /\ s.w = w
  BY DEF WellFormed
<1>w. r <= w /\ w <= Len(buf) /\ kCheapPrepend <= Len(buf) /\ Len(buf) \in Nat /\ kCheapPrepend \in Nat
  BY <1>s, BufferAssumption DEF WellFormed
<1>1. CASE Len(buf) - w >= len
  <2>1. room = s
    BY <1>1, <1>r, <1>s, <1>w DEF ensureWritableBytes
  <2> QED
    BY <1>1, <1>r, <1>s, <1>w, <2>1 DEF HasRoom
<1>2. CASE Len(buf) - w < len /\ NeedsGrowth(s, len)
  <2> DEFINE grown == Resize(buf, w + len)
  <2>1. room = State(grown, r, w)
    BY <1>2, <1>r, <1>s, <1>w DEF ensureWritableBytes, makeSpace
  <2>2. /\ grown \in Seq(Byte) /\ Len(grown) = w + len
        /\ \A i \in 1..(w + len) : grown[i] = IF i <= Len(buf) THEN buf[i] ELSE Zero
    <3>1. w + len \in Nat
      OBVIOUS
    <3> QED
      BY <3>1, ResizeLemma
  <2> HIDE DEF grown
  <2>3. room.buf = grown /\ room.r = r /\ room.w = w
    BY <2>1 DEF State
  <2>4. WellFormed(room) /\ room.w + len <= Len(room.buf)
    BY <1>2, <1>w, <2>2, <2>3 DEF WellFormed
  <2>5. Held(room) = Held(s)
    <3>1. SubSeq(grown, r + 1, w) = SubSeq(buf, r + 1, w)
      <4>1. \A i \in 1..(w - r) : grown[r + i] = buf[r + i]
        BY <1>w, <2>2
      <4> QED
        BY <1>w, <2>2, <4>1, SameHeld
    <3> QED
      BY <1>s, <2>3, <3>1 DEF Held
  <2>6. kCheapPrepend + (w - r) + len > Len(buf)
    BY <1>2, <1>s, <1>w DEF NeedsGrowth
  <2> QED
    BY <1>r, <1>s, <1>w, <2>3, <2>4, <2>5, <2>6 DEF HasRoom
<1>3. CASE Len(buf) - w < len /\ ~NeedsGrowth(s, len)
  <2> DEFINE data == SubSeq(buf, r + 1, w)
             moved == Overwrite(buf, kCheapPrepend, data)
             end == kCheapPrepend + (w - r)
  <2>1. room = State(moved, kCheapPrepend, end)
    BY <1>3, <1>r, <1>s, <1>w DEF ensureWritableBytes, makeSpace
  <2>2. kCheapPrepend < r /\ end + len <= Len(buf) /\ end \in Nat /\ end - kCheapPrepend = w - r
    BY <1>3, <1>s, <1>w DEF NeedsGrowth
  <2>3. data \in Seq(Byte) /\ Len(data) = w - r /\ \A i \in 1..(w - r) : data[i] = buf[r + i]
    BY <1>w, SubSeqLemma
  <2> HIDE DEF data
  <2>4. /\ moved \in Seq(Byte) /\ Len(moved) = Len(buf)
        /\ \A i \in 1..Len(buf) : moved[i] =
              IF i \in (kCheapPrepend + 1)..(kCheapPrepend + Len(data)) THEN data[i - kCheapPrepend] ELSE buf[i]
    BY <1>w, <2>3, OverwriteLemma
  <2> HIDE DEF moved
  <2>5. \A i \in 1..(w - r) : moved[kCheapPrepend + i] = buf[r + i]
    <3> SUFFICES ASSUME NEW i \in 1..(w - r) PROVE moved[kCheapPrepend + i] = buf[r + i]
      OBVIOUS
    <3>1. kCheapPrepend + i \in 1..Len(buf) /\ (kCheapPrepend + i) - kCheapPrepend = i
          /\ kCheapPrepend + i \in (kCheapPrepend + 1)..(kCheapPrepend + (w - r))
      BY <1>w, <2>2
    <3>2. moved[kCheapPrepend + i] = data[(kCheapPrepend + i) - kCheapPrepend]
      BY <2>3, <2>4, <3>1
    <3> QED
      BY <2>3, <3>1, <3>2
  <2>6. room.buf = moved /\ room.r = kCheapPrepend /\ room.w = end
    BY <2>1 DEF State
  <2>7. WellFormed(room) /\ room.w + len <= Len(room.buf)
    BY <1>w, <2>2, <2>4, <2>6 DEF WellFormed
  <2>8. Held(room) = Held(s)
    <3>1. SubSeq(moved, kCheapPrepend + 1, end) = SubSeq(buf, r + 1, w)
      <4>1. end \in Nat /\ kCheapPrepend <= end /\ end <= Len(moved) /\ end - kCheapPrepend = w - r
        BY <1>w, <2>2, <2>4
      <4> HIDE DEF end
      <4> QED
        <5>1. /\ SubSeq(moved, kCheapPrepend + 1, end) \in Seq(Byte)
              /\ Len(SubSeq(moved, kCheapPrepend + 1, end)) = w - r
              /\ \A i \in 1..(w - r) : SubSeq(moved, kCheapPrepend + 1, end)[i] = moved[kCheapPrepend + i]
          BY <1>w, <2>4, <4>1, SubSeqLemma
        <5>2. SubSeq(buf, r + 1, w) \in Seq(Byte) /\ Len(SubSeq(buf, r + 1, w)) = w - r
              /\ \A i \in 1..(w - r) : SubSeq(buf, r + 1, w)[i] = buf[r + i]
          BY <1>w, SubSeqLemma
        <5> QED
          BY <2>5, <5>1, <5>2, SameSeq
    <3> QED
      BY <1>s, <2>6, <3>1 DEF Held
  <2> QED
    BY <1>r, <1>s, <1>w, <2>2, <2>4, <2>6, <2>7, <2>8 DEF HasRoom
<1> QED
  BY <1>1, <1>2, <1>3, <1>w

-----------------------------------------------------------------------------
\* Data written behind the readable bytes, and in front of them.
LEMMA WriteBehind ==
    ASSUME NEW buf \in Seq(Byte), NEW r \in Nat, NEW w \in Nat, r <= w,
           NEW data \in Seq(Byte), w + Len(data) <= Len(buf)
    PROVE  SubSeq(Overwrite(buf, w, data), r + 1, w + Len(data)) = SubSeq(buf, r + 1, w) \o data
PROOF
<1> DEFINE new == Overwrite(buf, w, data)
           old == SubSeq(buf, r + 1, w)
<1>n. Len(data) \in Nat /\ w + Len(data) \in Nat /\ r <= w + Len(data) /\ w <= Len(buf)
  OBVIOUS
<1>1. /\ new \in Seq(Byte) /\ Len(new) = Len(buf)
      /\ \A i \in 1..Len(buf) : new[i] = IF i \in (w + 1)..(w + Len(data)) THEN data[i - w] ELSE buf[i]
  BY OverwriteLemma
<1>2. old \in Seq(Byte) /\ Len(old) = w - r /\ \A i \in 1..(w - r) : old[i] = buf[r + i]
  BY <1>n, SubSeqLemma
<1> HIDE DEF new, old
<1>3. /\ SubSeq(new, r + 1, w + Len(data)) \in Seq(Byte)
      /\ Len(SubSeq(new, r + 1, w + Len(data))) = (w + Len(data)) - r
      /\ \A i \in 1..((w + Len(data)) - r) : SubSeq(new, r + 1, w + Len(data))[i] = new[r + i]
  <2>1. w + Len(data) <= Len(new)
    BY <1>1
  <2> QED
    BY <1>1, <1>n, <2>1, SubSeqLemma
<1>4. /\ old \o data \in Seq(Byte) /\ Len(old \o data) = (w - r) + Len(data)
      /\ \A i \in 1..((w - r) + Len(data)) :
            (old \o data)[i] = IF i <= w - r THEN old[i] ELSE data[i - (w - r)]
  <2>1. /\ old \o data \in Seq(Byte) /\ Len(old \o data) = Len(old) + Len(data)
        /\ \A i \in 1..(Len(old) + Len(data)) :
              (old \o data)[i] = IF i <= Len(old) THEN old[i] ELSE data[i - Len(old)]
    BY <1>2, ConcatLemma
  <2> QED
    BY <1>2, <2>1
<1>5. \A i \in 1..((w + Len(data)) - r) : new[r + i] = (old \o data)[i]
  <2> SUFFICES ASSUME NEW i \in 1..((w + Len(data)) - r) PROVE new[r + i] = (old \o data)[i]
    OBVIOUS
  <2>1. r + i \in 1..Len(buf) /\ i \in 1..((w - r) + Len(data)) /\ i \in Int /\ w - r \in Int
    BY <1>n
  <2>2. CASE i <= w - r
    <3>1. ~(r + i \in (w + 1)..(w + Len(data))) /\ i \in 1..(w - r)
      BY <2>2
    <3> QED
      BY <1>1, <1>2, <1>4, <2>1, <2>2, <3>1
  <2>3. CASE ~(i <= w - r)
    <3>1. r + i \in (w + 1)..(w + Len(data)) /\ (r + i) - w = i - (w - r)
      BY <1>n, <2>1, <2>3
    <3>2. new[r + i] = data[(r + i) - w]
      BY <1>1, <2>1, <3>1
    <3> QED
      BY <1>4, <2>1, <2>3, <3>1, <3>2
  <2> QED
    BY <2>2, <2>3
<1>6. Len(SubSeq(new, r + 1, w + Len(data))) = Len(old \o data)
  BY <1>3, <1>4, <1>n
<1> QED
  BY <1>3, <1>4, <1>5, <1>6, SameSeq DEF new, old

\* Data written in front of the readable bytes.
LEMMA WriteInFront ==
    ASSUME NEW buf \in Seq(Byte), NEW r \in Nat, NEW w \in Nat, r <= w, w <= Len(buf),
           NEW data \in Seq(Byte), Len(data) <= r
    PROVE  SubSeq(Overwrite(buf, r - Len(data), data), (r - Len(data)) + 1, w) = data \o SubSeq(buf, r + 1, w)
PROOF
<1> DEFINE at == r - Len(data)
           new == Overwrite(buf, at, data)
           old == SubSeq(buf, r + 1, w)
<1>n. at \in Nat /\ at <= w /\ Len(data) \in Nat /\ at + Len(data) = r
  OBVIOUS
<1>2. old \in Seq(Byte) /\ Len(old) = w - r /\ \A i \in 1..(w - r) : old[i] = buf[r + i]
  BY SubSeqLemma
<1> HIDE DEF at, old
<1>1. /\ new \in Seq(Byte) /\ Len(new) = Len(buf)
      /\ \A i \in 1..Len(buf) : new[i] = IF i \in (at + 1)..(at + Len(data)) THEN data[i - at] ELSE buf[i]
  BY <1>n, OverwriteLemma
<1> HIDE DEF new
<1>3. /\ SubSeq(new, at + 1, w) \in Seq(Byte) /\ Len(SubSeq(new, at + 1, w)) = w - at
      /\ \A i \in 1..(w - at) : SubSeq(new, at + 1, w)[i] = new[at + i]
  BY <1>1, <1>n, SubSeqLemma
<1>4. /\ data \o old \in Seq(Byte) /\ Len(data \o old) = Len(data) + (w - r)
      /\ \A i \in 1..(Len(data) + (w - r)) :
            (data \o old)[i] = IF i <= Len(data) THEN data[i] ELSE old[i - Len(data)]
  <2>1. /\ data \o old \in Seq(Byte) /\ Len(data \o old) = Len(data) + Len(old)
        /\ \A i \in 1..(Len(data) + Len(old)) :
              (data \o old)[i] = IF i <= Len(data) THEN data[i] ELSE old[i - Len(data)]
    BY <1>2, ConcatLemma
  <2> QED
    BY <1>2, <2>1
<1>5. \A i \in 1..(w - at) : new[at + i] = (data \o old)[i]
  <2> SUFFICES ASSUME NEW i \in 1..(w - at) PROVE new[at + i] = (data \o old)[i]
    OBVIOUS
  <2>1. at + i \in 1..Len(buf) /\ i \in 1..(Len(data) + (w - r)) /\ (at + i) - at = i /\ i \in Int
    BY <1>n
  <2>2. CASE i <= Len(data)
    <3>1. at + i \in (at + 1)..(at + Len(data))
      BY <1>n, <2>2
    <3>2. new[at + i] = data[(at + i) - at]
      BY <1>1, <2>1, <3>1
    <3> QED
      BY <1>4, <2>1, <2>2, <3>2
  <2>3. CASE ~(i <= Len(data))
    <3>1. ~(at + i \in (at + 1)..(at + Len(data))) /\ i - Len(data) \in 1..(w - r) /\ r + (i - Len(data)) = at + i
      BY <1>n, <2>1, <2>3
    <3>2. new[at + i] = buf[at + i] /\ old[i - Len(data)] = buf[r + (i - Len(data))]
      BY <1>1, <1>2, <2>1, <3>1
    <3> QED
      BY <1>4, <2>1, <2>3, <3>1, <3>2
  <2> QED
    BY <2>2, <2>3
<1>6. Len(SubSeq(new, at + 1, w)) = Len(data \o old)
  <2>1. w - at = Len(data) + (w - r)
    BY <1>n
  <2> QED
    BY <1>3, <1>4, <2>1
<1> QED
  BY <1>3, <1>4, <1>5, <1>6, SameSeq DEF new, old, at

\* append adds its data at the back and grows the vector only for want of room.
HasAppended(s, data, t) ==
    /\ WellFormed(t)
    /\ Held(t) = Held(s) \o data
    /\ t.w - t.r = (s.w - s.r) + Len(data)
    /\ Len(t.buf) > Len(s.buf) => kCheapPrepend + (s.w - s.r) + Len(data) > Len(s.buf)

\* append has the effect stated above on every well-formed state.
LEMMA AppendLemma ==
    ASSUME NEW s, WellFormed(s), NEW data \in Seq(Byte)
    PROVE  HasAppended(s, data, Appended(s, data))
PROOF
<1>r. PICK room : room = ensureWritableBytes(s, Len(data))
  OBVIOUS
<1>t. PICK t : t = Appended(s, data)
  OBVIOUS
<1>1. Len(data) \in Nat
  OBVIOUS
<1>2. HasRoom(s, Len(data), room)
  BY <1>r, <1>1, SpaceLemma
<1>3. t = State(Overwrite(room.buf, room.w, data), room.r, room.w + Len(data))
  BY <1>r, <1>t DEF Appended
<1>4. /\ room.buf \in Seq(Byte) /\ room.r \in Nat /\ room.w \in Nat /\ room.r <= room.w
      /\ kCheapPrepend <= Len(room.buf) /\ room.w + Len(data) <= Len(room.buf)
  BY <1>2 DEF HasRoom, WellFormed
<1>5. /\ Overwrite(room.buf, room.w, data) \in Seq(Byte)
      /\ Len(Overwrite(room.buf, room.w, data)) = Len(room.buf)
  BY <1>4, OverwriteLemma
<1>6. t.buf = Overwrite(room.buf, room.w, data) /\ t.r = room.r /\ t.w = room.w + Len(data)
  BY <1>3 DEF State
<1>7. WellFormed(t)
  BY <1>1, <1>4, <1>5, <1>6 DEF WellFormed
<1>8. Held(t) = Held(s) \o data
  <2>1. SubSeq(Overwrite(room.buf, room.w, data), room.r + 1, room.w + Len(data))
          = SubSeq(room.buf, room.r + 1, room.w) \o data
    BY <1>4, WriteBehind
  <2> QED
    BY <1>2, <1>6, <2>1 DEF Held, HasRoom
<1>9. t.w - t.r = (s.w - s.r) + Len(data)
  <2>1. (room.w + Len(data)) - room.r = (room.w - room.r) + Len(data)
    BY <1>1, <1>4
  <2> QED
    BY <1>2, <1>6, <2>1 DEF HasRoom
<1>10. Len(t.buf) = Len(room.buf)
  BY <1>5, <1>6
<1> QED
  BY <1>2, <1>t, <1>7, <1>8, <1>9, <1>10 DEF HasRoom, HasAppended

-----------------------------------------------------------------------------
\* Dropping n bytes at the front is moving the reader index by n.
LEMMA DropLemma ==
    ASSUME NEW buf \in Seq(Byte), NEW r \in Nat, NEW w \in Nat, r <= w, w <= Len(buf),
           NEW n \in Nat, n <= w - r
    PROVE  SubSeq(SubSeq(buf, r + 1, w), n + 1, w - r) = SubSeq(buf, (r + n) + 1, w)
PROOF
<1>1. PICK old : old = SubSeq(buf, r + 1, w)
  OBVIOUS
<1>2. old \in Seq(Byte) /\ Len(old) = w - r /\ \A i \in 1..(w - r) : old[i] = buf[r + i]
  BY <1>1, SubSeqLemma
<1>3. w - r \in Nat /\ r + n \in Nat /\ r + n <= w
  OBVIOUS
<1>4. /\ SubSeq(old, n + 1, w - r) \in Seq(Byte)
      /\ Len(SubSeq(old, n + 1, w - r)) = (w - r) - n
      /\ \A i \in 1..((w - r) - n) : SubSeq(old, n + 1, w - r)[i] = old[n + i]
  BY <1>2, <1>3, SubSeqLemma
<1>5. /\ SubSeq(buf, (r + n) + 1, w) \in Seq(Byte)
      /\ Len(SubSeq(buf, (r + n) + 1, w)) = w - (r + n)
      /\ \A i \in 1..(w - (r + n)) : SubSeq(buf, (r + n) + 1, w)[i] = buf[(r + n) + i]
  BY <1>3, SubSeqLemma
<1>6. (w - r) - n = w - (r + n)
  OBVIOUS
<1>7. ASSUME NEW i \in 1..((w - r) - n) PROVE old[n + i] = buf[(r + n) + i]
  <2>1. n + i \in 1..(w - r) /\ r + (n + i) = (r + n) + i
    OBVIOUS
  <2> QED
    BY <1>2, <2>1
<1>8. \A i \in 1..Len(SubSeq(old, n + 1, w - r)) :
         SubSeq(old, n + 1, w - r)[i] = SubSeq(buf, (r + n) + 1, w)[i]
  BY <1>4, <1>5, <1>6, <1>7
<1>9. SubSeq(old, n + 1, w - r) = SubSeq(buf, (r + n) + 1, w)
  BY <1>4, <1>5, <1>6, <1>8, SameSeq
<1> QED
  BY <1>1, <1>9

\* What readv put into the two areas is, joined, what was read.
LEMMA SplitLemma ==
    ASSUME NEW data \in Seq(Byte), NEW k \in Nat, k <= Len(data), NEW held \in Seq(Byte)
    PROVE  /\ SubSeq(data, 1, k) \in Seq(Byte) /\ Len(SubSeq(data, 1, k)) = k
           /\ SubSeq(data, k + 1, Len(data)) \in Seq(Byte)
           /\ Len(SubSeq(data, k + 1, Len(data))) = Len(data) - k
           /\ (held \o SubSeq(data, 1, k)) \o SubSeq(data, k + 1, Len(data)) = held \o data
PROOF
<1>1. PICK first, rest : first = SubSeq(data, 0 + 1, k) /\ rest = SubSeq(data, k + 1, Len(data))
  OBVIOUS
<1>n. Len(data) \in Nat /\ Len(held) \in Nat /\ 0 \in Nat /\ 0 <= k
  OBVIOUS
<1>2. first \in Seq(Byte) /\ Len(first) = k - 0 /\ \A i \in 1..(k - 0) : first[i] = data[0 + i]
  BY <1>1, <1>n, SubSeqLemma
<1>3. /\ rest \in Seq(Byte) /\ Len(rest) = Len(data) - k
      /\ \A i \in 1..(Len(data) - k) : rest[i] = data[k + i]
  BY <1>1, <1>n, SubSeqLemma
<1>4. /\ held \o first \in Seq(Byte) /\ Len(held \o first) = Len(held) + Len(first)
      /\ \A i \in 1..(Len(held) + Len(first)) :
            (held \o first)[i] = IF i <= Len(held) THEN held[i] ELSE first[i - Len(held)]
  BY <1>2, ConcatLemma
<1>5. PICK front \in Seq(Byte) : front = held \o first
  BY <1>4
<1>6. /\ front \o rest \in Seq(Byte) /\ Len(front \o rest) = Len(front) + Len(rest)
      /\ \A i \in 1..(Len(front) + Len(rest)) :
            (front \o rest)[i] = IF i <= Len(front) THEN front[i] ELSE rest[i - Len(front)]
  BY <1>3, ConcatLemma
<1>7. /\ held \o data \in Seq(Byte) /\ Len(held \o data) = Len(held) + Len(data)
      /\ \A i \in 1..(Len(held) + Len(data)) :
            (held \o data)[i] = IF i <= Len(held) THEN held[i] ELSE data[i - Len(held)]
  BY ConcatLemma
<1>8. Len(front) = Len(held) + k /\ Len(front) + Len(rest) = Len(held) + Len(data)
  <2>1. Len(front) = Len(held) + Len(first)
    BY <1>4, <1>5
  <2>2. Len(first) = k
    BY <1>2
  <2>3. Len(rest) = Len(data) - k
    BY <1>3
  <2> QED
    BY <1>n, <2>1, <2>2, <2>3
<1>9. ASSUME NEW i \in 1..(Len(held) + Len(data)) PROVE (front \o rest)[i] = (held \o data)[i]
  <2>n. i \in Nat /\ i >= 1 /\ i <= Len(held) + Len(data)
    BY <1>n
  <2>1. CASE i <= Len(held)
    BY <1>4, <1>5, <1>6, <1>7, <1>8, <1>n, <1>2, <2>n, <2>1
  <2>2. CASE ~(i <= Len(held)) /\ i <= Len(held) + k
    <3>1. i - Len(held) \in 1..(k - 0) /\ 0 + (i - Len(held)) = i - Len(held) /\ i <= Len(front)
      BY <1>8, <1>n, <2>n, <2>2
    <3>2. (front \o rest)[i] = front[i]
      BY <1>6, <1>8, <3>1
    <3>3. front[i] = first[i - Len(held)]
      BY <1>2, <1>4, <1>5, <1>n, <2>n, <2>2
    <3>4. first[i - Len(held)] = data[i - Len(held)]
      BY <1>2, <3>1
    <3> QED
      BY <1>7, <2>2, <3>2, <3>3, <3>4
  <2>3. CASE ~(i <= Len(held) + k)
    <3>1. /\ i - Len(front) \in 1..(Len(data) - k) /\ k + (i - Len(front)) = i - Len(held)
          /\ ~(i <= Len(front)) /\ ~(i <= Len(held))
      BY <1>8, <1>n, <2>n, <2>3
    <3>2. (front \o rest)[i] = rest[i - Len(front)]
      BY <1>6, <1>8, <3>1
    <3>3. rest[i - Len(front)] = data[i - Len(held)]
      BY <1>3, <3>1
    <3> QED
      BY <1>7, <3>1, <3>2, <3>3
  <2> QED
    BY <2>1, <2>2, <2>3
<1>10. front \o rest = held \o data
  BY <1>6, <1>7, <1>8, <1>9, SameSeq
<1>11. k - 0 = k /\ 0 + 1 = 1
  OBVIOUS
<1>12. SubSeq(data, 1, k) = first
  BY <1>1, <1>11
<1>13. Len(first) = k
  BY <1>2, <1>11
<1>14. (held \o first) \o rest = held \o data
  BY <1>5, <1>10, Zenon
<1> QED
  BY <1>1, <1>2, <1>3, <1>12, <1>13, <1>14, Zenon

-----------------------------------------------------------------------------
\* What a call hands over is a sequence of bytes.
LEMMA ChunkLemma ==
    ASSUME NEW data \in Chunk
    PROVE  data \in Seq(Byte)
PROOF
<1>1. MaxChunk \in Nat
  BY BufferAssumption
<1>2. PICK n \in 0..MaxChunk : data \in [1..n -> Byte]
  BY DEF Chunk
<1>3. n \in Nat
  BY <1>1
<1> QED
  BY <1>2, <1>3

\* What the invariant says of the three variables.
LEMMA NowLemma ==
    ASSUME IInv
    PROVE  /\ buffer_ \in Seq(Byte) /\ readerIndex_ \in Nat /\ writerIndex_ \in Nat
           /\ readerIndex_ <= writerIndex_ /\ writerIndex_ <= Len(buffer_)
           /\ kCheapPrepend <= Len(buffer_) /\ kCheapPrepend \in Nat
           /\ Now.buf = buffer_ /\ Now.r = readerIndex_ /\ Now.w = writerIndex_
           /\ Held(Now) = Readable
           /\ Readable \in Seq(Byte) /\ Len(Readable) = writerIndex_ - readerIndex_
PROOF
<1>1. Now.buf = buffer_ /\ Now.r = readerIndex_ /\ Now.w = writerIndex_
  BY DEF Now, State
<1>2. /\ buffer_ \in Seq(Byte) /\ readerIndex_ \in Nat /\ writerIndex_ \in Nat
      /\ readerIndex_ <= writerIndex_ /\ writerIndex_ <= Len(buffer_)
      /\ kCheapPrepend <= Len(buffer_)
  BY <1>1 DEF IInv, WellFormed
<1>3. Held(Now) = Readable
  BY <1>1 DEF Held, Readable
<1>4. Readable \in Seq(Byte) /\ Len(Readable) = writerIndex_ - readerIndex_
  BY <1>2, SubSeqLemma DEF Readable
<1> QED
  BY <1>1, <1>2, <1>3, <1>4, BufferAssumption

\* A call that ends in a well-formed state keeps the invariant.
LEMMA BecomeLemma ==
    ASSUME NEW t, WellFormed(t), Become(t)
    PROVE  IInv' /\ Readable' = Held(t)
PROOF
<1>1. buffer_' = t.buf /\ readerIndex_' = t.r /\ writerIndex_' = t.w
  BY DEF Become
<1>2. Now'.buf = t.buf /\ Now'.r = t.r /\ Now'.w = t.w
  BY <1>1 DEF Now, State
<1> QED
  BY <1>1, <1>2 DEF IInv, WellFormed, Held, Readable

\* What the steps below each show.
Grows == Size(buffer_') > Size(buffer_)
            => kCheapPrepend + (writerIndex_' - readerIndex_') > Size(buffer_)

\* append keeps the invariant and puts its data at the back.
LEMMA AppendStep ==
    ASSUME IInv, NEW data \in Chunk, Append_(data)
    PROVE  IInv' /\ Grows /\ Readable' = Readable \o data
PROOF
<1>1. data \in Seq(Byte)
  BY ChunkLemma
<1>2. PICK t : t = Appended(Now, data)
  OBVIOUS
<1>3. HasAppended(Now, data, t)
  BY <1>1, <1>2, AppendLemma DEF IInv
<1>4. Become(t)
  BY <1>2 DEF Append_, Now
<1>5. WellFormed(t)
  BY <1>3 DEF HasAppended
<1>6. IInv' /\ Readable' = Held(t)
  BY <1>4, <1>5, BecomeLemma
<1>7. Held(t) = Readable \o data
  BY <1>3, NowLemma DEF HasAppended
<1>8. Grows
  BY <1>3, <1>4, NowLemma DEF HasAppended, Become, Grows, Size
<1> QED
  BY <1>6, <1>7, <1>8

\* readFd does, whether the data fits or spills into extrabuf.
LEMMA ReadFdStep ==
    ASSUME IInv, NEW data \in Chunk, readFd(data)
    PROVE  IInv' /\ Grows /\ Readable' = Readable \o data
PROOF
<1>1. data \in Seq(Byte) /\ Len(data) \in Nat
  BY ChunkLemma
<1>2. PICK k \in Nat : k = Len(buffer_) - writerIndex_
  BY NowLemma
<1>w. writableBytes = k
  BY <1>2 DEF writableBytes, Size
<1>3. CASE FitsWritable(data)
  <2>1. Become(State(Overwrite(buffer_, writerIndex_, data), readerIndex_, writerIndex_ + Len(data)))
    BY <1>3 DEF readFd
  <2>2. PICK t : t = State(Overwrite(buffer_, writerIndex_, data), readerIndex_, writerIndex_ + Len(data))
    OBVIOUS
  <2>3. /\ t.buf = Overwrite(buffer_, writerIndex_, data) /\ t.r = readerIndex_
        /\ t.w = writerIndex_ + Len(data)
    BY <2>2 DEF State
  <2>4. writerIndex_ + Len(data) <= Len(buffer_)
    BY <1>1, <1>2, <1>3, <1>w, NowLemma DEF FitsWritable
  <2>5. /\ Overwrite(buffer_, writerIndex_, data) \in Seq(Byte)
        /\ Len(Overwrite(buffer_, writerIndex_, data)) = Len(buffer_)
    BY <1>1, NowLemma, OverwriteLemma
  <2>6. WellFormed(t)
    BY <1>1, <2>3, <2>4, <2>5, NowLemma DEF WellFormed
  <2>7. Held(t) = Readable \o data
    <3>1. SubSeq(Overwrite(buffer_, writerIndex_, data), readerIndex_ + 1, writerIndex_ + Len(data))
            = SubSeq(buffer_, readerIndex_ + 1, writerIndex_) \o data
      <4>1. /\ buffer_ \in Seq(Byte) /\ readerIndex_ \in Nat /\ writerIndex_ \in Nat
            /\ readerIndex_ <= writerIndex_
        BY NowLemma
      <4> QED
        BY <1>1, <2>4, <4>1, WriteBehind
    <3>2. Held(t) = SubSeq(t.buf, t.r + 1, t.w)
      BY DEF Held
    <3>3. SubSeq(t.buf, t.r + 1, t.w) = Readable \o data
      BY <2>3, <3>1, Zenon DEF Readable
    <3> QED
      BY <3>2, <3>3, Zenon
  <2>8. Become(t)
    BY <2>1, <2>2
  <2>9. IInv' /\ Readable' = Held(t)
    BY <2>6, <2>8, BecomeLemma
  <2>10. Grows
    BY <2>3, <2>5, <2>8, NowLemma DEF Become, Grows, Size
  <2> QED
    BY <2>7, <2>9, <2>10
<1>4. CASE ~FitsWritable(data)
  <2>1. k <= Len(data)
    BY <1>1, <1>4, <1>w DEF FitsWritable
  <2>2. PICK first, rest : first = SubSeq(data, 1, k) /\ rest = SubSeq(data, k + 1, Len(data))
    OBVIOUS
  <2>3. /\ first \in Seq(Byte) /\ Len(first) = k /\ rest \in Seq(Byte)
        /\ (Readable \o first) \o rest = Readable \o data
    BY <1>1, <2>1, <2>2, NowLemma, SplitLemma
  <2>4. PICK f : f = Filled(data)
    OBVIOUS
  <2>5. PICK t : t = Appended(f, rest)
    OBVIOUS
  <2>6. Become(t)
    BY <1>4, <1>w, <2>2, <2>4, <2>5 DEF readFd
  <2>7. f.buf = Overwrite(buffer_, writerIndex_, first) /\ f.r = readerIndex_ /\ f.w = Len(buffer_)
    BY <1>w, <2>2, <2>4 DEF Filled, State, Size
  <2>8. /\ Overwrite(buffer_, writerIndex_, first) \in Seq(Byte)
        /\ Len(Overwrite(buffer_, writerIndex_, first)) = Len(buffer_)
    BY <2>3, NowLemma, OverwriteLemma
  <2>9. writerIndex_ + Len(first) = Len(buffer_)
    BY <1>2, <2>3, NowLemma
  <2>10. WellFormed(f)
    BY <2>7, <2>8, NowLemma DEF WellFormed
  <2>11. Held(f) = Readable \o first
    <3>1. SubSeq(Overwrite(buffer_, writerIndex_, first), readerIndex_ + 1, writerIndex_ + Len(first))
            = SubSeq(buffer_, readerIndex_ + 1, writerIndex_) \o first
      <4>1. /\ buffer_ \in Seq(Byte) /\ readerIndex_ \in Nat /\ writerIndex_ \in Nat
            /\ readerIndex_ <= writerIndex_
        BY NowLemma
      <4>2. first \in Seq(Byte) /\ writerIndex_ + Len(first) <= Len(buffer_)
        BY <2>3, <2>9, <4>1
      <4> QED
        BY <4>1, <4>2, WriteBehind
    <3>2. Held(f) = SubSeq(f.buf, f.r + 1, f.w)
      BY DEF Held
    <3>3. SubSeq(f.buf, f.r + 1, f.w) = Readable \o first
      BY <2>7, <2>9, <3>1, Zenon DEF Readable
    <3> QED
      BY <3>2, <3>3, Zenon
  <2>12. HasAppended(f, rest, t)
    BY <2>3, <2>5, <2>10, AppendLemma
  <2>13. WellFormed(t) /\ Held(t) = Readable \o data
    BY <2>3, <2>11, <2>12 DEF HasAppended
  <2>14. IInv' /\ Readable' = Held(t)
    BY <2>6, <2>13, BecomeLemma
  <2>15. Grows
    BY <2>6, <2>7, <2>8, <2>12, NowLemma DEF HasAppended, Become, Grows, Size
  <2> QED
    BY <2>13, <2>14, <2>15
<1> QED
  BY <1>3, <1>4

\* prepend keeps the invariant and puts its data at the front.
LEMMA PrependStep ==
    ASSUME IInv, NEW data \in Chunk, prepend(data)
    PROVE  IInv' /\ Grows /\ Readable' = data \o Readable
PROOF
<1>1. data \in Seq(Byte) /\ Len(data) \in Nat
  BY ChunkLemma
<1>2. Len(data) <= readerIndex_
  BY DEF prepend, MayPrepend, prependableBytes
<1>3. PICK at \in Nat : at = readerIndex_ - Len(data)
  BY <1>1, <1>2, NowLemma
<1>4. PICK t : t = State(Overwrite(buffer_, at, data), at, writerIndex_)
  OBVIOUS
<1>5. t.buf = Overwrite(buffer_, at, data) /\ t.r = at /\ t.w = writerIndex_
  BY <1>4 DEF State
<1>6. Become(t)
  BY <1>3, <1>5 DEF prepend, Become
<1>7. Overwrite(buffer_, at, data) \in Seq(Byte) /\ Len(Overwrite(buffer_, at, data)) = Len(buffer_)
  BY <1>1, NowLemma, OverwriteLemma
<1>8. at <= writerIndex_
  BY <1>1, <1>2, <1>3, NowLemma
<1>9. WellFormed(t)
  BY <1>5, <1>7, <1>8, NowLemma DEF WellFormed
<1>10. Held(t) = data \o Readable
  <2>1. SubSeq(Overwrite(buffer_, readerIndex_ - Len(data), data), (readerIndex_ - Len(data)) + 1, writerIndex_)
          = data \o SubSeq(buffer_, readerIndex_ + 1, writerIndex_)
    <3>1. /\ buffer_ \in Seq(Byte) /\ readerIndex_ \in Nat /\ writerIndex_ \in Nat
          /\ readerIndex_ <= writerIndex_ /\ writerIndex_ <= Len(buffer_)
      BY NowLemma
    <3> QED
      BY <1>1, <1>2, <3>1, WriteInFront
  <2>2. Held(t) = SubSeq(t.buf, t.r + 1, t.w)
    BY DEF Held
  <2>3. SubSeq(t.buf, t.r + 1, t.w) = data \o Readable
    BY <1>3, <1>5, <2>1, Zenon DEF Readable
  <2> QED
    BY <2>2, <2>3, Zenon
<1>11. IInv' /\ Readable' = Held(t)
  BY <1>6, <1>9, BecomeLemma
<1>12. Grows
  BY <1>5, <1>6, <1>7, NowLemma DEF Become, Grows, Size
<1> QED
  BY <1>10, <1>11, <1>12

\* retrieveAll keeps the invariant and takes every byte.
LEMMA RetrieveAllStep ==
    ASSUME IInv, retrieveAll
    PROVE  IInv' /\ Grows /\ Readable' = SubSeq(Readable, Len(Readable) + 1, Len(Readable))
PROOF
<1>1. buffer_' = buffer_ /\ readerIndex_' = kCheapPrepend /\ writerIndex_' = kCheapPrepend
  BY DEF retrieveAll
<1>2. Now'.buf = buffer_ /\ Now'.r = kCheapPrepend /\ Now'.w = kCheapPrepend
  BY <1>1 DEF Now, State
<1>3. IInv'
  BY <1>2, NowLemma DEF IInv, WellFormed
<1>4. buffer_ \in Seq(Byte) /\ kCheapPrepend \in Nat /\ kCheapPrepend <= Len(buffer_)
  BY NowLemma
<1>5. Readable' = SubSeq(buffer_, kCheapPrepend + 1, kCheapPrepend)
  BY <1>1 DEF Readable
<1>6. SubSeq(buffer_, kCheapPrepend + 1, kCheapPrepend) = <<>>
  BY <1>4
<1>7. SubSeq(Readable, Len(Readable) + 1, Len(Readable)) = <<>>
  BY NowLemma
<1>8. Grows
  BY <1>1, <1>4 DEF Grows, Size
<1> QED
  BY <1>3, <1>5, <1>6, <1>7, <1>8

\* retrieve keeps the invariant and takes bytes from the front.
LEMMA RetrieveStep ==
    ASSUME IInv, NEW len \in 0..readableBytes, retrieve(len)
    PROVE  IInv' /\ Grows /\ \E n \in 0..Len(Readable) : Readable' = SubSeq(Readable, n + 1, Len(Readable))
PROOF
<1>1. CASE len < readableBytes
  <2>1. buffer_' = buffer_ /\ readerIndex_' = readerIndex_ + len /\ writerIndex_' = writerIndex_
    BY <1>1 DEF retrieve
  <2>2. /\ buffer_ \in Seq(Byte) /\ readerIndex_ \in Nat /\ writerIndex_ \in Nat
        /\ readerIndex_ <= writerIndex_ /\ writerIndex_ <= Len(buffer_)
        /\ Len(Readable) = writerIndex_ - readerIndex_
    BY NowLemma
  <2>3. len \in Nat /\ len <= writerIndex_ - readerIndex_
    BY <1>1, <2>2 DEF readableBytes
  <2>4. Now'.buf = buffer_ /\ Now'.r = readerIndex_ + len /\ Now'.w = writerIndex_
    BY <2>1 DEF Now, State
  <2>5. IInv'
    BY <2>2, <2>3, <2>4, NowLemma DEF IInv, WellFormed
  <2>6. Readable' = SubSeq(buffer_, (readerIndex_ + len) + 1, writerIndex_)
    BY <2>1 DEF Readable
  <2>7. SubSeq(SubSeq(buffer_, readerIndex_ + 1, writerIndex_), len + 1, writerIndex_ - readerIndex_)
          = SubSeq(buffer_, (readerIndex_ + len) + 1, writerIndex_)
    BY <2>2, <2>3, DropLemma
  <2>8. Readable' = SubSeq(Readable, len + 1, Len(Readable))
    BY <2>2, <2>6, <2>7 DEF Readable
  <2>9. len \in 0..Len(Readable)
    BY <2>2, <2>3
  <2>10. Grows
    BY <2>1, <2>2 DEF Grows, Size
  <2> QED
    BY <2>5, <2>8, <2>9, <2>10
<1>2. CASE ~(len < readableBytes)
  <2>1. retrieveAll
    BY <1>2 DEF retrieve
  <2>2. Len(Readable) \in 0..Len(Readable)
    BY NowLemma
  <2> QED
    BY <2>1, <2>2, RetrieveAllStep
<1> QED
  BY <1>1, <1>2

-----------------------------------------------------------------------------
\* The invariant holds at first.
LEMMA InitIInv ==
    ASSUME Init
    PROVE  IInv /\ Readable = <<>>
PROOF
<1>1. PICK n \in Nat : n = kCheapPrepend + InitialSize
  BY BufferAssumption
<1>2. /\ buffer_ = [i \in 1..n |-> Zero] /\ readerIndex_ = kCheapPrepend
      /\ writerIndex_ = kCheapPrepend
  BY <1>1 DEF Init
<1>3. buffer_ \in Seq(Byte) /\ Len(buffer_) = n
  BY <1>1, <1>2, BufferAssumption
<1>4. kCheapPrepend \in Nat /\ kCheapPrepend <= n
  BY <1>1, BufferAssumption
<1>5. IInv
  BY <1>2, <1>3, <1>4 DEF IInv, WellFormed, Now, State
<1>6. SubSeq(buffer_, kCheapPrepend + 1, kCheapPrepend) = <<>>
  BY <1>3, <1>4
<1> QED
  BY <1>2, <1>5, <1>6 DEF Readable

\* A step that changes nothing keeps everything.
LEMMA StutterStep ==
    ASSUME IInv, UNCHANGED vars
    PROVE  IInv' /\ Grows /\ UNCHANGED Readable
PROOF
<1>1. buffer_' = buffer_ /\ readerIndex_' = readerIndex_ /\ writerIndex_' = writerIndex_
  BY DEF vars
<1>2. Now' = Now
  BY <1>1 DEF Now, State
<1>3. Len(buffer_) \in Nat
  BY NowLemma
<1> QED
  BY <1>1, <1>2, <1>3 DEF IInv, Readable, Grows, Size

\* Every step keeps the invariant, grows only for want of room and is, seen
\* through Readable, a step of the queue or none.
LEMMA StepLemma ==
    ASSUME IInv, [Next]_vars
    PROVE  IInv' /\ Grows /\ [Queue!Next]_Readable
PROOF
<1>1. ASSUME NEW data \in Chunk, Append_(data) \/ readFd(data)
      PROVE  IInv' /\ Grows /\ [Queue!Next]_Readable
  <2>1. IInv' /\ Grows /\ Readable' = Readable \o data
    BY <1>1, AppendStep, ReadFdStep
  <2>2. Queue!PushBack
    BY <2>1 DEF Queue!PushBack, Queue!Chunk, Chunk
  <2> QED
    BY <2>1, <2>2 DEF Queue!Next
<1>2. ASSUME NEW data \in Chunk, prepend(data)
      PROVE  IInv' /\ Grows /\ [Queue!Next]_Readable
  <2>1. IInv' /\ Grows /\ Readable' = data \o Readable
    BY <1>2, PrependStep
  <2>2. Queue!PushFront
    BY <2>1 DEF Queue!PushFront, Queue!Chunk, Chunk
  <2> QED
    BY <2>1, <2>2 DEF Queue!Next
<1>3. ASSUME NEW len \in 0..readableBytes, retrieve(len)
      PROVE  IInv' /\ Grows /\ [Queue!Next]_Readable
  BY <1>3, RetrieveStep DEF Queue!Next, Queue!PopFront
<1>4. CASE retrieveAll
  <2>1. IInv' /\ Grows /\ Readable' = SubSeq(Readable, Len(Readable) + 1, Len(Readable))
    BY <1>4, RetrieveAllStep
  <2>2. Len(Readable) \in 0..Len(Readable)
    BY NowLemma
  <2>3. Queue!PopFront
    BY <2>1, <2>2 DEF Queue!PopFront
  <2> QED
    BY <2>1, <2>3 DEF Queue!Next
<1>5. CASE UNCHANGED vars
  BY <1>5, StutterStep
<1> QED
  BY <1>1, <1>2, <1>3, <1>4, <1>5 DEF Next

(* The indices stay in order and the prepend area stays inside the vector. *)
THEOREM BufferInvariant == Spec => []IInv
PROOF
<1>1. Init => IInv
  BY InitIInv
<1>2. IInv /\ [Next]_vars => IInv'
  BY StepLemma
<1> QED
  BY <1>1, <1>2, PTL DEF Spec

(* Reads, moves and growths leave a vector of bytes and two naturals: no   *)
(* index of Buffer.cpp, all of them size_t, wraps below zero.              *)
THEOREM TypeCorrect == Spec => []TypeOK
PROOF
<1>1. IInv => TypeOK
  BY NowLemma DEF TypeOK
<1> QED
  BY <1>1, BufferInvariant, PTL

(* The picture in Buffer.h holds after every sequence of calls.            *)
THEOREM IndicesAlwaysInOrder == Spec => []IndicesInOrder
PROOF
<1>1. IInv => IndicesInOrder
  BY NowLemma DEF IndicesInOrder, Size
<1> QED
  BY <1>1, BufferInvariant, PTL

(* makeSpace grows the vector only when moving the bytes cannot do.        *)
THEOREM GrowthIsNeeded == Spec => GrowsOnlyWhenFull
PROOF
<1>1. IInv /\ [Next]_vars => [Grows]_vars
  BY StepLemma
<1>2. Spec => [][Grows]_vars
  BY <1>1, BufferInvariant, PTL DEF Spec
<1> QED
  BY <1>2 DEF GrowsOnlyWhenFull, Grows

(* The buffer is a queue of bytes, for every size and every split of a     *)
(* read between the vector and extrabuf.                                   *)
THEOREM BufferIsQueue == Spec => QueueSpec
PROOF
<1>1. Init => Queue!Init
  BY InitIInv DEF Queue!Init
<1>2. IInv /\ [Next]_vars => [Queue!Next]_Readable
  BY StepLemma
<1>3. Spec => Queue!Spec
  BY <1>1, <1>2, BufferInvariant, PTL DEF Spec, Queue!Spec
<1> QED
  BY <1>3 DEF QueueSpec

=============================================================================
