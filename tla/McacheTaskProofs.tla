-------------------------- MODULE McacheTaskProofs --------------------------
(***************************************************************************)
(* The safety properties of McacheTask, for client streams of any length.  *)
(***************************************************************************)
EXTENDS McacheTask, SequenceTheorems, TLAPS

-----------------------------------------------------------------------------
(* The inductive invariant.                                                *)

\* What the worker has not taken yet, and the position of the line before it.
Stream == buffer \o arriving
Taken == sent - Len(Stream)

\* Of what a head announces, the lines behind the i-th of a stream are a body,
\* and what is not there is still owed.
Announced(head, stream, i, missing) ==
    head.part = "head" =>
        /\ \A k \in 1..head.lines : i + k <= Len(stream) => stream[i + k].part = "body"
        /\ head.lines <= missing + (Len(stream) - i)

\* The body of the head in hand is what comes next.
OwnBody == Announced(headerItems_, Stream, 0, owed)

\* The client's lines come in order, a body behind each head that announces one.
StreamInv ==
    \A i \in 1..Len(Stream) : Stream[i].pos = Taken + i /\ Announced(Stream[i], Stream, i, owed)

Waiting == taskState_ = "WAIT_ENOUGH_DATA"
Forwarding == pc \in {"connect", "send", "body"}
Answering == pc \in {"await", "spin"}

\* The head in hand is the last line taken until its body goes with it.
HeadInv ==
    /\ Waiting => /\ headerItems_ \in Line /\ headerItems_.pos = Taken
                  /\ headerItems_.kind = "store" /\ OwnBody
    /\ Forwarding => /\ headerItems_ \in Line /\ headerItems_.pos = Taken
                     /\ headerItems_.kind = "store" =>
                           headerItems_.lines <= Len(buffer) /\ OwnBody
    /\ pc = "body" => headerItems_.kind = "store"
    /\ Answering => headerItems_ \in Line /\ headerItems_.pos <= Taken

TaskInv ==
    /\ pc \in {"idle", "enter"} =>
          CASE taskState_ = "BEGIN_NEW_TASK" -> headerItems_ = NoHead
            [] taskState_ = "WAIT_ENOUGH_DATA" -> headerItems_.kind = "store"
            [] taskState_ = "BAD" -> shut
            [] OTHER -> FALSE
    /\ Forwarding \/ Answering => ~Waiting

Below(seq, n) == \A i \in DOMAIN seq : seq[i].pos < n

Ordered(answers) ==
    \A i, j \in DOMAIN answers : i < j =>
        \/ answers[i].to.pos < answers[j].to.pos
        \/ /\ j = i + 1 /\ answers[i] = answers[j]
           /\ answers[i].to.kind = "store" /\ ~answers[i].ok

AnswersBelow(answers, n) == \A i \in DOMAIN answers : answers[i].to.pos < n

\* What was sent on, and answered, comes before what is in hand or waits.
OrderInv ==
    /\ Increasing(forwarded) /\ Below(forwarded, Taken + 1)
    /\ Waiting \/ pc \in {"connect", "send"} => Below(forwarded, Taken)
    /\ Ordered(replied) /\ AnswersBelow(replied, Taken + 1)
    /\ Waiting \/ Forwarding => AnswersBelow(replied, Taken)
    /\ Answering => AnswersBelow(replied, headerItems_.pos)

IInv == TypeOK /\ StreamInv /\ HeadInv /\ TaskInv /\ OrderInv

-----------------------------------------------------------------------------
(* Sequences of lines.                                                     *)

LEMMA LineType ==
    ASSUME NEW line \in Line
    PROVE  line.pos \in Nat /\ line.pos <= MaxLines /\ line.lines \in Nat /\ line.lines <= MaxBody
  BY LinesAssumption DEF Line

LEMMA BelowLemma ==
    ASSUME NEW seq \in Seq(Line), NEW m \in Int, NEW n \in Int, m <= n, Below(seq, m)
    PROVE  Below(seq, n)
<1>1. \A i \in DOMAIN seq : seq[i] \in Line
  OBVIOUS
<1> QED
  BY <1>1, LineType DEF Below

LEMMA AppendLemma ==
    ASSUME NEW seq \in Seq(Line), NEW line \in Line, NEW n \in Int, line.pos < n,
           Increasing(seq), Below(seq, line.pos)
    PROVE  Increasing(Append(seq, line)) /\ Below(Append(seq, line), n)
<1> DEFINE new == Append(seq, line)
<1>1. /\ new \in Seq(Line) /\ Len(seq) \in Nat /\ Len(new) = Len(seq) + 1
      /\ \A i \in 1..Len(seq) : new[i] = seq[i]
      /\ new[Len(seq) + 1] = line
  BY AppendProperties
<1>2. /\ DOMAIN seq = 1..Len(seq) /\ DOMAIN new = 1..(Len(seq) + 1)
      /\ \A i \in 1..Len(seq) : seq[i].pos \in Nat
      /\ line.pos \in Nat
  <2>1. \A i \in 1..Len(seq) : seq[i] \in Line
    BY ElementOfSeq
  <2> QED
    BY <1>1, <2>1, LenProperties, LineType
<1> HIDE DEF new
<1>3. Increasing(new)
  <2>1. SUFFICES ASSUME NEW i \in 1..(Len(new) - 1) PROVE new[i].pos < new[i + 1].pos
    BY DEF Increasing
  <2>2. CASE i = Len(seq)
    <3>1. new[i] = seq[i] /\ i \in DOMAIN seq /\ new[i + 1] = line
      BY <1>1, <1>2, <2>2
    <3> QED
      BY <3>1 DEF Below
  <2>3. CASE i # Len(seq)
    <3>1. i \in 1..(Len(seq) - 1) /\ i + 1 \in 1..Len(seq) /\ i \in 1..Len(seq)
      BY <1>1, <2>3
    <3> QED
      BY <1>1, <3>1 DEF Increasing
  <2> QED
    BY <2>2, <2>3
<1>4. Below(new, n)
  <2>1. SUFFICES ASSUME NEW i \in 1..(Len(seq) + 1) PROVE new[i].pos < n
    BY <1>2 DEF Below
  <2>2. CASE i = Len(seq) + 1
    BY <1>1, <2>2
  <2>3. CASE i # Len(seq) + 1
    <3>1. i \in 1..Len(seq)
      BY <1>1, <2>3
    <3>2. seq[i].pos < line.pos
      BY <1>2, <3>1 DEF Below
    <3> QED
      BY <1>1, <1>2, <3>1, <3>2
  <2> QED
    BY <2>2, <2>3
<1> QED
  BY <1>3, <1>4 DEF new

\* The lines from b + 1 on, sent behind lines up to b.
LEMMA ConcatLemma ==
    ASSUME NEW s \in Seq(Line), NEW t \in Seq(Line), NEW b \in Int,
           Increasing(s), Below(s, b + 1), \A i \in 1..Len(t) : t[i].pos = b + i
    PROVE  Increasing(s \o t) /\ Below(s \o t, b + Len(t) + 1)
<1> DEFINE new == s \o t
<1>1. /\ new \in Seq(Line) /\ Len(s) \in Nat /\ Len(t) \in Nat /\ Len(new) = Len(s) + Len(t)
      /\ \A i \in 1..(Len(s) + Len(t)) :
            new[i] = IF i <= Len(s) THEN s[i] ELSE t[i - Len(s)]
  BY ConcatProperties, LenProperties
<1>2. /\ DOMAIN s = 1..Len(s) /\ DOMAIN new = 1..(Len(s) + Len(t))
      /\ \A i \in 1..Len(s) : s[i].pos \in Nat /\ s[i].pos < b + 1
  <2>1. \A i \in 1..Len(s) : s[i] \in Line
    BY ElementOfSeq
  <2> QED
    BY <1>1, <2>1, LenProperties, LineType DEF Below
<1> HIDE DEF new
<1>3. \A i \in 1..Len(s) : new[i] = s[i]
  BY <1>1
<1>4. \A i \in 1..Len(t) : new[Len(s) + i].pos = b + i
  <2>1. \A i \in 1..Len(t) : /\ Len(s) + i \in 1..(Len(s) + Len(t))
                             /\ ~(Len(s) + i <= Len(s)) /\ (Len(s) + i) - Len(s) = i
    BY <1>1
  <2> QED
    BY <1>1, <2>1
<1>5. \A i \in 1..(Len(s) + Len(t)) : i > Len(s) => new[i].pos = b + (i - Len(s))
  <2>1. \A i \in 1..(Len(s) + Len(t)) :
           i > Len(s) => i - Len(s) \in 1..Len(t) /\ Len(s) + (i - Len(s)) = i
    BY <1>1
  <2> QED
    BY <1>4, <2>1
<1>6. Increasing(new)
  <2>1. SUFFICES ASSUME NEW i \in 1..(Len(new) - 1) PROVE new[i].pos < new[i + 1].pos
    BY DEF Increasing
  <2>2. i \in 1..(Len(s) + Len(t)) /\ i + 1 \in 1..(Len(s) + Len(t)) /\ i \in Nat
    BY <1>1
  <2>3. CASE i < Len(s)
    <3>1. i \in 1..(Len(s) - 1) /\ i \in 1..Len(s) /\ i + 1 \in 1..Len(s)
      BY <1>1, <2>2, <2>3
    <3> QED
      BY <1>3, <3>1 DEF Increasing
  <2>4. CASE i >= Len(s)
    <3>1. new[i + 1].pos = b + ((i + 1) - Len(s))
      BY <1>1, <1>5, <2>2, <2>4
    <3>2. i = Len(s) => new[i].pos \in Nat /\ new[i].pos < b + 1
      BY <1>1, <1>2, <1>3, <2>2
    <3>3. i > Len(s) => new[i].pos = b + (i - Len(s))
      BY <1>5, <2>2
    <3> QED
      BY <1>1, <2>2, <2>4, <3>1, <3>2, <3>3
  <2> QED
    BY <1>1, <2>2, <2>3, <2>4
<1>7. Below(new, b + Len(t) + 1)
  <2>1. SUFFICES ASSUME NEW i \in 1..(Len(s) + Len(t)) PROVE new[i].pos < b + Len(t) + 1
    BY <1>2 DEF Below
  <2>2. CASE i <= Len(s)
    <3>1. i \in 1..Len(s)
      BY <1>1, <2>2
    <3> QED
      BY <1>1, <1>2, <1>3, <3>1
  <2>3. CASE i > Len(s)
    BY <1>1, <1>5, <2>3
  <2> QED
    BY <1>1, <2>2, <2>3
<1> QED
  BY <1>6, <1>7 DEF new

Answer == [to : Line, ok : BOOLEAN]

LEMMA AnswersType ==
    ASSUME TypeOK
    PROVE  /\ replied \in Seq(Answer) /\ Len(replied) \in Nat /\ DOMAIN replied = 1..Len(replied)
           /\ \A i \in DOMAIN replied : replied[i] \in Answer /\ replied[i].to.pos \in Nat
<1>1. replied \in Seq(Answer)
  BY DEF TypeOK, Answer
<1>2. Len(replied) \in Nat /\ DOMAIN replied = 1..Len(replied)
  BY <1>1, LenProperties
<1>3. \A i \in DOMAIN replied : replied[i] \in Answer
  BY <1>1, <1>2, ElementOfSeq
<1> QED
  BY <1>1, <1>2, <1>3, LineType DEF Answer

LEMMA AnswersBelowLemma ==
    ASSUME TypeOK, NEW m \in Int, NEW n \in Int, m <= n, AnswersBelow(replied, m)
    PROVE  AnswersBelow(replied, n)
  BY AnswersType DEF AnswersBelow

\* An answer of failure to a storage command may be given twice.
MayRepeat(answer) == answer.to.kind = "store" /\ ~answer.ok

\* One or two answers more, to a line behind all that were answered.
LEMMA AnswersLemma ==
    ASSUME TypeOK, Ordered(replied), NEW answer \in Answer, NEW n \in Int, answer.to.pos < n,
           AnswersBelow(replied, answer.to.pos),
           \/ replied' = Append(replied, answer)
           \/ replied' = replied \o <<answer, answer>> /\ MayRepeat(answer)
    PROVE  replied' \in Seq(Answer) /\ Ordered(replied') /\ AnswersBelow(replied', n)
<1> DEFINE len == Len(replied)
<1>1. /\ len \in Nat /\ DOMAIN replied = 1..len /\ replied \in Seq(Answer)
      /\ \A i \in 1..len : replied[i].to.pos \in Nat /\ replied[i].to.pos < answer.to.pos
      /\ answer.to.pos \in Nat
  BY AnswersType, LineType DEF AnswersBelow, Answer
<1>2. \E more \in {1, 2} :
         /\ replied' \in Seq(Answer) /\ DOMAIN replied' = 1..(len + more)
         /\ \A i \in 1..len : replied'[i] = replied[i]
         /\ \A i \in (len + 1)..(len + more) : replied'[i] = answer
         /\ more = 2 => MayRepeat(answer)
  <2>1. CASE replied' = Append(replied, answer)
    <3>1. /\ replied' \in Seq(Answer) /\ Len(replied') = len + 1
          /\ \A i \in 1..len : replied'[i] = replied[i]
          /\ replied'[len + 1] = answer
      BY <1>1, <2>1, AppendProperties
    <3>2. DOMAIN replied' = 1..(len + 1)
      BY <3>1, LenProperties
    <3>3. \A i \in (len + 1)..(len + 1) : i = len + 1
      BY <1>1
    <3> HIDE DEF len
    <3> QED
      BY <3>1, <3>2, <3>3
  <2>2. CASE replied' = replied \o <<answer, answer>> /\ MayRepeat(answer)
    <3> DEFINE two == <<answer, answer>>
    <3>1. two \in Seq(Answer) /\ Len(two) = 2 /\ two[1] = answer /\ two[2] = answer
      OBVIOUS
    <3> HIDE DEF two
    <3>2. /\ replied' \in Seq(Answer) /\ Len(replied') = len + 2
          /\ \A i \in 1..(len + 2) : replied'[i] = IF i <= len THEN replied[i] ELSE two[i - len]
      BY <1>1, <2>2, <3>1, ConcatProperties DEF two
    <3>3. DOMAIN replied' = 1..(len + 2)
      BY <3>2, LenProperties
    <3> HIDE DEF len
    <3>4. \A i \in 1..len : replied'[i] = replied[i]
      BY <1>1, <3>2
    <3>5. \A i \in (len + 1)..(len + 2) : replied'[i] = answer
      <4>1. \A i \in (len + 1)..(len + 2) : i \in 1..(len + 2) /\ ~(i <= len) /\ i - len \in {1, 2}
        BY <1>1
      <4> QED
        BY <3>1, <3>2, <4>1
    <3> QED
      BY <2>2, <3>2, <3>3, <3>4, <3>5
  <2> QED
    BY <2>1, <2>2
<1>3. PICK more \in {1, 2} :
         /\ replied' \in Seq(Answer) /\ DOMAIN replied' = 1..(len + more)
         /\ \A i \in 1..len : replied'[i] = replied[i]
         /\ \A i \in (len + 1)..(len + more) : replied'[i] = answer
         /\ more = 2 => MayRepeat(answer)
  BY <1>2
<1> HIDE DEF len
<1>4. Ordered(replied')
  <2>1. SUFFICES ASSUME NEW i \in 1..(len + more), NEW j \in 1..(len + more), i < j
                 PROVE  \/ replied'[i].to.pos < replied'[j].to.pos
                        \/ /\ j = i + 1 /\ replied'[i] = replied'[j]
                           /\ replied'[i].to.kind = "store" /\ ~replied'[i].ok
    BY <1>3 DEF Ordered
  <2>2. CASE j <= len
    <3>1. i \in 1..len /\ j \in 1..len
      BY <1>1, <2>1, <2>2
    <3> QED
      BY <1>1, <1>3, <2>1, <3>1 DEF Ordered
  <2>3. CASE i <= len /\ ~(j <= len)
    <3>1. i \in 1..len /\ j \in (len + 1)..(len + more)
      BY <1>1, <2>1, <2>3
    <3> QED
      BY <1>1, <1>3, <3>1
  <2>4. CASE ~(i <= len)
    <3>1. i \in (len + 1)..(len + more) /\ j \in (len + 1)..(len + more) /\ j = i + 1 /\ more = 2
      BY <1>1, <2>1, <2>4
    <3> QED
      BY <1>3, <3>1 DEF MayRepeat
  <2> QED
    BY <1>1, <2>1, <2>2, <2>3, <2>4
<1>5. AnswersBelow(replied', n)
  <2>1. SUFFICES ASSUME NEW i \in 1..(len + more) PROVE replied'[i].to.pos < n
    BY <1>3 DEF AnswersBelow
  <2>2. CASE i <= len
    <3>1. i \in 1..len
      BY <1>1, <2>2
    <3> QED
      BY <1>1, <1>3, <3>1
  <2>3. CASE ~(i <= len)
    <3>1. i \in (len + 1)..(len + more)
      BY <1>1, <2>3
    <3> QED
      BY <1>3, <3>1
  <2> QED
    BY <2>2, <2>3
<1> QED
  BY <1>3, <1>4, <1>5

-----------------------------------------------------------------------------
(* How the stream moves.                                                   *)

LEMMA StreamType ==
    ASSUME TypeOK
    PROVE  /\ Len(buffer) \in Nat /\ Len(arriving) \in Nat /\ sent \in Nat /\ Taken \in Int
           /\ owed \in Nat
           /\ Stream \in Seq(Line) /\ Len(Stream) = Len(buffer) + Len(arriving)
           /\ \A i \in 1..Len(Stream) :
                 /\ Stream[i] \in Line
                 /\ Stream[i] = IF i <= Len(buffer) THEN buffer[i] ELSE arriving[i - Len(buffer)]
<1>1. /\ buffer \in Seq(Line) /\ arriving \in Seq(Line) /\ sent \in 0..MaxLines
      /\ owed \in 0..MaxBody
  BY DEF TypeOK
<1>2. /\ Stream \in Seq(Line) /\ Len(Stream) = Len(buffer) + Len(arriving)
      /\ Len(buffer) \in Nat /\ Len(arriving) \in Nat
      /\ \A i \in 1..Len(buffer) + Len(arriving) :
            Stream[i] = IF i <= Len(buffer) THEN buffer[i] ELSE arriving[i - Len(buffer)]
  BY <1>1, ConcatProperties, LenProperties DEF Stream
<1>3. \A i \in 1..Len(Stream) : Stream[i] \in Line
  BY <1>2, ElementOfSeq
<1> QED
  BY <1>1, <1>2, <1>3, LinesAssumption DEF Taken

LEMMA SameStream ==
    ASSUME StreamInv, Stream' = Stream, UNCHANGED <<sent, owed>>
    PROVE  StreamInv' /\ Taken' = Taken /\ (UNCHANGED headerItems_ => OwnBody' = OwnBody)
  BY DEF StreamInv, Taken, OwnBody

\* Lines are taken from the front: what is left is the stream from there on.
LEMMA TakenLemma ==
    ASSUME TypeOK, StreamInv, NEW n \in Nat, UNCHANGED <<sent, owed>>,
           Stream' \in Seq(Line), Len(Stream) = n + Len(Stream'),
           \A i \in 1..Len(Stream') : Stream'[i] = Stream[n + i]
    PROVE  StreamInv' /\ Taken' = Taken + n
<1>1. Len(Stream') \in Nat /\ Taken' = Taken + n /\ Taken \in Int /\ Taken' \in Int
  BY StreamType, LenProperties DEF Taken
<1> DEFINE left == Stream'
<1> HIDE DEF left
<1>2. /\ Len(left) \in Nat /\ Len(Stream) = n + Len(left)
      /\ \A i \in 1..Len(left) : left[i] = Stream[n + i]
  BY <1>1 DEF left
<1>3. ASSUME NEW i \in 1..Len(left)
      PROVE  left[i].pos = Taken' + i /\ Announced(left[i], left, i, owed)
  <2>1. n + i \in 1..Len(Stream) /\ left[i] = Stream[n + i]
    BY <1>2
  <2>2. Stream[n + i].pos = Taken + (n + i) /\ Announced(Stream[n + i], Stream, n + i, owed)
    BY <2>1 DEF StreamInv
  <2>3. \A k \in Nat : i + k \in 1..Len(left) => left[i + k] = Stream[(n + i) + k]
    BY <1>2
  <2>4. Len(Stream) - (n + i) = Len(left) - i
    BY <1>2
  <2>5. left[i] \in Line
    BY <2>1, StreamType
  <2>6. Announced(left[i], left, i, owed)
    <3>1. SUFFICES ASSUME left[i].part = "head"
                   PROVE  /\ \A k \in 1..left[i].lines : i + k <= Len(left) => left[i + k].part = "body"
                          /\ left[i].lines <= owed + (Len(left) - i)
      BY DEF Announced
    <3>2. /\ \A k \in 1..left[i].lines :
                (n + i) + k <= Len(Stream) => Stream[(n + i) + k].part = "body"
          /\ left[i].lines <= owed + (Len(left) - i)
      BY <2>1, <2>2, <2>4, <3>1 DEF Announced
    <3>3. left[i].lines \in Nat
      BY <2>5, LineType
    <3>4. ASSUME NEW k \in 1..left[i].lines, i + k <= Len(left) PROVE left[i + k].part = "body"
      <4>1. k \in Nat /\ i + k \in 1..Len(left) /\ (n + i) + k <= Len(Stream)
        BY <1>2, <3>3, <3>4
      <4> QED
        BY <2>3, <3>2, <4>1
    <3> QED
      BY <3>2, <3>4
  <2>7. left[i].pos = Taken' + i
    BY <1>1, <2>1, <2>2
  <2> QED
    BY <2>6, <2>7
<1> QED
  BY <1>1, <1>3 DEF StreamInv, left

LEMMA HeadLemma ==
    ASSUME TypeOK, StreamInv, buffer # <<>>
    PROVE  /\ Len(buffer) > 0 /\ Stream # <<>> /\ Stream[1] = Head(buffer) /\ Head(buffer) = buffer[1]
           /\ Head(buffer) \in Line /\ Head(buffer).pos = Taken + 1
<1>1. buffer \in Seq(Line) /\ Len(buffer) \in Nat \ {0} /\ Head(buffer) = buffer[1]
  BY EmptySeq DEF TypeOK
<1>2. 1 \in 1..Len(Stream) /\ Stream[1] = buffer[1] /\ Stream[1] \in Line
  BY <1>1, StreamType
<1>3. Stream # <<>>
  BY <1>2, EmptySeq
<1> QED
  BY <1>1, <1>2, <1>3 DEF StreamInv

LEMMA TakeHeadLemma ==
    ASSUME TypeOK, StreamInv, buffer # <<>>, buffer' = Tail(buffer),
           UNCHANGED <<arriving, sent, owed>>
    PROVE  /\ StreamInv' /\ Taken' = Taken + 1 /\ buffer' \in Seq(Line)
           /\ Announced(Head(buffer), Stream', 0, owed')
<1>1. /\ buffer \in Seq(Line) /\ arriving \in Seq(Line) /\ Len(buffer) \in Nat \ {0}
      /\ buffer' \in Seq(Line) /\ Len(buffer') = Len(buffer) - 1
      /\ \A i \in 1..Len(buffer') : buffer'[i] = buffer[i + 1]
  BY HeadTailProperties, EmptySeq DEF TypeOK
<1>2. /\ Stream' \in Seq(Line) /\ Len(Stream') = Len(buffer') + Len(arriving)
      /\ \A i \in 1..Len(buffer') + Len(arriving) :
            Stream'[i] = IF i <= Len(buffer') THEN buffer'[i] ELSE arriving[i - Len(buffer')]
  BY <1>1, ConcatProperties DEF Stream
<1>3. Len(arriving) \in Nat /\ Len(Stream) = 1 + Len(Stream')
  BY <1>1, <1>2, StreamType
<1>4. \A i \in 1..Len(Stream') : Stream'[i] = Stream[1 + i]
  <2>1. SUFFICES ASSUME NEW i \in 1..Len(Stream') PROVE Stream'[i] = Stream[1 + i]
    OBVIOUS
  <2>2. i \in Nat /\ 1 + i \in 1..Len(Stream) /\ (1 + i) - Len(buffer) = i - Len(buffer')
    BY <1>1, <1>3
  <2>3. Stream[1 + i] = IF 1 + i <= Len(buffer) THEN buffer[1 + i]
                        ELSE arriving[(1 + i) - Len(buffer)]
    BY <2>2, StreamType
  <2>4. CASE i <= Len(buffer')
    <3>1. i \in 1..Len(buffer') /\ 1 + i <= Len(buffer) /\ 1 + i = i + 1
      BY <1>1, <2>2, <2>4
    <3> QED
      BY <1>1, <1>2, <2>3, <2>4, <3>1
  <2>5. CASE ~(i <= Len(buffer'))
    <3>1. ~(1 + i <= Len(buffer))
      BY <1>1, <2>2, <2>5
    <3> QED
      BY <1>2, <2>2, <2>3, <2>5, <3>1
  <2> QED
    BY <2>4, <2>5
<1>5. StreamInv' /\ Taken' = Taken + 1
  BY <1>2, <1>3, <1>4, TakenLemma
<1> DEFINE head == Head(buffer)
<1>6. head = Stream[1] /\ head \in Line /\ 1 \in 1..Len(Stream) /\ owed \in Nat
  BY <1>1, HeadLemma, StreamType
<1>7. Announced(head, Stream, 1, owed)
  BY <1>6 DEF StreamInv
<1>8. Announced(head, Stream', 0, owed')
  <2> DEFINE left == Stream'
  <2> HIDE DEF head, left
  <2>1. /\ Len(left) \in Nat /\ Len(Stream) = 1 + Len(left) /\ head.lines \in Nat
        /\ \A i \in 1..Len(left) : left[i] = Stream[1 + i]
    BY <1>1, <1>2, <1>3, <1>4, <1>6, LineType DEF left
  <2>2. SUFFICES ASSUME head.part = "head"
                 PROVE  /\ \A k \in 1..head.lines : 0 + k <= Len(left) => left[0 + k].part = "body"
                        /\ head.lines <= owed + (Len(left) - 0)
    BY DEF Announced, left
  <2>3. /\ \A k \in 1..head.lines : 1 + k <= Len(Stream) => Stream[1 + k].part = "body"
        /\ head.lines <= owed + (Len(Stream) - 1)
    BY <1>7, <2>2 DEF Announced
  <2>4. ASSUME NEW k \in 1..head.lines, 0 + k <= Len(left) PROVE left[0 + k].part = "body"
    <3>1. 0 + k = k /\ k \in 1..Len(left) /\ 1 + k <= Len(Stream)
      BY <2>1, <2>4
    <3> QED
      BY <2>1, <2>3, <3>1
  <2>5. head.lines <= owed + (Len(left) - 0)
    BY <1>6, <2>1, <2>3
  <2> QED
    BY <2>4, <2>5
<1> QED
  BY <1>1, <1>5, <1>8

LEMMA TakeAllLemma ==
    ASSUME TypeOK, StreamInv, buffer' = <<>>, UNCHANGED <<arriving, sent, owed>>
    PROVE  StreamInv' /\ Taken' = Taken + Len(buffer)
<1>1. arriving \in Seq(Line) /\ Len(buffer) \in Nat /\ Len(arriving) \in Nat
  BY StreamType DEF TypeOK
<1>2. Stream' = arriving
  BY <1>1, ConcatEmptySeq DEF Stream
<1>3. Len(Stream) = Len(buffer) + Len(Stream')
  BY <1>2, StreamType
<1>4. \A i \in 1..Len(Stream') : Stream'[i] = Stream[Len(buffer) + i]
  <2>1. \A i \in 1..Len(arriving) : /\ Len(buffer) + i \in 1..Len(Stream)
                                    /\ ~(Len(buffer) + i <= Len(buffer))
                                    /\ (Len(buffer) + i) - Len(buffer) = i
    BY <1>1, <1>2, <1>3
  <2> QED
    BY <1>2, <2>1, StreamType
<1> QED
  BY <1>1, <1>2, <1>3, <1>4, TakenLemma

\* One line more, a body as long as one is owed.
LEMMA AnnouncedMore ==
    ASSUME NEW head \in Line, NEW old \in Seq(Line), NEW new \in Seq(Line),
           Len(new) = Len(old) + 1, \A k \in 1..Len(old) : new[k] = old[k],
           NEW before \in Nat, NEW after \in Nat, before <= after + 1,
           before > 0 => new[Len(old) + 1].part = "body",
           NEW i \in 0..Len(old), Announced(head, old, i, before)
    PROVE  Announced(head, new, i, after)
<1>1. Len(old) \in Nat /\ head.lines \in Nat
  BY LenProperties, LineType
<1>2. SUFFICES ASSUME head.part = "head"
               PROVE  /\ \A k \in 1..head.lines : i + k <= Len(new) => new[i + k].part = "body"
                      /\ head.lines <= after + (Len(new) - i)
  BY DEF Announced
<1>3. /\ \A k \in 1..head.lines : i + k <= Len(old) => old[i + k].part = "body"
      /\ head.lines <= before + (Len(old) - i)
  BY <1>2 DEF Announced
<1>4. ASSUME NEW k \in 1..head.lines, i + k <= Len(new) PROVE new[i + k].part = "body"
  <2>1. CASE i + k <= Len(old)
    <3>1. i + k \in 1..Len(old)
      BY <1>1, <2>1
    <3> QED
      BY <1>3, <2>1, <3>1
  <2>2. CASE ~(i + k <= Len(old))
    <3> DEFINE m == Len(old)
               lines == head.lines
    <3>0. /\ m \in Nat /\ lines \in Nat /\ k \in Nat /\ k <= lines /\ i \in Nat
          /\ i + k <= m + 1 /\ ~(i + k <= m) /\ lines <= before + (m - i)
      BY <1>1, <1>3, <1>4, <2>2
    <3> HIDE DEF m, lines
    <3>2. i + k = m + 1 /\ before > 0
      BY <3>0
    <3>1. i + k = Len(old) + 1 /\ before > 0
      BY <3>2 DEF m
    <3> QED
      BY <3>1
  <2> QED
    BY <2>1, <2>2
<1>5. head.lines <= after + (Len(new) - i)
  BY <1>1, <1>3
<1> QED
  BY <1>4, <1>5

Kinds == {"store", "one", "get", "quit", "bad"}

LEMMA ClientLemma ==
    ASSUME TypeOK, StreamInv, NEW kind \in Kinds, NEW noreply \in BOOLEAN, NEW lines \in 0..MaxBody,
           ClientSends(kind, noreply, lines)
    PROVE  /\ StreamInv' /\ Taken' = Taken
           /\ headerItems_ \in Line /\ OwnBody => OwnBody'
           /\ arriving' \in Seq(Line) /\ sent' \in 0..MaxLines /\ owed' \in 0..MaxBody
<1> DEFINE part == IF owed > 0 THEN "body" ELSE "head"
           line == [pos |-> sent + 1, part |-> part, kind |-> kind, noreply |-> noreply,
                    lines |-> lines]
           n == Len(Stream)
<1>1. /\ sent \in 0..MaxLines /\ sent < MaxLines /\ sent' = sent + 1 /\ buffer' = buffer
      /\ arriving' = Append(arriving, line) /\ owed' = IF owed > 0 THEN owed - 1 ELSE lines
      /\ buffer \in Seq(Line) /\ arriving \in Seq(Line) /\ owed \in 0..MaxBody
      /\ headerItems_' = headerItems_
  BY DEF ClientSends, TypeOK, task
<1>2. line \in Line /\ sent' \in 0..MaxLines /\ owed' \in 0..MaxBody
  BY <1>1, LinesAssumption DEF Line, Kinds
<1>3. /\ line.pos = sent + 1 /\ line.part = part /\ line.lines = lines
      /\ owed > 0 => part = "body"
      /\ owed = 0 => owed' = lines
      /\ owed \in Nat /\ owed' \in Nat /\ owed <= owed' + 1 /\ lines \in Nat
  BY <1>1, <1>2, LinesAssumption
<1> HIDE DEF line, part
<1>4. /\ arriving' \in Seq(Line) /\ Len(arriving') = Len(arriving) + 1
      /\ \A i \in 1..Len(arriving) : arriving'[i] = arriving[i]
      /\ arriving'[Len(arriving) + 1] = line
  BY <1>1, <1>2, AppendProperties
<1>5. /\ Len(Stream') = Len(buffer) + (Len(arriving) + 1) /\ Stream' \in Seq(Line)
      /\ \A i \in 1..Len(buffer) + (Len(arriving) + 1) :
            Stream'[i] = IF i <= Len(buffer) THEN buffer[i] ELSE arriving'[i - Len(buffer)]
  <2>1. Stream' = buffer \o arriving'
    BY <1>1 DEF Stream
  <2>2. buffer \in Seq(Line) /\ arriving' \in Seq(Line)
    BY <1>1, <1>4
  <2>3. /\ Len(Stream') = Len(buffer) + Len(arriving') /\ Stream' \in Seq(Line)
        /\ \A i \in 1..Len(buffer) + Len(arriving') :
              Stream'[i] = IF i <= Len(buffer) THEN buffer[i] ELSE arriving'[i - Len(buffer)]
    BY <2>1, <2>2, ConcatProperties
  <2> QED
    BY <1>4, <2>3
<1>6. Len(buffer) \in Nat /\ Len(arriving) \in Nat /\ n = Len(buffer) + Len(arriving) /\ n \in Nat
  BY StreamType
<1>7. Len(Stream') = n + 1
  BY <1>5, <1>6
<1>8. \A i \in 1..n : Stream'[i] = Stream[i]
  <2>1. SUFFICES ASSUME NEW i \in 1..n PROVE Stream'[i] = Stream[i]
    OBVIOUS
  <2>2. i \in 1..Len(buffer) + (Len(arriving) + 1) /\ i \in Nat
    BY <1>6
  <2>3. Stream[i] = IF i <= Len(buffer) THEN buffer[i] ELSE arriving[i - Len(buffer)]
    BY StreamType
  <2>4. ~(i <= Len(buffer)) => i - Len(buffer) \in 1..Len(arriving)
    BY <1>6, <2>2
  <2> QED
    BY <1>4, <1>5, <2>2, <2>3, <2>4
<1>9. Stream'[n + 1] = line
  <2>1. /\ n + 1 \in 1..Len(buffer) + (Len(arriving) + 1) /\ ~(n + 1 <= Len(buffer))
        /\ (n + 1) - Len(buffer) = Len(arriving) + 1
    BY <1>6
  <2> QED
    BY <1>4, <1>5, <2>1
<1>10. Taken' = Taken
  BY <1>1, <1>6, <1>7 DEF Taken
<1> HIDE DEF n
<1> DEFINE new == Stream'
<1> HIDE DEF new
<1>11. /\ new \in Seq(Line) /\ Len(new) = n + 1 /\ n = Len(Stream) /\ n \in Nat
       /\ \A i \in 1..n : new[i] = Stream[i]
       /\ new[n + 1] = line /\ Stream \in Seq(Line)
  BY <1>5, <1>6, <1>7, <1>8, <1>9, StreamType DEF new, n
<1>12. \A head \in Line : \A i \in 0..n :
          Announced(head, Stream, i, owed) => Announced(head, new, i, owed')
  BY <1>3, <1>11, AnnouncedMore
<1>13. ASSUME NEW i \in 1..(n + 1)
       PROVE  new[i].pos = Taken' + i /\ Announced(new[i], new, i, owed')
  <2>1. CASE i = n + 1
    <3>1. sent + 1 = Taken + (n + 1)
      BY <1>1, <1>6, <1>11 DEF Taken, n
    <3>2. new[i].pos = Taken' + i
      BY <1>3, <1>10, <1>11, <2>1, <3>1
    <3>3. Announced(line, new, n + 1, owed')
      <4>1. SUFFICES ASSUME line.part = "head"
                     PROVE  /\ \A k \in 1..line.lines :
                                  (n + 1) + k <= Len(new) => new[(n + 1) + k].part = "body"
                            /\ line.lines <= owed' + (Len(new) - (n + 1))
        BY DEF Announced
      <4>2. owed' = lines
        BY <1>1, <1>3, <4>1
      <4>3. \A k \in 1..line.lines : ~((n + 1) + k <= Len(new))
        BY <1>3, <1>11
      <4>4. line.lines <= owed' + (Len(new) - (n + 1))
        BY <1>3, <1>11, <4>2
      <4> QED
        BY <4>3, <4>4
    <3> QED
      BY <1>11, <2>1, <3>2, <3>3
  <2>2. CASE i # n + 1
    <3>1. i \in 1..n /\ i \in 0..n /\ new[i] = Stream[i]
      BY <1>11, <2>2
    <3>2. Stream[i].pos = Taken + i /\ Announced(Stream[i], Stream, i, owed) /\ Stream[i] \in Line
      BY <1>11, <3>1, StreamType DEF StreamInv
    <3> QED
      BY <1>10, <1>12, <3>1, <3>2
  <2> QED
    BY <2>1, <2>2
<1>14. StreamInv'
  BY <1>11, <1>13 DEF StreamInv, new
<1>15. headerItems_ \in Line /\ OwnBody => OwnBody'
  BY <1>1, <1>11, <1>12 DEF OwnBody, new
<1> QED
  BY <1>1, <1>2, <1>4, <1>10, <1>14, <1>15

-----------------------------------------------------------------------------
(* The actions.                                                            *)

LEMMA Still ==
    ASSUME TypeOK, StreamInv, UNCHANGED <<buffer, client>>
    PROVE  StreamInv' /\ Taken' = Taken /\ Taken \in Int
           /\ (UNCHANGED headerItems_ => OwnBody' = OwnBody)
<1>1. Stream' = Stream /\ sent' = sent /\ owed' = owed
  BY DEF Stream, client
<1> QED
  BY <1>1, SameStream, StreamType

LEMMA ReplyLemma ==
    ASSUME TypeOK, NEW line \in Line, NEW ok \in BOOLEAN, NEW n \in Int,
           line.pos < n, Ordered(replied), AnswersBelow(replied, line.pos),
           \/ Reply(line, ok)
           \/ /\ line.kind = "store" /\ ok = FALSE
              /\ replied' = replied \o <<[to |-> line, ok |-> ok], [to |-> line, ok |-> ok]>>
    PROVE  /\ replied' \in Seq([to : Line, ok : BOOLEAN])
           /\ Ordered(replied') /\ AnswersBelow(replied', n)
<1> DEFINE answer == [to |-> line, ok |-> ok]
<1>1. answer \in Answer /\ answer.to = line /\ answer.ok = ok
  BY DEF Answer
<1>2. \/ replied' = Append(replied, answer)
      \/ replied' = replied \o <<answer, answer>> /\ line.kind = "store" /\ ok = FALSE
  BY DEF Reply
<1> HIDE DEF answer
<1> QED
  BY <1>1, <1>2, AnswersLemma DEF Answer, MayRepeat

\* The head in hand is answered, whatever becomes of the task.
LEMMA AnswerLemma ==
    ASSUME IInv, NEW ok \in BOOLEAN, Reply(headerItems_, ok), UNCHANGED <<buffer, client, forwarded>>,
           pc' = "idle",
           \/ taskState_' = "BAD" /\ shut' = TRUE /\ UNCHANGED headerItems_
           \/ renew /\ UNCHANGED shut,
           headerItems_ \in Line, headerItems_.pos <= Taken, AnswersBelow(replied, headerItems_.pos)
    PROVE  IInv'
<1>1. TypeOK /\ StreamInv
  BY DEF IInv
<1>2. StreamInv' /\ Taken' = Taken /\ Taken \in Int
  BY <1>1, Still
<1>3. headerItems_.pos < Taken + 1
  BY <1>2, LineType
<1>4. /\ replied' \in Seq([to : Line, ok : BOOLEAN])
      /\ Ordered(replied') /\ AnswersBelow(replied', Taken + 1)
  <2>1. Ordered(replied) /\ Taken + 1 \in Int
    BY <1>2 DEF IInv, OrderInv
  <2> QED
    BY <1>1, <1>3, <2>1, ReplyLemma
<1>5. TypeOK'
  BY <1>1, <1>4 DEF TypeOK, renew, client
<1>6. HeadInv' /\ TaskInv'
  BY DEF HeadInv, TaskInv, Waiting, Forwarding, Answering, renew
<1>7. OrderInv'
  <2>1. Increasing(forwarded') /\ Below(forwarded', Taken' + 1)
    BY <1>2 DEF IInv, OrderInv
  <2>2. Ordered(replied') /\ AnswersBelow(replied', Taken' + 1)
    BY <1>2, <1>4
  <2> QED
    BY <2>1, <2>2 DEF OrderInv, Waiting, Forwarding, Answering, renew
<1> QED
  BY <1>2, <1>5, <1>6, <1>7 DEF IInv

LEMMA InitLemma == Init => IInv
<1> SUFFICES ASSUME Init PROVE IInv
  OBVIOUS
<1>1. TypeOK
  <2>1. <<>> \in Seq(Line) /\ <<>> \in Seq([to : Line, ok : BOOLEAN])
    OBVIOUS
  <2>2. 0 \in 0..MaxLines /\ 0 \in 0..MaxBody
    BY LinesAssumption
  <2>3. headerItems_ \in Line \cup {NoHead} /\ sent \in 0..MaxLines /\ shut \in BOOLEAN /\ owed \in 0..MaxBody
    BY <2>2 DEF Init
  <2> QED
    BY <2>1, <2>3 DEF Init, TypeOK
<1>2. Stream = <<>> /\ Len(Stream) = 0 /\ Taken \in Int
  BY <1>1, StreamType, ConcatEmptySeq, EmptySeq DEF Stream, Init
<1>3. StreamInv
  BY <1>2 DEF StreamInv
<1>4. HeadInv /\ TaskInv
  BY DEF Init, HeadInv, TaskInv, Waiting, Forwarding, Answering
<1>5. Ordered(replied) /\ AnswersBelow(replied, Taken + 1)
  BY DEF Init, Ordered, AnswersBelow
<1>6. \A n \in Int : Increasing(<<>>) /\ Below(<<>>, n)
  BY DEF Increasing, Below
<1>7. OrderInv
  <2>1. Taken + 1 \in Int
    BY <1>2
  <2> QED
    BY <1>2, <1>5, <1>6, <2>1 DEF Init, OrderInv, Waiting, Forwarding, Answering
<1> QED
  BY <1>1, <1>3, <1>4, <1>7 DEF IInv

LEMMA ClientStep ==
    ASSUME IInv, NEW kind \in Kinds, NEW noreply \in BOOLEAN, NEW lines \in 0..MaxBody,
           ClientSends(kind, noreply, lines)
    PROVE  IInv'
<1>1. TypeOK /\ StreamInv
  BY DEF IInv
<1>2. /\ StreamInv' /\ Taken' = Taken /\ (headerItems_ \in Line /\ OwnBody => OwnBody')
      /\ arriving' \in Seq(Line) /\ sent' \in 0..MaxLines /\ owed' \in 0..MaxBody
  BY <1>1, ClientLemma
<1>3. UNCHANGED <<task, buffer, pc, shut, forwarded, replied>>
  BY DEF ClientSends
<1>4. TypeOK'
  BY <1>1, <1>2, <1>3 DEF TypeOK, task
<1>5. HeadInv'
  BY <1>2, <1>3 DEF IInv, HeadInv, Waiting, Forwarding, Answering, task
<1>6. TaskInv'
  BY <1>3 DEF IInv, TaskInv, Waiting, Forwarding, Answering, task
<1>7. OrderInv'
  BY <1>2, <1>3 DEF IInv, OrderInv, Waiting, Forwarding, Answering, task
<1> QED
  BY <1>2, <1>4, <1>5, <1>6, <1>7 DEF IInv

LEMMA OnMessageStep == ASSUME IInv, OnMessage PROVE IInv'
<1>1. TypeOK /\ StreamInv
  BY DEF IInv
<1>2. /\ buffer' = Stream /\ arriving' = <<>> /\ Stream \in Seq(Line)
      /\ pc = "idle" /\ pc' = "enter"
      /\ UNCHANGED <<task, shut, sent, owed, forwarded, replied>>
  BY <1>1, StreamType DEF OnMessage, Goto, Stream
<1>3. Stream' = Stream
  BY <1>2, ConcatEmptySeq DEF Stream
<1>4. StreamInv' /\ Taken' = Taken /\ OwnBody' = OwnBody
  BY <1>1, <1>2, <1>3, SameStream DEF task
<1>5. TypeOK'
  <2>1. <<>> \in Seq(Line)
    OBVIOUS
  <2> QED
    BY <1>1, <1>2, <2>1 DEF TypeOK, task
<1>6. HeadInv'
  BY <1>2, <1>4 DEF IInv, HeadInv, Waiting, Forwarding, Answering, task
<1>7. TaskInv'
  BY <1>2 DEF IInv, TaskInv, Waiting, Forwarding, Answering, task
<1>8. OrderInv'
  BY <1>2, <1>4 DEF IInv, OrderInv, Waiting, Forwarding, Answering, task
<1> QED
  BY <1>4, <1>5, <1>6, <1>7, <1>8 DEF IInv

LEMMA EnterBadStep == ASSUME IInv, EnterBad PROVE IInv'
<1>1. /\ TypeOK /\ StreamInv /\ pc' = "idle"
      /\ taskState_' = "BEGIN_NEW_TASK" /\ headerItems_' = NoHead
      /\ UNCHANGED <<buffer, shut, client, forwarded, replied>>
  BY DEF IInv, EnterBad, Goto, renew
<1>2. StreamInv' /\ Taken' = Taken
  BY <1>1, Still
<1>3. TypeOK'
  BY <1>1 DEF TypeOK, client
<1>4. HeadInv' /\ TaskInv'
  BY <1>1 DEF HeadInv, TaskInv, Waiting, Forwarding, Answering
<1>5. OrderInv'
  BY <1>1, <1>2 DEF IInv, OrderInv, Waiting, Forwarding, Answering
<1> QED
  BY <1>2, <1>3, <1>4, <1>5 DEF IInv

LEMMA ParseHeadStep == ASSUME IInv, ParseHead PROVE IInv'
<1> DEFINE head == Head(buffer)
<1>1. /\ TypeOK /\ StreamInv /\ Increasing(forwarded) /\ Below(forwarded, Taken + 1)
      /\ Ordered(replied) /\ AnswersBelow(replied, Taken + 1)
      /\ buffer # <<>> /\ buffer' = Tail(buffer) /\ UNCHANGED client
  BY DEF IInv, OrderInv, ParseHead, Retrieved
<1>2. head \in Line /\ head.pos = Taken + 1 /\ Taken \in Int
  BY <1>1, HeadLemma, StreamType
<1>3. /\ StreamInv' /\ Taken' = Taken + 1 /\ buffer' \in Seq(Line)
      /\ Announced(head, Stream', 0, owed')
  BY <1>1, TakeHeadLemma DEF client
<1>4. /\ Taken + 1 \in Int /\ Taken' + 1 \in Int /\ Taken + 1 < Taken' + 1
      /\ Taken + 1 <= Taken' + 1
  BY <1>2, <1>3
<1>5. Increasing(forwarded) /\ Below(forwarded, Taken' + 1)
  <2>1. forwarded \in Seq(Line)
    BY <1>1 DEF TypeOK
  <2> QED
    BY <1>1, <1>4, <2>1, BelowLemma
<1>6. AnswersBelow(replied, Taken' + 1)
  BY <1>1, <1>4, AnswersBelowLemma
<1>7. ASSUME pc' = "idle", Refuse(head) PROVE IInv'
  <2>1. renew /\ UNCHANGED <<shut, forwarded>>
    BY <1>7 DEF Refuse
  <2>2. /\ replied' \in Seq([to : Line, ok : BOOLEAN])
        /\ Ordered(replied') /\ AnswersBelow(replied', Taken' + 1)
    <3>1. CASE UNCHANGED replied
      BY <1>1, <1>6, <3>1 DEF TypeOK
    <3>2. CASE Reply(head, FALSE)
      <4>1. AnswersBelow(replied, head.pos) /\ head.pos < Taken' + 1
        BY <1>1, <1>2, <1>4
      <4> QED
        BY <1>1, <1>2, <1>4, <3>2, <4>1, ReplyLemma
    <3> QED
      BY <1>7, <3>1, <3>2 DEF Refuse
  <2>3. TypeOK'
    BY <1>1, <1>3, <1>7, <2>1, <2>2 DEF TypeOK, renew, client
  <2>4. HeadInv' /\ TaskInv'
    BY <1>7, <2>1 DEF HeadInv, TaskInv, Waiting, Forwarding, Answering, renew
  <2>5. OrderInv'
    BY <1>5, <1>7, <2>1, <2>2 DEF OrderInv, Waiting, Forwarding, Answering, renew
  <2> QED
    BY <1>3, <2>3, <2>4, <2>5 DEF IInv
<1>8. ASSUME head.kind = "quit", pc' = "idle", taskState_' = "BAD", headerItems_' = head,
             shut' = TRUE, UNCHANGED <<forwarded, replied>>
      PROVE  IInv'
  <2>1. TypeOK'
    BY <1>1, <1>2, <1>3, <1>8 DEF TypeOK, client
  <2>2. HeadInv' /\ TaskInv'
    BY <1>8 DEF HeadInv, TaskInv, Waiting, Forwarding, Answering
  <2>3. OrderInv'
    BY <1>1, <1>5, <1>6, <1>8 DEF OrderInv, Waiting, Forwarding, Answering
  <2> QED
    BY <1>3, <2>1, <2>2, <2>3 DEF IInv
<1>9. ASSUME head.kind \in {"one", "get", "store"},
             pc' = IF head.kind = "store" THEN "enter" ELSE "connect",
             taskState_' = IF head.kind = "store" THEN "WAIT_ENOUGH_DATA" ELSE "BEGIN_HANDLE_CMD",
             headerItems_' = head, UNCHANGED <<shut, forwarded, replied>>
      PROVE  IInv'
  <2> HIDE DEF head
  <2>1. TypeOK'
    <3>1. headerItems_' \in Line
      BY <1>2, <1>9
    <3> QED
      BY <1>1, <1>3, <1>9, <3>1 DEF TypeOK, client
  <2>2. HeadInv'
    <3>1. OwnBody'
      BY <1>3, <1>9 DEF OwnBody
    <3> QED
      BY <1>2, <1>3, <1>9, <3>1 DEF HeadInv, Waiting, Forwarding, Answering
  <2>3. TaskInv'
    BY <1>9 DEF TaskInv, Waiting, Forwarding, Answering
  <2>4. OrderInv'
    <3>1. Below(forwarded, Taken') /\ AnswersBelow(replied, Taken')
      BY <1>1, <1>3
    <3>2. ~Answering'
      BY <1>9 DEF Answering
    <3> QED
      BY <1>1, <1>5, <1>6, <1>9, <3>1, <3>2 DEF OrderInv
  <2> QED
    BY <1>3, <2>1, <2>2, <2>3, <2>4 DEF IInv
<1> HIDE DEF head
<1>10. \/ head.kind = "bad" /\ pc' = "idle" /\ Refuse(head)
       \/ /\ head.kind = "quit" /\ pc' = "idle" /\ taskState_' = "BAD" /\ headerItems_' = head
          /\ shut' = TRUE /\ UNCHANGED <<forwarded, replied>>
       \/ /\ head.kind \in {"one", "get", "store"}
          /\ pc' = IF head.kind = "store" THEN "enter" ELSE "connect"
          /\ taskState_' = IF head.kind = "store" THEN "WAIT_ENOUGH_DATA" ELSE "BEGIN_HANDLE_CMD"
          /\ headerItems_' = head /\ UNCHANGED <<shut, forwarded, replied>>
  BY DEF ParseHead, head
<1> QED
  BY <1>7, <1>8, <1>9, <1>10

LEMMA WaitForBodyStep == ASSUME IInv, WaitForBody PROVE IInv'
<1>1. /\ TypeOK /\ StreamInv /\ pc = "enter" /\ pc' = "idle" /\ Waiting
      /\ UNCHANGED <<task, buffer, shut, client, forwarded, replied>>
  BY DEF IInv, WaitForBody, Goto, Waiting
<1>2. StreamInv' /\ Taken' = Taken /\ OwnBody' = OwnBody
  BY <1>1, Still DEF task
<1>3. TypeOK'
  BY <1>1 DEF TypeOK, task, client
<1>4. HeadInv'
  BY <1>1, <1>2 DEF IInv, HeadInv, Waiting, Forwarding, Answering, task
<1>5. TaskInv'
  BY <1>1 DEF IInv, TaskInv, Waiting, Forwarding, Answering, task
<1>6. OrderInv'
  BY <1>1, <1>2 DEF IInv, OrderInv, Waiting, Forwarding, Answering, task
<1> QED
  BY <1>2, <1>3, <1>4, <1>5, <1>6 DEF IInv

LEMMA TakeBodyStep == ASSUME IInv, TakeBody PROVE IInv'
<1>1. /\ TypeOK /\ StreamInv /\ Waiting /\ pc = "enter" /\ UNCHANGED <<shut, client, forwarded>>
      /\ headerItems_ \in Line /\ headerItems_.pos = Taken /\ headerItems_.kind = "store"
      /\ headerItems_.lines <= Len(buffer) /\ OwnBody /\ Taken \in Int
      /\ Increasing(forwarded) /\ Below(forwarded, Taken)
      /\ Ordered(replied) /\ AnswersBelow(replied, Taken)
  BY StreamType, LineType DEF IInv, HeadInv, OrderInv, TakeBody, Enough, Waiting
<1>2. ASSUME BadChunk PROVE IInv'
  <2>1. pc' = "idle" /\ renew /\ buffer' = <<>>
    BY <1>2 DEF BadChunk
  <2>2. StreamInv' /\ Taken' = Taken + Len(buffer)
    BY <1>1, <2>1, TakeAllLemma DEF client
  <2>3. Taken' + 1 \in Int /\ Taken < Taken' + 1 /\ Taken <= Taken' + 1
    BY <1>1, <2>2, StreamType
  <2>4. /\ replied' \in Seq([to : Line, ok : BOOLEAN])
        /\ Ordered(replied') /\ AnswersBelow(replied', Taken' + 1)
    <3>1. replied' = replied \o <<[to |-> headerItems_, ok |-> FALSE],
                                  [to |-> headerItems_, ok |-> FALSE]>>
      BY <1>2 DEF BadChunk
    <3> QED
      BY <1>1, <2>3, <3>1, ReplyLemma
  <2>5. Below(forwarded, Taken' + 1)
    <3>1. forwarded \in Seq(Line)
      BY <1>1 DEF TypeOK
    <3> QED
      BY <1>1, <2>3, <3>1, BelowLemma
  <2>6. TypeOK'
    <3>1. buffer' \in Seq(Line)
      BY <2>1
    <3> QED
      BY <1>1, <2>1, <2>4, <3>1 DEF TypeOK, renew, client
  <2>7. HeadInv' /\ TaskInv'
    BY <2>1 DEF HeadInv, TaskInv, Waiting, Forwarding, Answering, renew
  <2>8. OrderInv'
    BY <1>1, <2>1, <2>4, <2>5 DEF OrderInv, Waiting, Forwarding, Answering, renew
  <2> QED
    BY <2>2, <2>6, <2>7, <2>8 DEF IInv
<1>3. ASSUME pc' \in {"connect", "dead"}, UNCHANGED <<headerItems_, buffer, replied>>,
             IF pc' = "dead" THEN UNCHANGED taskState_ ELSE taskState_' = "GET_ALL_DATA"
      PROVE  IInv'
  <2>1. StreamInv' /\ Taken' = Taken /\ OwnBody' = OwnBody
    BY <1>1, <1>3, Still
  <2>2. TypeOK'
    BY <1>1, <1>3 DEF TypeOK, client
  <2>3. HeadInv'
    BY <1>1, <1>3, <2>1 DEF HeadInv, Waiting, Forwarding, Answering
  <2>4. TaskInv'
    BY <1>3 DEF TaskInv, Waiting, Forwarding, Answering
  <2>5. OrderInv'
    BY <1>1, <1>3, <2>1 DEF IInv, OrderInv, Waiting, Forwarding, Answering
  <2> QED
    BY <2>1, <2>2, <2>3, <2>4, <2>5 DEF IInv
<1>4. \/ BadChunk
      \/ pc' = "connect" /\ taskState_' = "GET_ALL_DATA" /\ UNCHANGED <<headerItems_, buffer, replied>>
      \/ pc' = "dead" /\ UNCHANGED <<taskState_, headerItems_, buffer, replied>>
  BY DEF TakeBody, task
<1>5. CASE pc' = "connect" /\ taskState_' = "GET_ALL_DATA" /\ UNCHANGED <<headerItems_, buffer, replied>>
  BY <1>3, <1>5
<1>6. CASE pc' = "dead" /\ UNCHANGED <<taskState_, headerItems_, buffer, replied>>
  BY <1>3, <1>6
<1> QED
  BY <1>2, <1>4, <1>5, <1>6

\* With a server: what holds of the head in hand.
LEMMA InHand ==
    ASSUME IInv, Forwarding
    PROVE  /\ TypeOK /\ StreamInv /\ Taken \in Int /\ ~Waiting
           /\ headerItems_ \in Line /\ headerItems_.pos = Taken
           /\ Increasing(forwarded) /\ Below(forwarded, Taken + 1)
           /\ Ordered(replied) /\ AnswersBelow(replied, Taken)
  BY StreamType DEF IInv, HeadInv, TaskInv, OrderInv

LEMMA FailStep ==
    ASSUME IInv, ConnectFails \/ ServerCloses
    PROVE  IInv'
<1>1. /\ pc' = "idle" /\ Fail /\ (Forwarding \/ Answering)
  BY DEF ConnectFails, ServerCloses, Goto, Forwarding, Answering
<1>2. headerItems_ \in Line /\ headerItems_.pos <= Taken /\ AnswersBelow(replied, headerItems_.pos)
  <2>1. CASE Forwarding
    BY <2>1, InHand
  <2>2. CASE Answering
    BY <2>2 DEF IInv, HeadInv, OrderInv
  <2> QED
    BY <1>1, <2>1, <2>2
<1>3. /\ taskState_' = "BAD" /\ shut' = TRUE /\ UNCHANGED headerItems_
      /\ UNCHANGED <<buffer, client, forwarded>> /\ Reply(headerItems_, FALSE)
  BY <1>1 DEF Fail
<1> QED
  BY <1>1, <1>2, <1>3, AnswerLemma

LEMMA AnswersStep ==
    ASSUME IInv, ServerAnswers \/ (GetOnClosedSocket /\ pc' = "idle" /\ renew /\ Reply(headerItems_, TRUE)
                                    /\ UNCHANGED <<shut, forwarded, buffer, client>>)
    PROVE  IInv'
<1>1. /\ pc' = "idle" /\ renew /\ Reply(headerItems_, TRUE) /\ (Forwarding \/ Answering)
      /\ UNCHANGED <<shut, forwarded, buffer, client>>
  BY DEF ServerAnswers, GetOnClosedSocket, Goto, Forwarding, Answering
<1>2. headerItems_ \in Line /\ headerItems_.pos <= Taken /\ AnswersBelow(replied, headerItems_.pos)
  <2>1. CASE Forwarding
    BY <2>1, InHand
  <2>2. CASE Answering
    BY <2>2 DEF IInv, HeadInv, OrderInv
  <2> QED
    BY <1>1, <2>1, <2>2
<1> QED
  BY <1>1, <1>2, AnswerLemma

\* Nothing is sent in the step: the worker goes on with the head in hand.
LEMMA GoesOn ==
    ASSUME IInv, UNCHANGED <<task, buffer, shut, client, forwarded, replied>>,
           \/ pc = "connect" /\ pc' = "send"
           \/ pc \in {"send", "body"} /\ pc' = "spin"
    PROVE  IInv'
<1>1. /\ Forwarding /\ pc' \in {"send", "spin"}
      /\ pc' # "spin" => pc = "connect" /\ pc' = "send"
  BY DEF Forwarding
<1>2. /\ TypeOK /\ StreamInv /\ Taken \in Int /\ ~Waiting
      /\ headerItems_ \in Line /\ headerItems_.pos = Taken
      /\ Increasing(forwarded) /\ Below(forwarded, Taken + 1)
      /\ Ordered(replied) /\ AnswersBelow(replied, Taken)
  BY <1>1, InHand
<1>3. StreamInv' /\ Taken' = Taken /\ OwnBody' = OwnBody
  BY <1>2, Still DEF task
<1>4. AnswersBelow(replied, Taken + 1)
  BY <1>2, AnswersBelowLemma
<1>5. TypeOK'
  BY <1>1, <1>2 DEF TypeOK, task, client
<1>6. HeadInv'
  BY <1>1, <1>2, <1>3 DEF IInv, HeadInv, Waiting, Forwarding, Answering, task
<1>7. TaskInv'
  BY <1>1, <1>2 DEF TaskInv, Waiting, Forwarding, Answering, task
<1>8. OrderInv'
  <2>1. pc' \in {"connect", "send"} => Below(forwarded, Taken)
    BY <1>1 DEF IInv, OrderInv
  <2> QED
    BY <1>1, <1>2, <1>3, <1>4, <2>1 DEF OrderInv, Waiting, Forwarding, Answering, task
<1> QED
  BY <1>3, <1>5, <1>6, <1>7, <1>8 DEF IInv

LEMMA SendHeadStep ==
    ASSUME IInv, SendOne \/ SendStoreHead
    PROVE  IInv'
<1>1. /\ pc = "send" /\ forwarded' = Append(forwarded, headerItems_)
      /\ UNCHANGED <<buffer, shut, client, replied>>
  BY DEF SendOne, SendStoreHead, Goto
<1>2. /\ TypeOK /\ StreamInv /\ Taken \in Int /\ ~Waiting
      /\ headerItems_ \in Line /\ headerItems_.pos = Taken
      /\ Increasing(forwarded) /\ Below(forwarded, Taken)
      /\ Ordered(replied) /\ AnswersBelow(replied, Taken)
  BY <1>1, InHand DEF IInv, OrderInv, Forwarding
<1>3. StreamInv' /\ Taken' = Taken
  BY <1>1, <1>2, Still
<1>4. /\ forwarded' \in Seq(Line) /\ Increasing(forwarded') /\ Below(forwarded', Taken + 1)
  <2>1. forwarded \in Seq(Line) /\ Taken + 1 \in Int /\ headerItems_.pos < Taken + 1
    BY <1>2 DEF TypeOK
  <2>2. Append(forwarded, headerItems_) \in Seq(Line)
    BY <1>2, <2>1, AppendProperties
  <2> QED
    BY <1>1, <1>2, <2>1, <2>2, AppendLemma
<1>5. AnswersBelow(replied, Taken + 1)
  BY <1>2, AnswersBelowLemma
<1>6. \/ pc' = "await" /\ UNCHANGED task
      \/ pc' = "idle" /\ taskState_' = "BEGIN_NEW_TASK" /\ headerItems_' = NoHead
      \/ pc' = "body" /\ UNCHANGED task /\ headerItems_.kind = "store"
  BY DEF SendOne, SendStoreHead, Sent, Goto, renew
<1>7. TypeOK'
  BY <1>1, <1>2, <1>4, <1>6 DEF TypeOK, task, client
<1>8. HeadInv'
  <2>1. headerItems_.kind = "store" => headerItems_.lines <= Len(buffer) /\ OwnBody
    BY <1>1 DEF IInv, HeadInv, Forwarding
  <2>2. UNCHANGED headerItems_ => OwnBody' = OwnBody
    BY <1>1, <1>2, Still
  <2> QED
    BY <1>1, <1>2, <1>3, <1>6, <2>1, <2>2 DEF HeadInv, Waiting, Forwarding, Answering, task
<1>9. TaskInv'
  BY <1>2, <1>6 DEF TaskInv, Waiting, Forwarding, Answering, task
<1>10. OrderInv'
  BY <1>1, <1>2, <1>3, <1>4, <1>5, <1>6 DEF OrderInv, Waiting, Forwarding, Answering, task
<1> QED
  BY <1>3, <1>7, <1>8, <1>9, <1>10 DEF IInv

LEMMA SendBodyStep ==
    ASSUME IInv, SendStoreBody
    PROVE  IInv'
<1>1. /\ pc = "body" /\ forwarded' = forwarded \o buffer /\ buffer' = <<>>
      /\ UNCHANGED <<shut, client, replied>>
  BY DEF SendStoreBody, LeftAfterStore
<1>2. /\ TypeOK /\ StreamInv /\ Taken \in Int /\ ~Waiting
      /\ headerItems_ \in Line /\ headerItems_.pos = Taken
      /\ Increasing(forwarded) /\ Below(forwarded, Taken + 1)
      /\ Ordered(replied) /\ AnswersBelow(replied, Taken)
  BY <1>1, InHand DEF Forwarding
<1>3. StreamInv' /\ Taken' = Taken + Len(buffer) /\ Len(buffer) \in Nat
  BY <1>1, <1>2, TakeAllLemma, StreamType DEF client
<1>4. /\ forwarded' \in Seq(Line) /\ Increasing(forwarded') /\ Below(forwarded', Taken' + 1)
  <2>1. forwarded \in Seq(Line) /\ buffer \in Seq(Line)
    BY <1>2 DEF TypeOK
  <2>2. \A i \in 1..Len(buffer) : buffer[i].pos = Taken + i
    <3>1. \A i \in 1..Len(buffer) : i \in 1..Len(Stream) /\ Stream[i] = buffer[i]
      BY <1>2, StreamType
    <3> QED
      BY <1>2, <3>1 DEF StreamInv
  <2>3. forwarded \o buffer \in Seq(Line)
    BY <2>1, ConcatProperties
  <2>4. Increasing(forwarded \o buffer) /\ Below(forwarded \o buffer, Taken + Len(buffer) + 1)
    BY <1>2, <2>1, <2>2, ConcatLemma
  <2> QED
    BY <1>1, <1>3, <2>3, <2>4
<1>5. AnswersBelow(replied, Taken' + 1)
  <2>1. Taken' + 1 \in Int /\ Taken <= Taken' + 1
    BY <1>2, <1>3
  <2> QED
    BY <1>2, <2>1, AnswersBelowLemma
<1>6. \/ pc' = "await" /\ UNCHANGED task
      \/ pc' = "idle" /\ taskState_' = "BEGIN_NEW_TASK" /\ headerItems_' = NoHead
  BY DEF SendStoreBody, Sent, renew
<1>7. TypeOK'
  <2>1. buffer' \in Seq(Line)
    BY <1>1
  <2> QED
    BY <1>1, <1>2, <1>4, <1>6, <2>1 DEF TypeOK, task, client
<1>8. HeadInv'
  BY <1>2, <1>3, <1>6 DEF HeadInv, Waiting, Forwarding, Answering, task
<1>9. TaskInv'
  BY <1>2, <1>6 DEF TaskInv, Waiting, Forwarding, Answering, task
<1>10. OrderInv'
  BY <1>1, <1>2, <1>4, <1>5, <1>6 DEF OrderInv, Waiting, Forwarding, Answering, task
<1> QED
  BY <1>3, <1>7, <1>8, <1>9, <1>10 DEF IInv

LEMMA ConnectionGoneStep == ASSUME IInv, ConnectionGone PROVE IInv'
<1>1. /\ TypeOK /\ StreamInv /\ pc = "idle" /\ pc' = "gone"
      /\ UNCHANGED <<task, buffer, shut, client, forwarded, replied>>
  BY DEF IInv, ConnectionGone, Goto
<1>2. StreamInv' /\ Taken' = Taken /\ OwnBody' = OwnBody
  BY <1>1, Still DEF task
<1>3. TypeOK'
  BY <1>1 DEF TypeOK, task, client
<1>4. HeadInv'
  BY <1>1, <1>2 DEF IInv, HeadInv, Waiting, Forwarding, Answering, task
<1>5. TaskInv'
  BY <1>1 DEF TaskInv, Waiting, Forwarding, Answering
<1>6. OrderInv'
  BY <1>1, <1>2 DEF IInv, OrderInv, Waiting, Forwarding, Answering, task
<1> QED
  BY <1>2, <1>3, <1>4, <1>5, <1>6 DEF IInv

LEMMA StutterStep == ASSUME IInv, UNCHANGED vars PROVE IInv'
<1>1. TypeOK /\ StreamInv /\ pc' = pc
      /\ UNCHANGED <<task, buffer, shut, client, forwarded, replied>>
  BY DEF IInv, vars
<1>2. StreamInv' /\ Taken' = Taken /\ OwnBody' = OwnBody
  BY <1>1, Still DEF task
<1>3. TypeOK'
  BY <1>1 DEF TypeOK, task, client
<1>4. HeadInv'
  BY <1>1, <1>2 DEF IInv, HeadInv, Waiting, Forwarding, Answering, task
<1>5. TaskInv'
  BY <1>1 DEF IInv, TaskInv, Waiting, Forwarding, Answering, task
<1>6. OrderInv'
  BY <1>1, <1>2 DEF IInv, OrderInv, Waiting, Forwarding, Answering, task
<1> QED
  BY <1>2, <1>3, <1>4, <1>5, <1>6 DEF IInv

LEMMA StepLemma == IInv /\ [Next]_vars => IInv'
<1> SUFFICES ASSUME IInv, [Next]_vars PROVE IInv'
  OBVIOUS
<1>1. CASE Client
  BY <1>1, ClientStep DEF Client, Kinds
<1>2. CASE OnMessage
  BY <1>2, OnMessageStep
<1>3. CASE EnterBad
  BY <1>3, EnterBadStep
<1>4. CASE ParseHead
  BY <1>4, ParseHeadStep
<1>5. CASE WaitForBody
  BY <1>5, WaitForBodyStep
<1>6. CASE TakeBody
  BY <1>6, TakeBodyStep
<1>7. CASE ConnectFails \/ ServerCloses
  BY <1>7, FailStep
<1>8. CASE Connected
  BY <1>8, GoesOn DEF Connected, Goto
<1>9. CASE SendOne \/ SendStoreHead
  BY <1>9, SendHeadStep
<1>10. CASE SendStoreBody
  BY <1>10, SendBodyStep
<1>11. CASE WriteFails
  BY <1>11, GoesOn DEF WriteFails
<1>12. CASE GetOnClosedSocket
  <2>1. CASE pc' = "spin" /\ UNCHANGED <<task, shut, replied, forwarded, buffer, client>>
    BY <1>12, <2>1, GoesOn DEF GetOnClosedSocket
  <2>3. CASE /\ pc' = "idle" /\ renew /\ Reply(headerItems_, TRUE)
             /\ UNCHANGED <<shut, forwarded, buffer, client>>
    BY <1>12, <2>3, AnswersStep
  <2> QED
    BY <1>12, <2>1, <2>3 DEF GetOnClosedSocket
<1>13. CASE ServerAnswers
  BY <1>13, AnswersStep
<1>14. CASE ConnectionGone
  BY <1>14, ConnectionGoneStep
<1>15. CASE UNCHANGED vars
  BY <1>15, StutterStep
<1> QED
  BY <1>1, <1>2, <1>3, <1>4, <1>5, <1>6, <1>7, <1>8, <1>9, <1>10, <1>11, <1>12, <1>13, <1>14,
     <1>15 DEF Next, Worker, Server

-----------------------------------------------------------------------------
(* The theorems.                                                           *)

(* What holds of the task, its buffer and its histories at every step.     *)
THEOREM TaskInvariant == Spec => []IInv
<1>1. Init => IInv
  BY InitLemma
<1>2. IInv /\ [Next]_vars => IInv'
  BY StepLemma
<1> QED
  BY <1>1, <1>2, PTL DEF Spec

(* The task never leaves the states mcacheTask.h names, and what it holds  *)
(* and has sent are lines of the client.                                   *)
THEOREM TypeCorrect == Spec => []TypeOK
<1>1. IInv => TypeOK
  BY DEF IInv
<1> QED
  BY <1>1, TaskInvariant, PTL

(* Whatever happened in a callback, the task it leaves is new, or waits    *)
(* for the body of its storage command, or the connection goes down.       *)
THEOREM TaskRests == Spec => []StateAtRest
<1>1. IInv => StateAtRest
  BY DEF IInv, TaskInv, StateAtRest
<1> QED
  BY <1>1, TaskInvariant, PTL

(* The servers get the client's lines in order and none twice, for streams *)
(* of any length.                                                          *)
THEOREM ServersReadInOrder == Spec => []ForwardedInOrder
<1>1. IInv => ForwardedInOrder
  BY DEF IInv, OrderInv, ForwardedInOrder
<1> QED
  BY <1>1, TaskInvariant, PTL

(* The client gets its answers in the order of the lines they answer, one  *)
(* for each at most, but for the two that refuse the body of a storage     *)
(* command.                                                                *)
THEOREM ClientReadsInOrder == Spec => []RepliesInOrder
<1>1. IInv => RepliesInOrder
  BY DEF IInv, OrderInv, Ordered, RepliesInOrder
<1> QED
  BY <1>1, TaskInvariant, PTL

(* Behind the head of a storage command goes what follows it in the        *)
(* stream, as much as it announced, whatever the reads its lines came in:  *)
(* its own body, if the client meant it as a head, and the lines behind it *)
(* if it is a body that was left in the buffer and reads like a head.      *)
THEOREM BodiesFollow == Spec => BodyFollowsHead
<1> DEFINE Follows ==
              LET n == Len(forwarded) IN
              /\ Len(forwarded') >= n + headerItems_.lines
              /\ \A i \in (n + 1)..Len(forwarded') :
                    /\ forwarded'[i].pos = headerItems_.pos + (i - n)
                    /\ headerItems_.part = "head" /\ i <= n + headerItems_.lines
                          => forwarded'[i].part = "body"
<1>1. IInv /\ [Next]_vars => [pc = "body" /\ pc' \in {"await", "idle"} => Follows]_vars
  <2> SUFFICES ASSUME IInv, Next, pc = "body", pc' \in {"await", "idle"} PROVE Follows
    OBVIOUS
  <2>1. SendStoreBody
    BY DEF Next, Worker, Server, Client, ClientSends, OnMessage, EnterBad, ParseHead, WaitForBody,
           TakeBody, ConnectFails, Connected, SendOne, SendStoreHead, WriteFails, GetOnClosedSocket,
           ServerAnswers, ServerCloses, ConnectionGone, Goto
  <2>2. forwarded' = forwarded \o buffer
    BY <2>1 DEF SendStoreBody
  <2>3. /\ TypeOK /\ StreamInv /\ headerItems_ \in Line /\ headerItems_.pos = Taken
        /\ headerItems_.lines <= Len(buffer) /\ OwnBody
    BY DEF IInv, HeadInv, Forwarding
  <2> DEFINE n == Len(forwarded)
             all == forwarded \o buffer
  <2>4. /\ forwarded \in Seq(Line) /\ buffer \in Seq(Line) /\ n \in Nat /\ Len(buffer) \in Nat
        /\ Taken \in Int /\ headerItems_.lines \in Nat
    BY <2>3, StreamType, LineType DEF TypeOK
  <2>5. Len(all) = n + Len(buffer) /\ \A i \in 1..(n + Len(buffer)) : i > n => all[i] = buffer[i - n]
    BY <2>4, ConcatProperties
  <2>6. \A k \in 1..Len(buffer) : k \in 1..Len(Stream) /\ Stream[k] = buffer[k]
    BY <2>3, StreamType
  <2>7. \A k \in 1..Len(buffer) : buffer[k].pos = Taken + k
    BY <2>3, <2>6 DEF StreamInv
  <2>8. ASSUME NEW k \in 1..Len(buffer), headerItems_.part = "head", k <= headerItems_.lines
        PROVE  buffer[k].part = "body"
    <3>1. k \in 1..headerItems_.lines /\ 0 + k = k /\ k <= Len(Stream)
      BY <2>4, <2>6, <2>8, StreamType, <2>3
    <3> QED
      BY <2>3, <2>6, <2>8, <3>1 DEF OwnBody, Announced
  <2> HIDE DEF all, n
  <2>9. ASSUME NEW i \in (n + 1)..Len(all)
        PROVE  /\ all[i].pos = headerItems_.pos + (i - n)
               /\ headerItems_.part = "head" /\ i <= n + headerItems_.lines => all[i].part = "body"
    <3>1. i - n \in 1..Len(buffer) /\ all[i] = buffer[i - n]
      BY <2>4, <2>5
    <3>2. i <= n + headerItems_.lines => i - n <= headerItems_.lines
      BY <2>4
    <3> QED
      BY <2>3, <2>7, <2>8, <3>1, <3>2
  <2>10. Len(all) >= n + headerItems_.lines
    BY <2>3, <2>4, <2>5
  <2> QED
    BY <2>2, <2>9, <2>10 DEF all, n
<1> QED
  BY <1>1, TaskInvariant, PTL DEF Spec, BodyFollowsHead

-----------------------------------------------------------------------------
(* What becomes of a command.                                              *)

\* A get cannot ask for silence.
Quiet(line) == line.kind = "get" => ~line.noreply

Unread == ToSet(buffer) \cup ToSet(arriving)

\* What the histories hold of the head in hand at each point of its handling.
ServedInv ==
    /\ taskState_ = "BAD" => headerItems_.kind = "quit" \/ Answered(headerItems_, FALSE)
    /\ pc \in {"body", "await"} => headerItems_ \in ToSet(forwarded)
    /\ pc = "await" => ~headerItems_.noreply
    /\ \A answer \in ToSet(replied) : answer.ok => ~answer.to.noreply
    /\ \A line \in Unread : Quiet(line)
    /\ headerItems_ # NoHead => Quiet(headerItems_)

\* What the action property says of a step.
LetGo == \A line \in {headerItems_} \ {NoHead, headerItems_'} : line.kind = "quit" \/ Served(line)'

LEMMA AppendSet ==
    ASSUME NEW S, NEW seq \in Seq(S), NEW x \in S
    PROVE  ToSet(Append(seq, x)) = ToSet(seq) \cup {x}
<1> DEFINE new == Append(seq, x)
<1>1. /\ DOMAIN seq = 1..Len(seq) /\ Len(seq) \in Nat
      /\ DOMAIN new = 1..(Len(seq) + 1)
      /\ \A i \in 1..Len(seq) : new[i] = seq[i]
      /\ new[Len(seq) + 1] = x
  BY AppendProperties, LenProperties
<1>2. \A i \in DOMAIN new : i \in DOMAIN seq \/ i = Len(seq) + 1
  BY <1>1
<1>3. \A i \in DOMAIN seq : i \in DOMAIN new
  BY <1>1
<1>4. Len(seq) + 1 \in DOMAIN new
  BY <1>1
<1> HIDE DEF new
<1> QED
  BY <1>1, <1>2, <1>3, <1>4 DEF ToSet, new

LEMMA ConcatSet ==
    ASSUME NEW S, NEW s \in Seq(S), NEW t \in Seq(S)
    PROVE  ToSet(s \o t) = ToSet(s) \cup ToSet(t)
<1> DEFINE new == s \o t
<1>1. /\ DOMAIN s = 1..Len(s) /\ Len(s) \in Nat /\ DOMAIN t = 1..Len(t) /\ Len(t) \in Nat
      /\ DOMAIN new = 1..(Len(s) + Len(t))
      /\ \A i \in DOMAIN new : new[i] = IF i <= Len(s) THEN s[i] ELSE t[i - Len(s)]
  BY ConcatProperties, LenProperties
<1> HIDE DEF new
<1>2. \A i \in DOMAIN new : new[i] \in ToSet(s) \cup ToSet(t)
  <2>1. SUFFICES ASSUME NEW i \in DOMAIN new PROVE new[i] \in ToSet(s) \cup ToSet(t)
    OBVIOUS
  <2>2. CASE i <= Len(s)
    <3>1. i \in DOMAIN s /\ new[i] = s[i]
      BY <1>1, <2>2
    <3> QED
      BY <3>1 DEF ToSet
  <2>3. CASE ~(i <= Len(s))
    <3>1. i - Len(s) \in DOMAIN t /\ new[i] = t[i - Len(s)]
      BY <1>1, <2>3
    <3> QED
      BY <3>1 DEF ToSet
  <2> QED
    BY <2>2, <2>3
<1>3. \A i \in DOMAIN s : i \in DOMAIN new /\ new[i] = s[i]
  BY <1>1
<1>4. \A i \in DOMAIN t : i + Len(s) \in DOMAIN new /\ new[i + Len(s)] = t[i]
  BY <1>1
<1>5. ToSet(new) \subseteq ToSet(s) \cup ToSet(t)
  BY <1>2 DEF ToSet
<1>6. ToSet(s) \subseteq ToSet(new)
  BY <1>3 DEF ToSet
<1>7. ToSet(t) \subseteq ToSet(new)
  BY <1>4 DEF ToSet
<1> QED
  BY <1>5, <1>6, <1>7 DEF new

LEMMA TailSet ==
    ASSUME NEW S, NEW s \in Seq(S), s # <<>>
    PROVE  Head(s) \in ToSet(s) /\ ToSet(Tail(s)) \subseteq ToSet(s)
<1>1. /\ DOMAIN s = 1..Len(s) /\ Len(s) \in Nat \ {0} /\ Head(s) = s[1]
      /\ Len(Tail(s)) = Len(s) - 1 /\ DOMAIN Tail(s) = 1..Len(Tail(s))
      /\ \A i \in 1..Len(Tail(s)) : Tail(s)[i] = s[i + 1]
  BY EmptySeq, LenProperties, HeadTailProperties
<1>2. 1 \in DOMAIN s /\ \A i \in DOMAIN Tail(s) : i + 1 \in DOMAIN s /\ Tail(s)[i] = s[i + 1]
  BY <1>1
<1> QED
  BY <1>1, <1>2 DEF ToSet

\* One answer more.
LEMMA ReplySet ==
    ASSUME TypeOK, NEW line \in Line, NEW ok \in BOOLEAN, Reply(line, ok)
    PROVE  /\ ToSet(replied') = ToSet(replied) \cup {[to |-> line, ok |-> ok]}
           /\ Answered(line, ok)'
<1>1. replied \in Seq(Answer) /\ [to |-> line, ok |-> ok] \in Answer
  BY DEF TypeOK, Answer
<1>2. ToSet(replied') = ToSet(replied) \cup {[to |-> line, ok |-> ok]}
  BY <1>1, AppendSet DEF Reply
<1> QED
  BY <1>2 DEF Answered

\* Two answers of failure.
LEMMA ReplyTwice ==
    ASSUME TypeOK, ServedInv, NEW line \in Line,
           replied' = replied \o <<[to |-> line, ok |-> FALSE], [to |-> line, ok |-> FALSE]>>
    PROVE  /\ Answered(line, FALSE)'
           /\ \A answer \in ToSet(replied') : answer.ok => ~answer.to.noreply
<1> DEFINE error == [to |-> line, ok |-> FALSE]
<1>1. error \in Answer /\ replied \in Seq(Answer) /\ error.ok = FALSE
  BY DEF TypeOK, Answer
<1> DEFINE two == <<error, error>>
<1> HIDE DEF error
<1>2. two \in Seq(Answer) /\ ToSet(two) = {error}
  <2>1. two \in Seq(Answer) /\ DOMAIN two = {1, 2} /\ two[1] = error /\ two[2] = error
    BY <1>1
  <2> HIDE DEF two
  <2> QED
    BY <2>1 DEF ToSet
<1>3. replied' = replied \o two
  BY DEF error, two
<1> HIDE DEF two
<1>4. ToSet(replied') = ToSet(replied) \cup {error}
  <2>1. ToSet(replied \o two) = ToSet(replied) \cup ToSet(two)
    BY <1>1, <1>2, ConcatSet
  <2> QED
    BY <1>2, <1>3, <2>1
<1> QED
  BY <1>1, <1>4 DEF ServedInv, Answered, error

\* An answer of success to a command that wants one.
LEMMA ReplyWanted ==
    ASSUME TypeOK, ServedInv, NEW line \in Line, NEW ok \in BOOLEAN, Reply(line, ok),
           ok => ~line.noreply
    PROVE  \A answer \in ToSet(replied') : answer.ok => ~answer.to.noreply
<1>1. \A answer \in ToSet(replied') :
         answer \in ToSet(replied) \/ answer = [to |-> line, ok |-> ok]
  BY ReplySet
<1> QED
  BY <1>1 DEF ServedInv

\* What is quiet stays quiet.
LEMMA QuietLemma ==
    ASSUME ServedInv, NEW line \in Line, line.noreply
    PROVE  ~Answered(line, TRUE)
  BY DEF ServedInv, Answered

\* The head stays: nothing is let go.
LEMMA Kept == ASSUME headerItems_' = headerItems_ \/ headerItems_ = NoHead PROVE LetGo
  BY DEF LetGo

LEMMA ServedCalls ==
    ASSUME IInv, ServedInv, OnMessage \/ EnterBad \/ WaitForBody \/ ConnectionGone
    PROVE  ServedInv' /\ LetGo
<1>1. UNCHANGED <<forwarded, replied>> /\ pc' \notin {"body", "await"}
  BY DEF OnMessage, EnterBad, WaitForBody, ConnectionGone, Goto
<1>2. Unread' = Unread
  <2>1. CASE OnMessage
    <3>1. buffer \in Seq(Line) /\ arriving \in Seq(Line)
      BY DEF IInv, TypeOK
    <3>2. buffer' = buffer \o arriving /\ ToSet(arriving') = {}
      BY <2>1 DEF OnMessage, ToSet
    <3> QED
      BY <3>1, <3>2, ConcatSet DEF Unread
  <2>2. CASE EnterBad \/ WaitForBody \/ ConnectionGone
    BY <2>2 DEF EnterBad, WaitForBody, ConnectionGone, client, Unread
  <2> QED
    BY <2>1, <2>2
<1>3. \/ UNCHANGED task
      \/ taskState_ = "BAD" /\ taskState_' = "BEGIN_NEW_TASK" /\ headerItems_' = NoHead
  BY DEF OnMessage, EnterBad, WaitForBody, ConnectionGone, renew
<1>4. ServedInv'
  BY <1>1, <1>2, <1>3 DEF ServedInv, task, Answered
<1>5. LetGo
  BY <1>1, <1>3 DEF LetGo, ServedInv, Served, Answered, task
<1> QED
  BY <1>4, <1>5

LEMMA ServedClient ==
    ASSUME IInv, ServedInv, Client
    PROVE  ServedInv' /\ LetGo
<1>1. PICK kind \in Kinds, noreply \in BOOLEAN, lines \in 0..MaxBody : ClientSends(kind, noreply, lines)
  BY DEF Client, Kinds
<1> DEFINE line == [pos |-> sent + 1, part |-> IF owed > 0 THEN "body" ELSE "head", kind |-> kind,
                    noreply |-> noreply, lines |-> lines]
<1>2. /\ UNCHANGED <<task, buffer, pc, shut, forwarded, replied>>
      /\ arriving' = Append(arriving, line) /\ (noreply => kind \in {"store", "one", "bad"})
      /\ sent < MaxLines
  BY <1>1 DEF ClientSends
<1>3. line \in Line /\ arriving \in Seq(Line)
  <2>1. sent \in 0..MaxLines /\ sent + 1 \in 1..MaxLines
    BY <1>2, LinesAssumption DEF IInv, TypeOK
  <2> QED
    BY <2>1 DEF Line, Kinds, IInv, TypeOK
<1>4. Quiet(line)
  BY <1>2 DEF Quiet
<1> HIDE DEF line
<1>5. Unread' = Unread \cup {line}
  BY <1>2, <1>3, AppendSet DEF Unread
<1> QED
  BY <1>2, <1>4, <1>5, Kept DEF ServedInv, task, Answered

LEMMA ServedParse ==
    ASSUME IInv, ServedInv, ParseHead
    PROVE  ServedInv' /\ LetGo
<1> DEFINE head == Head(buffer)
<1>1. /\ TypeOK /\ headerItems_ = NoHead /\ buffer' = Tail(buffer) /\ UNCHANGED client
      /\ buffer \in Seq(Line) /\ buffer # <<>> /\ UNCHANGED forwarded
  BY DEF IInv, TypeOK, TaskInv, ParseHead, Retrieved, Refuse
<1>2. head \in ToSet(buffer) /\ Unread' \subseteq Unread /\ head \in Line
  BY <1>1, TailSet, HeadLemma DEF Unread, client, IInv
<1>3. \/ head.kind = "quit" /\ headerItems_' = head /\ pc' = "idle" /\ UNCHANGED replied
      \/ /\ headerItems_' = head /\ taskState_' # "BAD" /\ pc' \in {"enter", "connect"}
         /\ UNCHANGED replied
      \/ /\ headerItems_' = NoHead /\ taskState_' # "BAD" /\ pc' = "idle"
         /\ UNCHANGED replied \/ Reply(head, FALSE)
  BY DEF ParseHead, Refuse, renew
<1>4. Quiet(head)
  BY <1>2 DEF ServedInv, Unread
<1> HIDE DEF head
<1>5. \A answer \in ToSet(replied') : answer.ok => ~answer.to.noreply
  <2>1. CASE UNCHANGED replied
    BY <2>1 DEF ServedInv
  <2>2. CASE Reply(head, FALSE)
    BY <1>1, <1>2, <2>2, ReplyWanted
  <2> QED
    BY <1>3, <2>1, <2>2
<1>6. ServedInv'
  BY <1>2, <1>3, <1>4, <1>5 DEF ServedInv
<1> QED
  BY <1>1, <1>6, Kept

LEMMA ServedBody ==
    ASSUME IInv, ServedInv, TakeBody
    PROVE  ServedInv' /\ LetGo
<1>1. /\ TypeOK /\ headerItems_ \in Line /\ UNCHANGED <<shut, client, forwarded>>
      /\ taskState_ = "WAIT_ENOUGH_DATA"
  BY DEF IInv, HeadInv, Waiting, TakeBody
<1>2. CASE BadChunk
  <2>1. /\ headerItems_' = NoHead /\ taskState_' = "BEGIN_NEW_TASK" /\ pc' = "idle" /\ buffer' = <<>>
        /\ replied' = replied \o <<[to |-> headerItems_, ok |-> FALSE],
                                   [to |-> headerItems_, ok |-> FALSE]>>
    BY <1>2 DEF BadChunk, renew
  <2>2. Unread' \subseteq Unread
    <3>1. ToSet(buffer') = {}
      BY <2>1 DEF ToSet
    <3> QED
      BY <1>1, <3>1 DEF Unread, client
  <2>3. /\ \A line \in {headerItems_} : Answered(line, FALSE)'
        /\ \A answer \in ToSet(replied') : answer.ok => ~answer.to.noreply
    BY <1>1, <2>1, ReplyTwice DEF Answered
  <2>4. ServedInv'
    BY <2>1, <2>2, <2>3 DEF ServedInv
  <2> QED
    BY <2>3, <2>4 DEF LetGo, Served
<1>3. CASE /\ pc' \in {"connect", "dead"} /\ taskState_' \in {"GET_ALL_DATA", taskState_}
           /\ UNCHANGED <<headerItems_, buffer, replied>>
  BY <1>1, <1>3, Kept DEF ServedInv, Unread, client, Answered
<1> QED
  BY <1>2, <1>3 DEF TakeBody, task

LEMMA ServedFail ==
    ASSUME IInv, ServedInv, pc' = "idle", Fail, Forwarding \/ Answering
    PROVE  ServedInv' /\ LetGo
<1>1. TypeOK /\ headerItems_ \in Line
  BY InHand DEF IInv, HeadInv
<1>2. /\ UNCHANGED <<headerItems_, buffer, arriving, forwarded>>
      /\ Reply(headerItems_, FALSE)
  BY DEF Fail, client
<1>3. [to |-> headerItems_, ok |-> FALSE] \in ToSet(replied')
  BY <1>1, <1>2, ReplySet
<1>4. ServedInv'
  BY <1>1, <1>2, <1>3, ReplyWanted DEF ServedInv, Answered, Unread
<1> QED
  BY <1>2, <1>4, Kept

LEMMA ServedAnswer ==
    ASSUME IInv, ServedInv, pc' = "idle", renew, Reply(headerItems_, TRUE),
           UNCHANGED <<shut, forwarded, buffer, client>>,
           headerItems_ \in Line, ~headerItems_.noreply, Asked(headerItems_)
    PROVE  ServedInv' /\ LetGo
<1>1. TypeOK /\ headerItems_' = NoHead /\ taskState_' = "BEGIN_NEW_TASK" /\ Unread' = Unread
  BY DEF IInv, renew, Unread, client
<1>2. [to |-> headerItems_, ok |-> TRUE] \in ToSet(replied')
  BY <1>1, ReplySet
<1>3. ServedInv'
  BY <1>1, ReplyWanted DEF ServedInv
<1>4. \A line \in {headerItems_} : Served(line)'
  BY <1>2 DEF Served, Answered, Asked
<1> QED
  BY <1>3, <1>4 DEF LetGo

\* The head is with the server: it is waited for, or it wanted no answer.
LEMMA ServedSent ==
    ASSUME IInv, ServedInv, Sent, UNCHANGED <<shut, client, replied>>,
           Unread' \subseteq Unread,
           headerItems_ \in Line, headerItems_ \in ToSet(forwarded')
    PROVE  ServedInv' /\ LetGo
<1>1. CASE HasReply(headerItems_)
  <2>1. UNCHANGED task /\ pc' = "await" /\ ~headerItems_.noreply
    BY <1>1 DEF Sent, HasReply
  <2> QED
    BY <2>1, Kept DEF ServedInv, task, Answered
<1>2. CASE ~HasReply(headerItems_)
  <2>1. /\ pc' = "idle" /\ headerItems_' = NoHead /\ taskState_' = "BEGIN_NEW_TASK"
        /\ headerItems_.noreply
    BY <1>2 DEF Sent, HasReply, renew
  <2>2. ~Answered(headerItems_, TRUE)
    BY <2>1, QuietLemma
  <2>3. \A line \in {headerItems_} : Served(line)'
    BY <2>1, <2>2 DEF Served, Answered, Asked
  <2>4. ServedInv'
    BY <2>1 DEF ServedInv
  <2> QED
    BY <2>3, <2>4 DEF LetGo
<1> QED
  BY <1>1, <1>2

LEMMA ServedStep == IInv /\ ServedInv /\ [Next]_vars => ServedInv' /\ LetGo
<1> SUFFICES ASSUME IInv, ServedInv, [Next]_vars PROVE ServedInv' /\ LetGo
  OBVIOUS
<1>1. CASE ConnectFails \/ ServerCloses
  BY <1>1, ServedFail DEF ConnectFails, ServerCloses, Goto, Forwarding, Answering
<1>2. CASE Connected \/ WriteFails
  BY <1>2, Kept DEF Connected, WriteFails, Goto, ServedInv, Unread, task, client, Answered
<1>3. CASE SendOne \/ SendStoreHead \/ SendStoreBody
  <2>1. Forwarding /\ headerItems_ \in Line
    BY <1>3, InHand DEF Forwarding, SendOne, SendStoreHead, SendStoreBody, Goto
  <2>2. forwarded \in Seq(Line) /\ buffer \in Seq(Line) /\ TypeOK
    BY DEF IInv, TypeOK
  <2>3. CASE SendOne
    <3>1. headerItems_ \in ToSet(forwarded') /\ Unread' = Unread
      BY <2>1, <2>2, <2>3, AppendSet DEF SendOne, Unread, client
    <3> QED
      BY <2>1, <2>3, <3>1, ServedSent DEF SendOne
  <2>4. CASE SendStoreHead
    <3>1. headerItems_ \in ToSet(forwarded') /\ Unread' = Unread
      BY <2>1, <2>2, <2>4, AppendSet DEF SendStoreHead, Unread, client
    <3> QED
      BY <2>4, <3>1, Kept DEF SendStoreHead, Goto, ServedInv, task, Answered
  <2>5. CASE SendStoreBody
    <3>1. headerItems_ \in ToSet(forwarded')
      BY <2>2, <2>5, ConcatSet DEF SendStoreBody, ServedInv
    <3>2. Unread' \subseteq Unread
      <4>1. buffer' = <<>> /\ UNCHANGED arriving
        BY <2>5 DEF SendStoreBody, LeftAfterStore, client
      <4>2. ToSet(buffer') = {}
        BY <4>1 DEF ToSet
      <4> QED
        BY <4>1, <4>2 DEF Unread
    <3> QED
      BY <2>1, <2>5, <3>1, <3>2, ServedSent DEF SendStoreBody
  <2> QED
    BY <1>3, <2>3, <2>4, <2>5
<1>4. CASE GetOnClosedSocket
  <2>1. Forwarding /\ headerItems_ \in Line /\ headerItems_.kind = "get"
    BY <1>4, InHand DEF GetOnClosedSocket, Forwarding
  <2>2. ~headerItems_.noreply /\ Asked(headerItems_)
    BY <2>1 DEF ServedInv, Quiet, NoHead, Line, Asked
  <2>3. CASE pc' = "spin" /\ UNCHANGED <<task, shut, replied, forwarded, buffer, client>>
    BY <2>3, Kept DEF ServedInv, Unread, task, client, Answered
  <2>5. CASE /\ pc' = "idle" /\ renew /\ Reply(headerItems_, TRUE)
             /\ UNCHANGED <<shut, forwarded, buffer, client>>
    BY <2>1, <2>2, <2>5, ServedAnswer
  <2> QED
    BY <1>4, <2>3, <2>5 DEF GetOnClosedSocket
<1>5. CASE ServerAnswers
  <2>1. headerItems_ \in Line /\ ~headerItems_.noreply /\ Asked(headerItems_)
    BY <1>5 DEF ServerAnswers, Goto, IInv, HeadInv, Answering, ServedInv, Asked
  <2> QED
    BY <1>5, <2>1, ServedAnswer DEF ServerAnswers, Goto
<1>6. CASE UNCHANGED vars
  BY <1>6, Kept DEF vars, task, client, ServedInv, Unread, Answered
<1> QED
  BY <1>1, <1>2, <1>3, <1>4, <1>5, <1>6, ServedCalls, ServedClient, ServedParse, ServedBody
  DEF Next, Worker, Server

(* The command in hand is not put down without an answer of failure, or a  *)
(* request to a server and the answer it wants.  Commands that go to a     *)
(* server, or are dropped, with the body before them never are in hand.    *)
THEOREM CommandInHandIsServed == Spec => HeadInHandIsServed
<1>1. Init => ServedInv
  BY DEF Init, ServedInv, Unread, ToSet
<1>2. IInv /\ ServedInv /\ [Next]_vars => ServedInv'
  BY ServedStep
<1>3. IInv /\ ServedInv /\ [Next]_vars
        => [\A line \in {headerItems_} \ {NoHead, headerItems_'} :
               line.kind = "quit" \/ Served(line)']_vars
  BY ServedStep DEF LetGo
<1> QED
  BY <1>1, <1>2, <1>3, TaskInvariant, PTL DEF Spec, HeadInHandIsServed
=============================================================================
