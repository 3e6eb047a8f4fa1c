------------------------ MODULE TcpConnectionProofs ------------------------
(***************************************************************************)
(* The safety properties of TcpConnection, for any number of messages,     *)
(* requests and chunks.                                                    *)
(***************************************************************************)
EXTENDS TcpConnection, TLAPS

Conns == [reg : {"none", "pending", "in", "out"}, write : BOOLEAN, out : Nat,
          closeing_ : BOOLEAN, shouldBeClosed_ : BOOLEAN,
          sendAllDataOut_ : BOOLEAN, hasMoreData_ : BOOLEAN,
          file : Closed..MaxFile, input : 0..MaxInput, seekFailed : BOOLEAN,
          requests : 0..MaxRequests, stuck : BOOLEAN,
          inBucket : BOOLEAN, queued : BOOLEAN]

\* The acceptor has not added the connection to the bucket.
Unowned == acc \in {"start", "built"}

\* Closing means out of the loop and out of the bucket, with a functor that
\* waits for as long as the pass lasts.
OwnerInv(c) ==
    /\ c.closeing_ => c.reg = "out" /\ closeCb_
    /\ c.queued => c.closeing_
    /\ c.closeing_ /\ ev # {} => c.queued
    /\ c.inBucket <=> ~Unowned /\ c.reg # "none" /\ ~c.closeing_

\* lseek has failed on the file, and the shutdown that followed has its effect.
Broken(c) == c.seekFailed /\ (c.shouldBeClosed_ \/ c.reg = "out")

\* hasMoreData_ is right but after a failed lseek and at the beginning, before
\* anything was sent.
FileInv(c) ==
    app = "http" /\ c.hasMoreData_ =>
        c.file # Closed \/ Broken(c) \/ (c.out = 0 /\ "write" \notin ev)

\* The flags agree with the data, at rest and while data is being written.
Watched(c) == c.reg = "in" => (c.write <=> c.out > 0) /\ (c.sendAllDataOut_ <=> c.out = 0)
Writing(c) == c.reg = "in" => c.write /\ ~c.sendAllDataOut_

\* The acceptor's progress.
AccInv ==
    /\ acc = "start" => conn.reg = "none"
    /\ conn.reg = "none" => acc \in {"start", "done"}
    /\ closeCb_ => acc \notin {"start", "built", "bucketed"}
    /\ app = "echo" => ~moreDataCb_

\* A connection that no poll has seen has nothing to send.
NewInv ==
    conn.reg \in {"none", "pending"} =>
        conn.out = 0 /\ ~conn.write /\ conn.sendAllDataOut_ /\ ev = {}

PeerInv ==
    /\ rst => peer = "reset"
    /\ wp = "read" /\ "read" \in ev => Readable

IInv ==
    /\ TypeOK
    /\ OwnerInv(conn) /\ FileInv(conn) /\ Watched(conn)
    /\ AccInv /\ NewInv /\ PeerInv

-----------------------------------------------------------------------------
(* What a handler finds, and must leave, when the pass has an event.       *)
Owned(c) == c \in Conns /\ c.reg \in {"in", "out"} /\ OwnerInv(c)
Handling(c) == Owned(c) /\ FileInv(c)

\* The data of the connection is left alone, and a shutdown is not taken back.
SameData(c, d) ==
    /\ d.write = c.write /\ d.out = c.out /\ d.sendAllDataOut_ = c.sendAllDataOut_
    /\ d.file = c.file /\ d.hasMoreData_ = c.hasMoreData_ /\ d.seekFailed = c.seekFailed
    /\ c.shouldBeClosed_ => d.shouldBeClosed_

\* shutdown touches nothing but the ownership, and the registration only when
\* all data is sent; it has an effect at once or later.
LEMMA ShutdownLemma ==
    ASSUME AccInv, NEW c, Owned(c)
    PROVE  /\ Owned(shutdown(c)) /\ SameData(c, shutdown(c))
           /\ shutdown(c).reg = c.reg \/ (shutdown(c).reg = "out" /\ c.sendAllDataOut_)
           /\ ~c.closeing_ /\ c.sendAllDataOut_ => shutdown(c).reg = "out"
           /\ shutdown(c).shouldBeClosed_ \/ shutdown(c).reg = "out"
<1> DEFINE d == shutdown(c)
<1>0. c \in Conns
  BY DEF Owned
<1>1. CASE c.closeing_
  <2>1. d = c
    BY <1>1 DEF shutdown
  <2> QED
    BY <1>1, <2>1 DEF SameData, Owned, OwnerInv
<1>2. CASE ~c.closeing_ /\ ~CanCloseNow(c)
  <2>1. d = [c EXCEPT !.shouldBeClosed_ = TRUE]
    BY <1>2 DEF shutdown
  <2>2. d \in Conns /\ SameData(c, d) /\ d.reg = c.reg /\ d.closeing_ = c.closeing_
        /\ d.queued = c.queued /\ d.inBucket = c.inBucket /\ d.shouldBeClosed_
    BY <1>0, <2>1 DEF Conns, SameData
  <2> QED
    BY <1>2, <2>2 DEF Owned, OwnerInv, CanCloseNow
<1>3. CASE ~c.closeing_ /\ CanCloseNow(c) /\ closeCb_
  <2>1. d = removeTcpConnection([c EXCEPT !.reg = "out"])
    BY <1>3 DEF shutdown
  <2>2. d \in Conns /\ SameData(c, d) /\ d.reg = "out" /\ d.closeing_ /\ d.queued /\ ~d.inBucket
    BY <1>0, <2>1 DEF removeTcpConnection, Conns, SameData
  <2> QED
    BY <1>3, <2>2 DEF Owned, OwnerInv, CanCloseNow, AccInv
<1>4. CASE ~c.closeing_ /\ CanCloseNow(c) /\ ~closeCb_
  <2>1. d = [c EXCEPT !.reg = "out"]
    BY <1>4 DEF shutdown
  <2>2. d \in Conns /\ SameData(c, d) /\ d.reg = "out" /\ d.closeing_ = c.closeing_
        /\ d.queued = c.queued /\ d.inBucket = c.inBucket
    BY <1>0, <2>1 DEF Conns, SameData
  <2> QED
    BY <1>4, <2>2 DEF Owned, OwnerInv, CanCloseNow
<1> QED
  BY <1>1, <1>2, <1>3, <1>4

LEMMA ShutdownHandles ==
    ASSUME AccInv, NEW c, Handling(c)
    PROVE  Handling(shutdown(c))
<1>1. /\ Owned(shutdown(c)) /\ SameData(c, shutdown(c))
      /\ c.reg = "out" => shutdown(c).reg = "out"
  BY ShutdownLemma DEF Handling
<1>2. Broken(c) => Broken(shutdown(c))
  BY <1>1 DEF Broken, SameData
<1> QED
  BY <1>1, <1>2 DEF Handling, FileInv, Broken, SameData

\* What any handler may do to the registration: give it up with nothing to send.
Closes(c, d) == d.reg = c.reg \/ (d.reg = "out" /\ d.out = 0)

LEMMA ShutdownAtRest ==
    ASSUME AccInv, NEW c, Handling(c), Watched(c)
    PROVE  /\ Handling(shutdown(c)) /\ Watched(shutdown(c))
           /\ Closes(c, shutdown(c))
  BY ShutdownLemma, ShutdownHandles DEF Handling, Owned, Watched, SameData, Closes

LEMMA HandleCloseLemma ==
    ASSUME AccInv, NEW c, Handling(c)
    PROVE  /\ Handling(handleClose(c)) /\ handleClose(c).reg = "out"
           /\ handleClose(c).out = c.out
<1> DEFINE a == [c EXCEPT !.sendAllDataOut_ = TRUE]
<1>1. a \in Conns /\ a.reg = c.reg /\ a.closeing_ = c.closeing_ /\ a.queued = c.queued
      /\ a.inBucket = c.inBucket /\ a.out = c.out /\ a.file = c.file
      /\ a.hasMoreData_ = c.hasMoreData_ /\ a.sendAllDataOut_
      /\ a.seekFailed = c.seekFailed /\ a.shouldBeClosed_ = c.shouldBeClosed_
  BY DEF Handling, Owned, Conns
<1>2. Handling(a)
  BY <1>1 DEF Handling, Owned, OwnerInv, FileInv, Broken
<1>3. Owned(a) /\ (a.closeing_ => a.reg = "out")
  BY <1>2 DEF Handling, Owned, OwnerInv
<1>4. handleClose(c) = shutdown(a)
  BY DEF handleClose
<1> QED
  BY <1>1, <1>2, <1>3, <1>4, ShutdownLemma, ShutdownHandles DEF SameData

\* Data that is put into writeBuffer_ is data to send.
LEMMA PutLemma ==
    ASSUME NEW c \in Conns
    PROVE  LET d == putDataToWriteBuffer(c, 1)
           IN /\ d \in Conns /\ d.out = c.out + 1 /\ ~d.sendAllDataOut_
              /\ d.reg = c.reg /\ d.write = c.write /\ d.closeing_ = c.closeing_
              /\ d.queued = c.queued /\ d.inBucket = c.inBucket /\ d.file = c.file
              /\ d.hasMoreData_ = c.hasMoreData_ /\ d.input = c.input
              /\ d.seekFailed = c.seekFailed /\ d.shouldBeClosed_ = c.shouldBeClosed_
<1>1. c.out \in Nat /\ c.out + 1 \in Nat
  BY DEF Conns
<1> QED
  BY <1>1 DEF putDataToWriteBuffer, Conns

\* An answer makes the loop watch for writing.
LEMMA AnswerLemma ==
    ASSUME NEW c \in Conns, c.reg \in {"in", "out"}, OwnerInv(c)
    PROVE  LET d == sendString(c, 1)
           IN /\ d \in Conns /\ OwnerInv(d) /\ Watched(d)
              /\ d.reg = c.reg /\ ~d.sendAllDataOut_
<1> DEFINE a == [c EXCEPT !.write = TRUE]
           d == sendString(c, 1)
<1>1. a \in Conns /\ a.write /\ a.out = c.out /\ a.out \in Nat /\ a.reg = c.reg
      /\ a.closeing_ = c.closeing_ /\ a.queued = c.queued /\ a.inBucket = c.inBucket
  BY DEF Conns
<1>2. d = putDataToWriteBuffer(a, 1)
  BY DEF sendString
<1>3. d \in Conns /\ d.reg = a.reg /\ d.closeing_ = a.closeing_ /\ d.queued = a.queued
      /\ d.inBucket = a.inBucket /\ d.out = a.out + 1 /\ d.write /\ ~d.sendAllDataOut_
  BY <1>1, <1>2, PutLemma
<1>4. OwnerInv(d)
  BY <1>1, <1>3 DEF OwnerInv
<1>5. Watched(d)
  BY <1>1, <1>3 DEF Watched
<1> QED
  BY <1>1, <1>3, <1>4, <1>5

-----------------------------------------------------------------------------
(* The handlers of a pass.                                                 *)

\* What a handler leaves, of what it found.
Handled(c, d) ==
    /\ Handling(d) /\ Watched(d)
    /\ Closes(c, d)

LEMMA AnsweredAndShut ==
    ASSUME AccInv, NEW c, NEW d, d.reg = c.reg, Handling(d), Watched(d)
    PROVE  Handled(c, d) /\ Handled(c, shutdown(d))
  BY ShutdownAtRest DEF Handled, Closes

LEMMA HandleGetLemma ==
    ASSUME NEW c, Handling(c), NEW n \in 0..MaxFile
    PROVE  LET d == HandleGet(c, n) IN Handling(d) /\ Watched(d) /\ d.reg = c.reg
<1> DEFINE a == sendString(c, 1)
           d == HandleGet(c, n)
<1>1. a \in Conns /\ OwnerInv(a) /\ Watched(a) /\ a.reg = c.reg
  BY AnswerLemma DEF Handling, Owned
<1>2. n \in Closed..MaxFile /\ n # Closed
  BY TcpAssumption DEF Closed
<1>3. d = [a EXCEPT !.file = n, !.seekFailed = FALSE, !.hasMoreData_ = TRUE]
  BY DEF HandleGet
<1>4. d \in Conns /\ d.reg = a.reg /\ d.closeing_ = a.closeing_ /\ d.queued = a.queued
      /\ d.inBucket = a.inBucket /\ d.out = a.out /\ d.write = a.write
      /\ d.sendAllDataOut_ = a.sendAllDataOut_ /\ d.file = n
  <2> HIDE DEF a
  <2> QED
    BY <1>1, <1>2, <1>3 DEF Conns
<1>5. Handling(d)
  BY <1>1, <1>2, <1>4 DEF Handling, Owned, OwnerInv, FileInv
<1>6. Watched(d)
  BY <1>1, <1>4 DEF Watched
<1> QED
  BY <1>1, <1>4, <1>5, <1>6

LEMMA MessageLemma ==
    ASSUME AccInv, app \in {"echo", "http"}, NEW c, Handling(c), Watched(c),
           NEW d \in OnMessage(c)
    PROVE  Handled(c, d)
<1>1. CASE app = "echo"
  <2> DEFINE a == sendString(c, 1)
  <2>1. Handling(a) /\ Watched(a) /\ a.reg = c.reg
    BY <1>1, AnswerLemma DEF Handling, Owned, FileInv
  <2>2. d = a \/ d = shutdown(a)
    BY <1>1 DEF OnMessage
  <2> HIDE DEF a
  <2> QED
    BY <2>1, <2>2, AnsweredAndShut
<1>2. CASE app = "http"
  <2> DEFINE fewer == [c EXCEPT !.requests = @ - 1]
             stuck == [c EXCEPT !.stuck = TRUE]
  <2>1. d \in analyseHttpRequestHeader(c)
    BY <1>2 DEF OnMessage
  <2>2. CASE d = c
    BY <2>2, AnsweredAndShut
  <2>3. CASE d = stuck
    <3>1. d \in Conns /\ SameData(c, d) /\ d.reg = c.reg /\ d.closeing_ = c.closeing_
          /\ d.queued = c.queued /\ d.inBucket = c.inBucket
      BY <2>3 DEF Handling, Owned, Conns, SameData
    <3>2. Handling(d) /\ Watched(d)
      BY <3>1 DEF Handling, Owned, OwnerInv, FileInv, Broken, Watched, SameData
    <3> QED
      BY <3>1, <3>2, AnsweredAndShut
  <2>4. CASE c.requests # 0 /\ d \in handleMethod(fewer)
    <3>1. c.requests \in 0..MaxRequests /\ c.requests - 1 \in 0..MaxRequests
      BY <2>4, TcpAssumption DEF Handling, Owned, Conns
    <3>2. fewer \in Conns /\ SameData(c, fewer) /\ fewer.reg = c.reg
          /\ fewer.closeing_ = c.closeing_ /\ fewer.queued = c.queued
          /\ fewer.inBucket = c.inBucket
      BY <3>1 DEF Handling, Owned, Conns, SameData
    <3>3. Handling(fewer) /\ Watched(fewer)
      BY <3>2 DEF Handling, Owned, OwnerInv, FileInv, Broken, Watched, SameData
    <3> HIDE DEF fewer
    <3>4. CASE d \in {fewer, shutdown(fewer)}
      BY <3>2, <3>3, <3>4, AnsweredAndShut
    <3>5. CASE \E n \in 0..MaxFile : d = HandleGet(fewer, n)
      BY <3>2, <3>3, <3>5, HandleGetLemma, AnsweredAndShut
    <3> QED
      BY <2>4, <3>4, <3>5 DEF handleMethod
  <2> QED
    BY <2>1, <2>2, <2>3, <2>4 DEF analyseHttpRequestHeader
<1> QED
  BY <1>1, <1>2
LEMMA WritingShut ==
    ASSUME AccInv, NEW c, NEW d, d.reg = c.reg, Handling(d), Writing(d),
           NEW x \in {d, shutdown(d)}
    PROVE  Handling(x) /\ Writing(x) /\ x.reg = c.reg
  BY ShutdownLemma, ShutdownHandles DEF Handling, Owned, Writing, SameData

LEMMA EndOfFileLemma ==
    ASSUME NEW c \in Conns
    PROVE  LET d == EndOfFile(c)
           IN /\ d \in Conns /\ ~d.hasMoreData_ /\ d.reg = c.reg /\ d.write = c.write
              /\ d.closeing_ = c.closeing_ /\ d.queued = c.queued /\ d.inBucket = c.inBucket
              /\ d.sendAllDataOut_ = c.sendAllDataOut_
<1>1. Closed \in Closed..MaxFile
  BY TcpAssumption DEF Closed
<1> DEFINE shut == [c EXCEPT !.file = Closed]
<1>2. EndOfFile(c) = [shut EXCEPT !.hasMoreData_ = FALSE]
  BY DEF EndOfFile, unsetHasMoreData, CloseFile
<1>3. /\ shut \in Conns /\ shut.reg = c.reg /\ shut.write = c.write
      /\ shut.closeing_ = c.closeing_ /\ shut.queued = c.queued /\ shut.inBucket = c.inBucket
      /\ shut.sendAllDataOut_ = c.sendAllDataOut_
  BY <1>1 DEF Conns
<1> HIDE DEF shut
<1> QED
  BY <1>2, <1>3 DEF Conns

\* The read of a chunk, from a file or, after a failed lseek, from descriptor 0.
LEMMA ReadChunkLemma ==
    ASSUME AccInv, app \in {"echo", "http"}, "write" \in ev,
           NEW c, Handling(c), Writing(c), NEW d \in ReadChunk(c)
    PROVE  Handling(d) /\ Writing(d) /\ d.reg = c.reg
<1> DEFINE eof == EndOfFile(c)
           put == putDataToWriteBuffer(c, 1)
           more == [put EXCEPT !.file = @ - 1]
           typed == [put EXCEPT !.input = @ - 1]
<1>1. CASE d = c
  BY <1>1, WritingShut
<1>2. CASE d \in {eof, shutdown(eof)}
  <2>1. /\ eof \in Conns /\ ~eof.hasMoreData_ /\ eof.reg = c.reg /\ eof.write = c.write
        /\ eof.closeing_ = c.closeing_ /\ eof.queued = c.queued /\ eof.inBucket = c.inBucket
        /\ eof.sendAllDataOut_ = c.sendAllDataOut_
    BY EndOfFileLemma DEF Handling, Owned
  <2>2. Handling(eof) /\ Writing(eof)
    BY <2>1 DEF Handling, Owned, OwnerInv, FileInv, Writing
  <2> HIDE DEF eof
  <2> QED
    BY <1>2, <2>1, <2>2, WritingShut
<1>3. CASE c.file > 0 /\ d \in {more, shutdown(EndOfFile(more))}
  <2>1. /\ put \in Conns /\ ~put.sendAllDataOut_ /\ put.reg = c.reg /\ put.write = c.write
        /\ put.closeing_ = c.closeing_ /\ put.queued = c.queued /\ put.inBucket = c.inBucket
        /\ put.file = c.file
    BY PutLemma DEF Handling, Owned
  <2>2. c.file - 1 \in Closed..MaxFile /\ c.file - 1 # Closed
    BY <1>3, TcpAssumption DEF Handling, Owned, Conns, Closed
  <2> HIDE DEF put
  <2>3. /\ more \in Conns /\ ~more.sendAllDataOut_ /\ more.reg = c.reg /\ more.write = c.write
        /\ more.closeing_ = c.closeing_ /\ more.queued = c.queued
        /\ more.inBucket = c.inBucket /\ more.file = c.file - 1
    BY <2>1, <2>2 DEF Conns
  <2>4. Handling(more) /\ Writing(more)
    BY <2>2, <2>3 DEF Handling, Owned, OwnerInv, FileInv, Broken, Writing
  <2> DEFINE last == EndOfFile(more)
  <2> HIDE DEF more
  <2>5. /\ last \in Conns /\ ~last.hasMoreData_ /\ last.reg = c.reg /\ last.write = c.write
        /\ last.closeing_ = c.closeing_ /\ last.queued = c.queued
        /\ last.inBucket = c.inBucket /\ ~last.sendAllDataOut_
    BY <2>3, EndOfFileLemma
  <2>6. Handling(last) /\ Writing(last)
    BY <2>5 DEF Handling, Owned, OwnerInv, FileInv, Broken, Writing
  <2> HIDE DEF last
  <2> QED
    BY <1>3, <2>3, <2>4, <2>5, <2>6, WritingShut DEF last
<1>4. CASE c.file = Closed /\ c.input > 0 /\ d = typed
  <2>1. /\ put \in Conns /\ ~put.sendAllDataOut_ /\ put.reg = c.reg /\ put.write = c.write
        /\ put.closeing_ = c.closeing_ /\ put.queued = c.queued /\ put.inBucket = c.inBucket
        /\ put.file = c.file /\ put.input = c.input /\ put.hasMoreData_ = c.hasMoreData_
        /\ put.seekFailed = c.seekFailed /\ put.shouldBeClosed_ = c.shouldBeClosed_
    BY PutLemma DEF Handling, Owned
  <2>2. c.input - 1 \in 0..MaxInput
    BY <1>4, TcpAssumption DEF Handling, Owned, Conns
  <2> HIDE DEF put
  <2>3. /\ typed \in Conns /\ ~typed.sendAllDataOut_ /\ typed.reg = c.reg
        /\ typed.write = c.write /\ typed.closeing_ = c.closeing_ /\ typed.queued = c.queued
        /\ typed.inBucket = c.inBucket /\ typed.file = c.file
        /\ typed.hasMoreData_ = c.hasMoreData_ /\ typed.seekFailed = c.seekFailed
        /\ typed.shouldBeClosed_ = c.shouldBeClosed_
    BY <2>1, <2>2 DEF Conns
  <2> QED
    BY <1>4, <2>3 DEF Handling, Owned, OwnerInv, FileInv, Broken, Writing
<1>5. \/ d \in {c, eof, shutdown(eof)}
      \/ c.file > 0 /\ d \in {more, shutdown(EndOfFile(more))}
      \/ c.file = Closed /\ c.input > 0 /\ d = typed
  <2>1. c.file \in Int
    BY DEF Handling, Owned, Conns, Closed
  <2>2. CASE c.file > 1
    BY <2>1, <2>2 DEF ReadChunk
  <2>3. CASE c.file = 1
    BY <2>3 DEF ReadChunk
  <2>4. CASE ~(c.file > 1) /\ c.file # 1 /\ c.file = Closed /\ c.input > 0
    BY <2>4 DEF ReadChunk
  <2>5. CASE ~(c.file > 1) /\ c.file # 1 /\ ~(c.file = Closed /\ c.input > 0)
    BY <2>5 DEF ReadChunk
  <2> QED
    BY <2>1, <2>2, <2>3, <2>4, <2>5
<1> QED
  BY <1>1, <1>2, <1>3, <1>4, <1>5

\* A failed lseek leaves hasMoreData_ without a file, on its way down.
LEMMA SeekFailsLemma ==
    ASSUME AccInv, NEW c, Handling(c), Writing(c)
    PROVE  LET d == SeekFails(c) IN Handling(d) /\ Writing(d) /\ d.reg = c.reg
<1> DEFINE closed == [CloseFile(c) EXCEPT !.seekFailed = TRUE]
           d == SeekFails(c)
<1>1. Closed \in Closed..MaxFile
  BY TcpAssumption DEF Closed
<1>2. /\ closed \in Conns /\ closed.reg = c.reg /\ closed.write = c.write
      /\ closed.closeing_ = c.closeing_ /\ closed.queued = c.queued
      /\ closed.inBucket = c.inBucket /\ closed.seekFailed
      /\ closed.sendAllDataOut_ = c.sendAllDataOut_
  BY <1>1 DEF CloseFile, Handling, Owned, Conns
<1>3. Owned(closed)
  BY <1>2 DEF Handling, Owned, OwnerInv
<1>4. d = shutdown(closed)
  BY DEF SeekFails
<1> HIDE DEF closed, d
<1>5. /\ Owned(d) /\ SameData(closed, d) /\ Broken(d)
      /\ d.reg = closed.reg \/ (d.reg = "out" /\ closed.sendAllDataOut_)
  BY <1>2, <1>3, <1>4, ShutdownLemma DEF Broken, SameData
<1>6. Handling(d)
  BY <1>5 DEF Handling, FileInv
<1>7. Writing(d) /\ d.reg = c.reg
  BY <1>2, <1>5 DEF Writing, SameData, Handling, Owned
<1> QED
  BY <1>6, <1>7 DEF d

LEMMA MoreDataLemma ==
    ASSUME AccInv, app \in {"echo", "http"}, "write" \in ev,
           NEW c, Handling(c), Writing(c), NEW d \in MoreData(c)
    PROVE  Handling(d) /\ Writing(d) /\ d.reg = c.reg
<1>1. d = c \/ d \in ReadChunk(c) \/ d \in ReadChunk(SeekFails(c))
  BY DEF MoreData, sendMassData
<1>2. Handling(SeekFails(c)) /\ Writing(SeekFails(c)) /\ SeekFails(c).reg = c.reg
  BY SeekFailsLemma
<1> QED
  BY <1>1, <1>2, ReadChunkLemma

LEMMA AfterWriteLemma ==
    ASSUME AccInv, NEW c, Handling(c), Writing(c)
    PROVE  Handled(c, AfterWrite(c))
<1> DEFINE all == [c EXCEPT !.sendAllDataOut_ = TRUE]
           none == [all EXCEPT !.write = FALSE]
<1>0. c.out \in Nat
  BY DEF Handling, Owned, Conns
<1>1. CASE c.out > 0
  <2>1. AfterWrite(c) = c
    BY <1>1 DEF AfterWrite
  <2> QED
    BY <1>0, <1>1, <2>1 DEF Handled, Watched, Writing, Closes
<1>2. CASE c.out = 0
  <2>1. /\ all \in Conns /\ all.sendAllDataOut_ /\ all.reg = c.reg /\ all.out = 0
        /\ all.closeing_ = c.closeing_ /\ all.queued = c.queued /\ all.inBucket = c.inBucket
        /\ all.file = c.file /\ all.hasMoreData_ = c.hasMoreData_
    BY <1>2 DEF Handling, Owned, Conns
  <2>2. Handling(all)
    BY <1>2, <2>1 DEF Handling, Owned, OwnerInv, FileInv, Broken
  <2>3. AfterWrite(c) = handleClose(all) \/ AfterWrite(c) = none
    BY <1>2 DEF AfterWrite, disableWrite
  <2> HIDE DEF all
  <2>4. CASE AfterWrite(c) = handleClose(all)
    BY <2>1, <2>2, <2>4, HandleCloseLemma DEF Handled, Watched, Closes
  <2>5. CASE AfterWrite(c) = none
    <3>1. /\ none \in Conns /\ none.sendAllDataOut_ /\ ~none.write /\ none.reg = c.reg
          /\ none.out = 0 /\ none.closeing_ = all.closeing_ /\ none.queued = all.queued
          /\ none.inBucket = all.inBucket /\ none.file = all.file
          /\ none.hasMoreData_ = all.hasMoreData_
      BY <2>1 DEF Conns
    <3>2. Handling(none) /\ Watched(none)
      BY <2>1, <2>2, <3>1 DEF Handling, Owned, OwnerInv, FileInv, Broken, Watched
    <3> QED
      BY <2>5, <3>1, <3>2 DEF Handled, Closes
  <2> QED
    BY <2>3, <2>4, <2>5
<1> QED
  BY <1>0, <1>1, <1>2
-----------------------------------------------------------------------------
(* The inductive invariant.                                                *)

LEMMA InitLemma == Init => IInv
<1> SUFFICES ASSUME Init PROVE IInv
  OBVIOUS
<1>1. PICK garbage \in BOOLEAN :
          conn = [reg |-> "none", write |-> FALSE, out |-> 0,
                  closeing_ |-> FALSE, shouldBeClosed_ |-> FALSE,
                  sendAllDataOut_ |-> TRUE, hasMoreData_ |-> garbage,
                  file |-> Closed, input |-> MaxInput, seekFailed |-> FALSE,
                  requests |-> 0, stuck |-> FALSE, inBucket |-> FALSE, queued |-> FALSE]
  BY DEF Init
<1>2. Closed \in Closed..MaxFile /\ 0 \in 0..MaxRequests /\ MaxMessages \in 0..MaxMessages
      /\ MaxInput \in 0..MaxInput
  BY TcpAssumption DEF Closed
<1>3. conn \in Conns /\ conn.reg = "none" /\ ~conn.write /\ conn.out = 0 /\ ~conn.closeing_
      /\ conn.sendAllDataOut_ /\ ~conn.inBucket /\ ~conn.queued
  BY <1>1, <1>2 DEF Conns
<1>4. TypeOK
  BY <1>2, <1>3 DEF Init, TypeOK, Conns
<1> QED
  BY <1>3, <1>4
  DEF Init, IInv, OwnerInv, FileInv, Broken, Watched, AccInv, NewInv, PeerInv

\* A pass with an event is a pass over a connection that a poll has seen.
LEMMA InPass ==
    ASSUME IInv, ev # {}
    PROVE  Handling(conn) /\ Watched(conn) /\ AccInv /\ app \in {"echo", "http"}
  BY DEF IInv, TypeOK, NewInv, Handling, Owned, Conns

\* What the handlers leave alone, and that the rest is as they must leave it.
LEMMA PassLemma ==
    ASSUME IInv, ev # {}, UNCHANGED <<acc, app, callbacks, ev, toSend, peer>>,
           wp' \in {"write", "functors"}, rst' \in BOOLEAN, rst' => rst, inq' \in BOOLEAN,
           Handling(conn'), Watched(conn')
    PROVE  IInv'
<1>1. UNCHANGED <<acc, app, closeCb_, messageCb_, moreDataCb_, ev, toSend, peer>>
  BY DEF callbacks
<1>2. conn' \in Conns /\ conn'.reg \in {"in", "out"}
  BY DEF Handling, Owned
<1>3. TypeOK'
  BY <1>1, <1>2 DEF IInv, TypeOK, Conns
<1>4. OwnerInv(conn)' /\ FileInv(conn)' /\ Watched(conn)'
  BY <1>1 DEF Handling, Owned, OwnerInv, FileInv, Broken, Watched, Unowned
<1>5. AccInv' /\ NewInv' /\ PeerInv'
  BY <1>1, <1>2, InPass DEF IInv, AccInv, NewInv, PeerInv, Handling, Owned
<1> QED
  BY <1>3, <1>4, <1>5 DEF IInv

\* The registration is given up with data left only when the peer has gone,
\* and for good.
Leaves ==
    /\ conn.reg = "in" /\ conn'.reg = "out" /\ peer = "open" => conn'.out = 0
    /\ conn.reg = "out" => conn'.reg = "out"

LEMMA ReadLemma ==
    ASSUME IInv, handleRead
    PROVE  IInv' /\ Leaves
<1>1. CASE "read" \notin ev
  <2>1. UNCHANGED <<acc, app, callbacks, network, conn, ev>> /\ wp' = "write"
    BY <1>1 DEF handleRead, network
  <2> QED
    BY <2>1
    DEF IInv, TypeOK, OwnerInv, FileInv, Broken, Watched, AccInv, NewInv, PeerInv, callbacks, network,
        Unowned, Leaves
<1>2. CASE "read" \in ev
  <2>0. /\ wp = "read" /\ wp' = "write" /\ ev # {} /\ Readable
        /\ UNCHANGED <<acc, app, callbacks, ev, toSend, peer>>
    BY <1>2 DEF handleRead, IInv, PeerInv
  <2>1. Handling(conn) /\ Watched(conn) /\ AccInv /\ app \in {"echo", "http"}
    BY <2>0, InPass
  <2>2. CASE ReadData
    <3>1. PICK c \in Received(conn) : conn' \in IF messageCb_ THEN OnMessage(c) ELSE {c}
      BY <2>2 DEF ReadData
    <3>2. PICK n \in 0..MaxRequests : c = [conn EXCEPT !.requests = n]
      <4>1. conn.requests \in 0..MaxRequests
        BY <2>1 DEF Handling, Owned, Conns
      <4>2. conn.requests..MaxRequests \subseteq 0..MaxRequests /\ 0 \in 0..MaxRequests
        BY <4>1, TcpAssumption
      <4> QED
        BY <4>2 DEF Received
    <3>3. c \in Conns /\ SameData(conn, c) /\ c.reg = conn.reg /\ c.closeing_ = conn.closeing_
          /\ c.queued = conn.queued /\ c.inBucket = conn.inBucket
      BY <2>1, <3>2 DEF Handling, Owned, Conns, SameData
    <3>4. Handling(c) /\ Watched(c)
      BY <2>1, <3>3 DEF Handling, Owned, OwnerInv, FileInv, Broken, Watched, SameData
    <3>5. Handled(c, conn')
      BY <2>1, <3>1, <3>4, MessageLemma, AnsweredAndShut
    <3>6. Handled(conn, conn')
      BY <3>3, <3>5 DEF Handled, Closes
    <3>7. rst' = rst /\ inq' = FALSE
      BY <2>2 DEF ReadData
    <3> QED
      BY <2>0, <3>6, <3>7, PassLemma DEF Handled, Closes, Leaves, IInv, TypeOK
  <2>3. CASE ReadError
    <3>1. rst' = FALSE /\ inq' = inq /\ conn' = conn
      BY <2>3 DEF ReadError
    <3>2. Handled(conn, conn')
      BY <2>1, <3>1 DEF Handled, Closes
    <3>3. inq' \in BOOLEAN
      BY <3>1 DEF IInv, TypeOK
    <3> QED
      BY <2>0, <3>1, <3>2, <3>3, PassLemma DEF Leaves, Handled, IInv, TypeOK
  <2>4. CASE ReadEnd
    <3>1. peer # "open"
      BY <2>0, <2>4 DEF ReadEnd, Readable
    <3>2. rst' = rst /\ inq' \in BOOLEAN
      BY <2>4 DEF ReadEnd, IInv, TypeOK
    <3>3. Handling(handleClose(conn)) /\ Watched(handleClose(conn)) /\ handleClose(conn).reg = "out"
      BY <2>1, HandleCloseLemma DEF Watched
    <3>4. IInv'
      <4>1. CASE conn.closeing_
        <5>1. Handled(conn, conn')
          BY <2>1, <2>4, <4>1 DEF ReadEnd, Handled, Closes
        <5> QED
          BY <2>0, <3>2, <5>1, PassLemma DEF Handled, IInv, TypeOK
      <4>2. CASE ~conn.closeing_
        <5>1. conn' = handleClose(conn)
          BY <2>4, <4>2 DEF ReadEnd
        <5> QED
          BY <2>0, <3>2, <3>3, <5>1, PassLemma DEF IInv, TypeOK
      <4> QED
        BY <4>1, <4>2
    <3> QED
      BY <2>4, <3>1, <3>3, <3>4 DEF Leaves, ReadEnd
  <2> QED
    BY <1>2, <2>2, <2>3, <2>4 DEF handleRead
<1> QED
  BY <1>1, <1>2

LEMMA WriteLemma ==
    ASSUME IInv, handleWrite
    PROVE  IInv' /\ Leaves
<1>1. UNCHANGED <<acc, app, callbacks, network, ev>> /\ wp' = "functors"
  BY DEF handleWrite
<1>2. CASE conn' = conn
  BY <1>1, <1>2
  DEF IInv, TypeOK, OwnerInv, FileInv, Broken, Watched, AccInv, NewInv, PeerInv, callbacks, network,
      Unowned, Leaves
<1>3. CASE conn' # conn
  <2>1. "write" \in ev
    BY <1>3 DEF handleWrite
  <2>2. PICK n \in 0..conn.out : (n = 0 => conn.out = 0) /\ Write(n)
    BY <1>3, <2>1 DEF handleWrite
  <2>3. Handling(conn) /\ Watched(conn) /\ AccInv /\ app \in {"echo", "http"}
    BY <2>1, InPass
  <2>4. conn.out \in Nat
    BY <2>3 DEF Handling, Owned, Conns
  <2>5. CASE n = 0
    <3>1. conn' = handleClose(conn)
      BY <1>3, <2>2, <2>5 DEF Write
    <3>2. Handled(conn, conn')
      BY <2>2, <2>3, <2>5, <3>1, HandleCloseLemma DEF Handled, Watched, Closes
    <3> QED
      BY <1>1, <2>1, <3>2, PassLemma DEF network, Handled, Closes, Leaves, IInv, TypeOK
  <2>6. CASE n # 0
    <3> DEFINE c == Retrieve(conn, n)
    <3>1. conn.out > 0 /\ conn.out - n \in Nat
      BY <2>2, <2>4, <2>6
    <3>2. /\ c \in Conns /\ c.reg = conn.reg /\ c.write = conn.write
          /\ c.closeing_ = conn.closeing_ /\ c.queued = conn.queued
          /\ c.inBucket = conn.inBucket /\ c.file = conn.file
          /\ c.hasMoreData_ = conn.hasMoreData_
          /\ c.sendAllDataOut_ = conn.sendAllDataOut_
          /\ c.seekFailed = conn.seekFailed /\ c.shouldBeClosed_ = conn.shouldBeClosed_
      BY <2>3, <3>1 DEF Retrieve, Handling, Owned, Conns
    <3>3. Handling(c) /\ Writing(c)
      BY <2>1, <2>3, <3>1, <3>2 DEF Handling, Owned, OwnerInv, FileInv, Broken, Watched, Writing
    <3>4. PICK d \in MoreData(c) : conn' = AfterWrite(d)
      BY <2>2, <2>6 DEF Write
    <3> HIDE DEF c
    <3>5. Handling(d) /\ Writing(d) /\ d.reg = c.reg
      BY <2>1, <2>3, <3>3, <3>4, MoreDataLemma
    <3>6. Handled(conn, conn')
      BY <2>3, <3>2, <3>4, <3>5, AfterWriteLemma DEF Handled, Closes
    <3> QED
      BY <1>1, <2>1, <3>6, PassLemma DEF network, Handled, Closes, Leaves, IInv, TypeOK
  <2> QED
    BY <2>5, <2>6
<1> QED
  BY <1>2, <1>3
LEMMA PollLemma ==
    ASSUME IInv, NEW events \in SUBSET {"read", "write"}, Poll(events)
    PROVE  IInv' /\ Leaves
<1>1. /\ UNCHANGED <<acc, app, closeCb_, messageCb_, moreDataCb_, peer, rst, inq, toSend>>
      /\ wp' = "read" /\ ev' = events
      /\ conn' = [conn EXCEPT !.reg = IF @ = "pending" THEN "in" ELSE @]
  BY DEF Poll, callbacks, network
<1>2. conn \in Conns
  BY DEF IInv, TypeOK, Conns
<1>3. /\ conn' \in Conns /\ SameData(conn, conn') /\ conn'.closeing_ = conn.closeing_
      /\ conn'.queued = conn.queued /\ conn'.inBucket = conn.inBucket
      /\ conn'.reg = IF conn.reg = "pending" THEN "in" ELSE conn.reg
  BY <1>1, <1>2 DEF Conns, SameData
<1>4. TypeOK'
  BY <1>1, <1>3 DEF IInv, TypeOK, Conns
<1>5. conn.out \in Nat
  BY <1>2 DEF Conns
<1>6. Watched(conn)'
  BY <1>1, <1>3, <1>5 DEF IInv, Watched, NewInv, SameData
<1>7. /\ "read" \in events <=> conn'.reg = "in" /\ Readable
      /\ "write" \in events => conn'.reg = "in" /\ conn.write
  BY DEF Poll
<1>8. ev' # {} => conn'.reg = "in"
  BY <1>1, <1>7
<1>9. OwnerInv(conn)'
  BY <1>1, <1>3, <1>8 DEF IInv, OwnerInv, Unowned
<1>10. FileInv(conn)'
  <2>1. "write" \in events => conn'.out > 0
    BY <1>1, <1>3, <1>6, <1>7 DEF Watched, SameData
  <2>2. "write" \in events => conn.out # 0
    BY <1>3, <1>5, <2>1 DEF SameData
  <2> QED
    BY <1>1, <1>3, <2>2 DEF IInv, FileInv, Broken, SameData
<1>11. AccInv'
  BY <1>1, <1>3 DEF IInv, AccInv
<1>12. NewInv'
  BY <1>1, <1>3, <1>8 DEF IInv, NewInv, SameData
<1>13. PeerInv'
  BY <1>1, <1>7 DEF IInv, PeerInv, Readable
<1> QED
  BY <1>3, <1>4, <1>6, <1>9, <1>10, <1>11, <1>12, <1>13 DEF IInv, Leaves

LEMMA RunFunctorsLemma ==
    ASSUME IInv, RunFunctors
    PROVE  IInv' /\ Leaves
<1>1. /\ UNCHANGED <<acc, app, closeCb_, messageCb_, moreDataCb_, peer, rst, inq, toSend>>
      /\ wp' = "poll" /\ ev' = {} /\ conn' = [conn EXCEPT !.queued = FALSE]
  BY DEF RunFunctors, callbacks, network
<1>2. conn \in Conns
  BY DEF IInv, TypeOK, Conns
<1>3. /\ conn' \in Conns /\ SameData(conn, conn') /\ conn'.closeing_ = conn.closeing_
      /\ ~conn'.queued /\ conn'.inBucket = conn.inBucket /\ conn'.reg = conn.reg
  BY <1>1, <1>2 DEF Conns, SameData
<1>4. TypeOK'
  BY <1>1, <1>3 DEF IInv, TypeOK, Conns
<1>5. OwnerInv(conn)' /\ FileInv(conn)' /\ Watched(conn)'
  BY <1>1, <1>3 DEF IInv, OwnerInv, FileInv, Broken, Watched, SameData, Unowned
<1>6. AccInv' /\ NewInv' /\ PeerInv'
  BY <1>1, <1>3 DEF IInv, AccInv, NewInv, PeerInv, SameData
<1> QED
  BY <1>3, <1>4, <1>5, <1>6 DEF IInv, Leaves

LEMMA AcceptorLemma ==
    ASSUME IInv, Acceptor
    PROVE  IInv' /\ Leaves
<1>0. conn \in Conns
  BY DEF IInv, TypeOK, Conns
<1>1. CASE Accept
  <2>1. /\ UNCHANGED <<app, closeCb_, messageCb_, moreDataCb_, wp, ev, peer, rst, inq, toSend>>
        /\ acc = "start" /\ acc' = "built" /\ conn' = [conn EXCEPT !.reg = "pending"]
    BY <1>1 DEF Accept, Step, OnlyConn, callbacks, network
  <2>2. /\ conn' \in Conns /\ SameData(conn, conn') /\ conn'.closeing_ = conn.closeing_
        /\ conn'.queued = conn.queued /\ conn'.inBucket = conn.inBucket
        /\ conn'.reg = "pending" /\ conn.reg = "none"
    BY <1>0, <2>1 DEF Conns, SameData, IInv, AccInv
  <2>3. TypeOK'
    BY <2>1, <2>2 DEF IInv, TypeOK, Conns
  <2>4. OwnerInv(conn)' /\ FileInv(conn)' /\ Watched(conn)'
    BY <2>1, <2>2 DEF IInv, OwnerInv, FileInv, Broken, Watched, SameData, Unowned
  <2>5. AccInv' /\ NewInv' /\ PeerInv'
    BY <2>1, <2>2 DEF IInv, AccInv, NewInv, PeerInv, SameData, Readable
  <2> QED
    BY <2>2, <2>3, <2>4, <2>5 DEF IInv, Leaves
<1>2. CASE AddTcpConnection
  <2>1. /\ UNCHANGED <<app, closeCb_, messageCb_, moreDataCb_, wp, ev, peer, rst, inq, toSend>>
        /\ acc = "built" /\ acc' = "bucketed" /\ conn' = [conn EXCEPT !.inBucket = TRUE]
    BY <1>2 DEF AddTcpConnection, Step, OnlyConn, callbacks, network
  <2>2. /\ conn' \in Conns /\ SameData(conn, conn') /\ conn'.closeing_ = conn.closeing_
        /\ conn'.queued = conn.queued /\ conn'.inBucket /\ conn'.reg = conn.reg
    BY <1>0, <2>1 DEF Conns, SameData
  <2>3. conn.reg # "none" /\ ~conn.closeing_
    BY <2>1 DEF IInv, AccInv, OwnerInv
  <2>4. TypeOK'
    BY <2>1, <2>2 DEF IInv, TypeOK, Conns
  <2>5. OwnerInv(conn)' /\ FileInv(conn)' /\ Watched(conn)'
    BY <2>1, <2>2, <2>3 DEF IInv, OwnerInv, FileInv, Broken, Watched, SameData, Unowned
  <2>6. AccInv' /\ NewInv' /\ PeerInv'
    BY <2>1, <2>2 DEF IInv, AccInv, NewInv, PeerInv, SameData, Readable
  <2> QED
    BY <2>2, <2>4, <2>5, <2>6 DEF IInv, Leaves
<1>3. CASE AcceptFails \/ SetOnCloseCallBack \/ OnNewConnection \/ SetOnMessageCallBack
              \/ AcceptReturns
  <2>1. UNCHANGED <<app, conn, wp, ev, peer, rst, inq, toSend>>
    BY <1>3
    DEF AcceptFails, SetOnCloseCallBack, OnNewConnection, SetOnMessageCallBack, AcceptReturns,
        OnlyConn, network
  <2>2. TypeOK'
    <3>1. acc' \in {"start", "built", "bucketed", "closable", "messaged", "connected", "wake",
                    "done"}
      BY <1>3
      DEF AcceptFails, SetOnCloseCallBack, OnNewConnection, SetOnMessageCallBack, AcceptReturns,
          Step
    <3>2. /\ closeCb_' \in {closeCb_, TRUE} /\ messageCb_' \in {messageCb_, TRUE}
          /\ moreDataCb_' \in {moreDataCb_, TRUE}
      BY <1>3, Zenon
      DEF AcceptFails, SetOnCloseCallBack, OnNewConnection, SetOnMessageCallBack, AcceptReturns,
          OnlyConn, callbacks
    <3>3. closeCb_ \in BOOLEAN /\ messageCb_ \in BOOLEAN /\ moreDataCb_ \in BOOLEAN
      BY DEF IInv, TypeOK
    <3>4. closeCb_' \in BOOLEAN /\ messageCb_' \in BOOLEAN /\ moreDataCb_' \in BOOLEAN
      BY <3>2, <3>3, Zenon
    <3> QED
      BY <2>1, <3>1, <3>4 DEF IInv, TypeOK
  <2>3. /\ closeCb_ => closeCb_'
        /\ closeCb_' => acc' \notin {"start", "built", "bucketed"}
        /\ Unowned' = Unowned \/ (acc = "start" /\ acc' = "done")
        /\ acc' # "start" /\ (conn.reg = "none" => acc' \in {"start", "done"})
    BY <1>3
    DEF AcceptFails, SetOnCloseCallBack, OnNewConnection, SetOnMessageCallBack, AcceptReturns,
        OnlyConn, callbacks, Step, IInv, AccInv, Unowned
  <2>4. app = "echo" => ~moreDataCb_'
    BY <1>3
    DEF AcceptFails, SetOnCloseCallBack, OnNewConnection, SetOnMessageCallBack, AcceptReturns,
        OnlyConn, callbacks, IInv, AccInv
  <2>5. OwnerInv(conn)' /\ FileInv(conn)' /\ Watched(conn)'
    BY <2>1, <2>3 DEF IInv, OwnerInv, FileInv, Broken, Watched, AccInv
  <2>6. AccInv' /\ NewInv' /\ PeerInv'
    BY <2>1, <2>3, <2>4 DEF IInv, AccInv, NewInv, PeerInv, Readable
  <2> QED
    BY <2>1, <2>2, <2>5, <2>6 DEF IInv, Leaves
<1> QED
  BY <1>1, <1>2, <1>3 DEF Acceptor

LEMMA PeerLemma ==
    ASSUME IInv, Peer
    PROVE  IInv' /\ Leaves
<1>1. UNCHANGED <<acc, app, closeCb_, messageCb_, moreDataCb_, conn, wp, ev>>
  BY DEF Peer, PeerSends, PeerCloses, PeerResets, callbacks
<1>2. TypeOK'
  <2>0. /\ peer \in {"open", "closed", "reset"} /\ rst \in BOOLEAN /\ inq \in BOOLEAN
        /\ toSend \in 0..MaxMessages
    BY DEF IInv, TypeOK
  <2>1. /\ peer' \in {"open", "closed", "reset"} /\ rst' \in BOOLEAN /\ inq' \in BOOLEAN
        /\ toSend' \in 0..MaxMessages
    <3>1. CASE PeerSends
      <4>1. toSend - 1 \in 0..MaxMessages
        BY <2>0, <3>1, TcpAssumption DEF PeerSends
      <4> QED
        BY <2>0, <3>1, <4>1 DEF PeerSends
    <3>2. CASE PeerCloses \/ PeerResets
      BY <2>0, <3>2 DEF PeerCloses, PeerResets
    <3> QED
      BY <3>1, <3>2 DEF Peer
  <2> QED
    BY <1>1, <2>1 DEF IInv, TypeOK
<1>3. OwnerInv(conn)' /\ FileInv(conn)' /\ Watched(conn)' /\ AccInv' /\ NewInv'
  BY <1>1 DEF IInv, OwnerInv, FileInv, Broken, Watched, AccInv, NewInv, Unowned
<1>4. PeerInv'
  BY <1>1 DEF Peer, PeerSends, PeerCloses, PeerResets, IInv, PeerInv, Readable
<1> QED
  BY <1>1, <1>2, <1>3, <1>4 DEF IInv, Leaves

LEMMA StepLemma == IInv /\ [Next]_vars => IInv' /\ Leaves
<1>1. ASSUME IInv, UNCHANGED vars PROVE IInv' /\ Leaves
  <2>1. UNCHANGED <<acc, app, closeCb_, messageCb_, moreDataCb_, conn, wp, ev, peer, rst, inq,
                    toSend>>
    BY <1>1 DEF vars, callbacks, network
  <2> QED
    BY <1>1, <2>1
    DEF IInv, TypeOK, OwnerInv, FileInv, Broken, Watched, AccInv, NewInv, PeerInv, Unowned, Readable,
        Leaves
<1> QED
  BY <1>1, AcceptorLemma, PollLemma, ReadLemma, WriteLemma, RunFunctorsLemma, PeerLemma
  DEF Next, Worker

(* IInv holds in every state.                                              *)
THEOREM ConnectionInvariant == Spec => []IInv
<1>1. IInv /\ [Next]_vars => IInv'
  BY StepLemma
<1> QED
  BY <1>1, InitLemma, PTL DEF Spec

(* The connection's variables keep their types.                            *)
THEOREM TypeCorrect == Spec => []TypeOK
<1>1. IInv => TypeOK
  BY DEF IInv
<1> QED
  BY <1>1, ConnectionInvariant, PTL

-----------------------------------------------------------------------------
(* The contract of HandleLife.                                             *)

\* As long as the loop may use the raw pointer somebody holds the connection.
HeldInv ==
    /\ conn.reg \in {"pending", "in"} \/ ev # {} => Held
    /\ conn.reg = "none" => ev = {} /\ acc \in {"start", "done"} /\ ~Held

LEMMA HeldLemma == IInv => HeldInv
  BY DEF IInv, OwnerInv, AccInv, NewInv, HeldInv, Held, Unowned, TypeOK

LEMMA LifeInit == Init => Life!Init
<1> SUFFICES ASSUME Init PROVE Life!Init
  OBVIOUS
<1>1. acc = "start" /\ ev = {} /\ conn.reg = "none" /\ ~conn.inBucket /\ ~conn.queued
  BY DEF Init
<1>2. Held = FALSE
  BY <1>1 DEF Held
<1> QED
  BY <1>1, <1>2 DEF Life!Init

\* A handler removes the handle or leaves it: its event is still to be dealt with.
LEMMA HandlerLives ==
    ASSUME IInv, IInv', handleRead \/ handleWrite, Leaves
    PROVE  Life!Remove \/ UNCHANGED Life!vars
<1>1. UNCHANGED <<acc, ev>>
  BY DEF handleRead, handleWrite
<1>2. CASE ev = {}
  <2>1. conn' = conn
    BY <1>2 DEF handleRead, handleWrite
  <2> QED
    BY <1>1, <2>1 DEF Life!vars, Held
<1>3. CASE ev # {}
  <2>1. Held = TRUE /\ Held' = TRUE
    <3>1. HeldInv /\ HeldInv'
      BY HeldLemma, PTL
    <3> QED
      BY <1>1, <1>3, <3>1, Zenon DEF HeldInv, Held
  <2>2. conn.reg \in {"in", "out"} /\ conn'.reg \in {"in", "out"}
    BY <1>1, <1>3 DEF IInv, NewInv, TypeOK
  <2>3. conn'.reg = conn.reg \/ (conn.reg = "in" /\ conn'.reg = "out")
    BY <2>2 DEF Leaves
  <2> QED
    BY <1>1, <2>1, <2>3 DEF Life!Remove, Life!vars
<1> QED
  BY <1>2, <1>3

LEMMA AcceptorLives ==
    ASSUME IInv, IInv', Acceptor
    PROVE  Life!Register \/ Life!Close \/ UNCHANGED Life!vars
<1>0. HeldInv /\ HeldInv'
  BY HeldLemma, PTL
<1>1. CASE AcceptFails
  <2>1. acc = "start" /\ acc' = "done" /\ conn' = conn /\ ev' = ev
    BY <1>1 DEF AcceptFails, Step, OnlyConn
  <2> QED
    BY <2>1 DEF Held, Life!vars
<1>2. CASE Accept
  <2>1. /\ acc = "start" /\ acc' = "built" /\ ev' = ev
        /\ conn.reg = "none" /\ conn' = [conn EXCEPT !.reg = "pending"]
    BY <1>2 DEF Accept, Step, OnlyConn, IInv, AccInv
  <2>2. conn'.reg = "pending"
    BY <2>1 DEF IInv, TypeOK
  <2>3. Held' = TRUE
    BY <2>1 DEF Held
  <2> QED
    BY <2>1, <2>2, <2>3 DEF Life!Register
<1>3. CASE AddTcpConnection \/ SetOnCloseCallBack \/ OnNewConnection \/ SetOnMessageCallBack
  <2>1. acc \notin {"start", "done"} /\ acc' \notin {"start", "done"} /\ ev' = ev
    BY <1>3
    DEF AddTcpConnection, SetOnCloseCallBack, OnNewConnection, SetOnMessageCallBack, OnlyConn,
        Step
  <2>2. Held = TRUE /\ Held' = TRUE
    BY <2>1 DEF Held
  <2>3. conn'.reg = conn.reg
    BY <1>3
    DEF AddTcpConnection, SetOnCloseCallBack, OnNewConnection, SetOnMessageCallBack, OnlyConn,
        Step, IInv, TypeOK
  <2> QED
    BY <2>1, <2>2, <2>3 DEF Life!vars
<1>4. CASE AcceptReturns
  <2>1. acc = "wake" /\ acc' = "done" /\ conn' = conn /\ ev' = ev
    BY <1>4 DEF AcceptReturns, Step, OnlyConn
  <2>2. Held = TRUE
    BY <2>1 DEF Held
  <2>3. CASE Held' = TRUE
    BY <2>1, <2>2, <2>3 DEF Life!vars
  <2>4. CASE Held' = FALSE
    <3>1. conn.reg = "out" /\ ev = {}
      BY <1>0, <2>1, <2>4 DEF HeldInv, IInv, TypeOK
    <3>2. (ev # {}) = FALSE /\ (ev' # {}) = FALSE
      BY <2>1, <3>1
    <3> QED
      BY <2>1, <2>2, <2>4, <3>1, <3>2 DEF Life!Close
  <2> QED
    BY <2>3, <2>4 DEF Held
<1> QED
  BY <1>1, <1>2, <1>3, <1>4 DEF Acceptor

LEMMA PollLives ==
    ASSUME IInv, NEW events \in SUBSET {"read", "write"}, Poll(events)
    PROVE  Life!Watch \/ Life!Report \/ Life!Handled \/ UNCHANGED Life!vars
<1>1. /\ acc' = acc /\ ev' = events
      /\ conn' = [conn EXCEPT !.reg = IF @ = "pending" THEN "in" ELSE @]
  BY DEF Poll
<1>2. /\ conn'.reg = IF conn.reg = "pending" THEN "in" ELSE conn.reg
      /\ conn'.inBucket = conn.inBucket /\ conn'.queued = conn.queued
  BY <1>1 DEF IInv, TypeOK
<1>3. Held' = Held
  BY <1>1, <1>2 DEF Held
<1>4. ev' # {} => conn'.reg = "in"
  BY <1>1 DEF Poll
<1>5. (ev' # {}) \in BOOLEAN
  OBVIOUS
<1>6. CASE conn.reg = "pending"
  BY <1>2, <1>3, <1>5, <1>6 DEF Life!Watch
<1>7. CASE conn.reg # "pending" /\ ev' # {}
  <2>1. (ev' # {}) = TRUE
    BY <1>7
  <2> QED
    BY <1>2, <1>3, <1>4, <1>7, <2>1 DEF Life!Report
<1>8. CASE conn.reg # "pending" /\ ev' = {}
  <2>1. (ev' # {}) = FALSE
    BY <1>8
  <2> QED
    BY <1>2, <1>3, <1>8, <2>1 DEF Life!Handled, Life!vars
<1> QED
  BY <1>6, <1>7, <1>8

\* The functors end the pass, and may take the last reference with them.
LEMMA FunctorsLive ==
    ASSUME IInv, RunFunctors
    PROVE  Life!Handled \/ Life!Close \/ UNCHANGED Life!vars
<1>1. acc' = acc /\ ev' = {} /\ conn' = [conn EXCEPT !.queued = FALSE]
  BY DEF RunFunctors
<1>2. conn'.reg = conn.reg /\ conn'.inBucket = conn.inBucket /\ ~conn'.queued
  BY <1>1 DEF IInv, TypeOK
<1>3. (ev' # {}) = FALSE
  BY <1>1
<1>4. CASE Held' = Held
  BY <1>2, <1>3, <1>4 DEF Life!Handled, Life!vars
<1>5. CASE Held' # Held
  <2>1. Held = TRUE /\ Held' = FALSE /\ conn.queued
    BY <1>1, <1>2, <1>5 DEF Held
  <2>2. conn.reg = "out"
    BY <2>1 DEF IInv, OwnerInv
  <2> QED
    BY <1>2, <1>3, <2>1, <2>2 DEF Life!Close
<1> QED
  BY <1>4, <1>5

LEMMA LifeStep == IInv /\ [Next]_vars => [Life!Next]_(Life!vars)
<1> SUFFICES ASSUME IInv, [Next]_vars PROVE Life!Next \/ UNCHANGED Life!vars
  BY Zenon
<1>1. IInv' /\ Leaves
  BY StepLemma
<1>2. CASE Peer \/ UNCHANGED vars
  <2>1. UNCHANGED <<acc, conn, ev>>
    BY <1>2 DEF Peer, PeerSends, PeerCloses, PeerResets, vars
  <2> QED
    BY <2>1 DEF Held, Life!vars
<1> QED
  BY <1>1, <1>2, AcceptorLives, PollLives, HandlerLives, FunctorsLive
  DEF Next, Worker, Life!Next

(* The connection keeps the contract: no handler runs on freed memory, the *)
(* descriptor outlives its registration and the pass that ended it,        *)
(* whichever thread drops its reference last, and it does not come back.   *)
THEOREM ConnectionLivesByContract == Spec => LifeSpec
  BY LifeInit, LifeStep, ConnectionInvariant, PTL DEF Spec, LifeSpec, Life!Spec

-----------------------------------------------------------------------------
(* The asserts of the bucket hold.                                         *)
THEOREM BucketAlwaysAgrees == Spec => []BucketAgrees
<1>1. IInv => BucketAgrees
  BY DEF IInv, OwnerInv, BucketAgrees, Held, Unowned, TypeOK
<1> QED
  BY <1>1, ConnectionInvariant, PTL

(* No data is stuck in a connection that the loop does not watch.          *)
THEOREM DataIsAlwaysWatched == Spec => []WatchedWhileDataLeft
<1>1. IInv => WatchedWhileDataLeft
  BY DEF IInv, Watched, WatchedWhileDataLeft, TypeOK
<1> QED
  BY <1>1, ConnectionInvariant, PTL

(* sendMassData is called with a file open, or after lseek has failed on   *)
(* the file that was, with the connection on its way down.                 *)
THEOREM MassDataAlwaysHasFile == Spec => []MassDataHasFile
<1>1. IInv => MassDataHasFile
  BY DEF IInv, FileInv, Broken, AccInv, AsksForMore, MassDataHasFile, TypeOK
<1> QED
  BY <1>1, ConnectionInvariant, PTL

(* Nothing that was accepted for sending is lost by a shutdown.            *)
THEOREM CloseIsGraceful == Spec => GracefulClose
<1>1. IInv /\ [Next]_vars
        => [conn.reg = "in" /\ conn'.reg = "out" /\ peer = "open" => conn'.out = 0]_vars
  BY StepLemma DEF Leaves
<1> QED
  BY <1>1, ConnectionInvariant, PTL DEF Spec, GracefulClose
=============================================================================
