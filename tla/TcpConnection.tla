--------------------------- MODULE TcpConnection ---------------------------
(***************************************************************************)
(* One connection from accept to destruction: the acceptor thread runs     *)
(* TcpServer::defHandleAccept, which hands the connection to a worker's    *)
(* loop FIRST and sets it up afterwards, while the worker already polls,   *)
(* reads, writes and closes it (base/TcpConnection.cpp), the bucket owns   *)
(* it (base/TcpConnBucket.cpp) and the message callback is the echo of     *)
(* test/TcpServerTest.cpp or the HTTP handler (http/HttpReqHandle.cpp).    *)
(*                                                                         *)
(* Data is counted in units.  The worker is the owner of its loop, so the  *)
(* delHandle and modHandle of a handler take effect at once (EventLoop).   *)
(* HUP of a TCP socket comes with POLLIN: Handle::defaultCheckClose never  *)
(* holds, and a dead peer is seen by the read.                             *)
(***************************************************************************)
EXTENDS Integers

CONSTANTS MaxMessages,   \* messages the peer sends
          MaxRequests,   \* bound on the request headers that wait in readBuffer_
          MaxFile,       \* chunks of the longest file served
          MaxInput       \* bound on the chunks that the standard input gives

ASSUME TcpAssumption ==
    MaxMessages \in Nat /\ MaxRequests \in Nat /\ MaxFile \in Nat /\ MaxInput \in Nat

VARIABLES acc,           \* how far the acceptor is in defHandleAccept
          app,           \* which server this is
          closeCb_, messageCb_, moreDataCb_,       \* is the callback set
          conn,          \* the state of the connection that handlers change
          wp, ev,        \* where the worker is in a pass, what the poll reported
          peer, rst,     \* the peer's side; an ECONNRESET not yet read
          inq, toSend    \* data to read; messages the peer may still send

callbacks == <<closeCb_, messageCb_, moreDataCb_>>
network == <<peer, rst, inq, toSend>>
vars == <<acc, app, callbacks, conn, wp, ev, network>>

Closed == -1             \* SendMassDataContext is cleared: fd_ is 0, the standard input

TypeOK ==
    /\ acc \in {"start", "built", "bucketed", "closable", "messaged", "connected", "wake", "done"}
    /\ app \in {"echo", "http"}
    /\ closeCb_ \in BOOLEAN /\ messageCb_ \in BOOLEAN /\ moreDataCb_ \in BOOLEAN
    /\ conn \in [reg : {"none", "pending", "in", "out"},    \* the handle in the loop
                 write : BOOLEAN,                           \* its kWriteEvent
                 out : Nat,                                 \* units in writeBuffer_
                 closeing_ : BOOLEAN, shouldBeClosed_ : BOOLEAN,
                 sendAllDataOut_ : BOOLEAN, hasMoreData_ : BOOLEAN,
                 file : Closed..MaxFile,                    \* massDataC_: chunks left
                 input : 0..MaxInput,                       \* chunks on descriptor 0
                 seekFailed : BOOLEAN,                      \* history: for the last file
                 requests : 0..MaxRequests,                 \* complete headers in readBuffer_
                 stuck : BOOLEAN,                           \* BAD: it begins with an empty line
                 inBucket : BOOLEAN, queued : BOOLEAN]      \* clearInLoop in functors_
    /\ wp \in {"poll", "read", "write", "functors"}
    /\ ev \subseteq {"read", "write"}
    /\ peer \in {"open", "closed", "reset"} /\ rst \in BOOLEAN
    /\ inq \in BOOLEAN /\ toSend \in 0..MaxMessages

\* The constructor does not initialise hasMoreData_.
Init ==
    /\ acc = "start" /\ app \in {"echo", "http"}
    /\ closeCb_ = FALSE /\ messageCb_ = FALSE /\ moreDataCb_ = FALSE
    /\ \E garbage \in BOOLEAN :
          conn = [reg |-> "none", write |-> FALSE, out |-> 0,
                  closeing_ |-> FALSE, shouldBeClosed_ |-> FALSE,
                  sendAllDataOut_ |-> TRUE, hasMoreData_ |-> garbage,
                  file |-> Closed, input |-> MaxInput, seekFailed |-> FALSE,
                  requests |-> 0, stuck |-> FALSE, inBucket |-> FALSE, queued |-> FALSE]
    /\ wp = "poll" /\ ev = {}
    /\ peer = "open" /\ rst = FALSE /\ inq = FALSE /\ toSend = MaxMessages

\* The shared_ptrs: sconn of the acceptor, the bucket's, the queued functor's.
Held == acc \notin {"start", "done"} \/ conn.inBucket \/ conn.queued

-----------------------------------------------------------------------------
(* defHandleAccept.                                                        *)

Step(from, to) == acc = from /\ acc' = to
OnlyConn == UNCHANGED <<app, callbacks, wp, ev, network>>

\* accept fails, or no worker has registered its loop yet.
AcceptFails == Step("start", "done") /\ UNCHANGED conn /\ OnlyConn

\* new TcpConnection, whose constructor calls addHandle.
Accept ==
    /\ Step("start", "built")
    /\ conn' = [conn EXCEPT !.reg = "pending"]
    /\ OnlyConn

AddTcpConnection ==
    /\ Step("built", "bucketed")
    /\ conn' = [conn EXCEPT !.inBucket = TRUE]
    /\ OnlyConn

SetOnCloseCallBack ==
    /\ Step("bucketed", "closable")
    /\ closeCb_' = TRUE
    /\ UNCHANGED <<app, messageCb_, moreDataCb_, conn, wp, ev, network>>

\* onConnectionCb_, which only the HTTP server sets, in its two steps.
OnNewConnection ==
    /\ app = "http"
    /\ \/ Step("closable", "messaged") /\ messageCb_' = TRUE /\ UNCHANGED moreDataCb_
       \/ Step("messaged", "connected") /\ moreDataCb_' = TRUE /\ UNCHANGED messageCb_
    /\ UNCHANGED <<app, closeCb_, conn, wp, ev, network>>

SetOnMessageCallBack ==
    /\ acc' = "wake"
    /\ acc = IF app = "http" THEN "connected" ELSE "closable"
    /\ messageCb_' = TRUE
    /\ UNCHANGED <<app, closeCb_, moreDataCb_, conn, wp, ev, network>>

\* wakeUp; sconn goes out of scope.
AcceptReturns == Step("wake", "done") /\ UNCHANGED conn /\ OnlyConn

Acceptor ==
    \/ AcceptFails \/ Accept \/ AddTcpConnection \/ SetOnCloseCallBack
    \/ OnNewConnection \/ SetOnMessageCallBack \/ AcceptReturns

-----------------------------------------------------------------------------
(* Operations on the connection, as functions of its state c.              *)

\* sendString and sendData: enableWrite, modHandle, putDataToWriteBuffer.
putDataToWriteBuffer(c, n) == [c EXCEPT !.sendAllDataOut_ = FALSE, !.out = @ + n]
sendString(c, n) == putDataToWriteBuffer([c EXCEPT !.write = TRUE], n)

\* Mutants: the bucket keeps the connection; no functor keeps it.
NotRemoved(c) == [c EXCEPT !.closeing_ = TRUE, !.queued = TRUE]
NotQueued(c) == [c EXCEPT !.closeing_ = TRUE, !.inBucket = FALSE]

\* closeCb_ is TcpConnBucket::removeTcpConnection.
removeTcpConnection(c) == [c EXCEPT !.closeing_ = TRUE, !.inBucket = FALSE, !.queued = TRUE]

\* Mutant: shutdown closes with data left to send.
CloseAtOnce(c) == TRUE

CanCloseNow(c) == c.sendAllDataOut_

shutdown(c) ==
    IF c.closeing_ THEN c
    ELSE IF ~CanCloseNow(c) THEN [c EXCEPT !.shouldBeClosed_ = TRUE]
    ELSE IF closeCb_ THEN removeTcpConnection([c EXCEPT !.reg = "out"])
    ELSE [c EXCEPT !.reg = "out"]


handleClose(c) == shutdown([c EXCEPT !.sendAllDataOut_ = TRUE])

CloseFile(c) == [c EXCEPT !.file = Closed]

\* Mutant: the flag stays set when the file is read completely.
KeepHasMoreData(c) == c

unsetHasMoreData(c) == [c EXCEPT !.hasMoreData_ = FALSE]

EndOfFile(c) == unsetHasMoreData(CloseFile(c))

\* The read of the next chunk is interrupted, meets the end of the file (which
\* may have shrunk), fails, or succeeds.  Without a file it is the standard
\* input that is read, and no amount of it is the end: remaind_ wraps around.
ReadChunk(c) ==
    LET more == [putDataToWriteBuffer(c, 1) EXCEPT !.file = @ - 1]
    IN {c, EndOfFile(c), shutdown(EndOfFile(c))}
       \cup CASE c.file > 1 -> {more}
              [] c.file = 1 -> {shutdown(EndOfFile(more))}
              [] c.file = Closed /\ c.input > 0 ->
                    {[putDataToWriteBuffer(c, 1) EXCEPT !.input = @ - 1]}
              [] OTHER -> {}

\* The path named no regular file any more when it was opened: the file is
\* closed, hasMoreData_ is not cleared, and the code goes on to the read.
SeekFails(c) == shutdown([CloseFile(c) EXCEPT !.seekFailed = TRUE])

\* HttpReqHandle::sendMassData.
sendMassData(c) == ReadChunk(c) \cup ReadChunk(SeekFails(c))

\* HandleGet of a regular file of n chunks: the header is one unit.
HandleGet(c, n) ==
    [sendString(c, 1) EXCEPT !.file = n, !.seekFailed = FALSE, !.hasMoreData_ = TRUE]

\* Other methods do nothing; a file that cannot be served ends in shutdown.
handleMethod(c) == {c, shutdown(c)} \cup {HandleGet(c, n) : n \in 0..MaxFile}

\* One header, if there is a complete one.  A first line that is malformed is
\* taken out without its CRLF, which is then the first line of every later call.
analyseHttpRequestHeader(c) ==
    IF c.requests = 0 \/ c.stuck THEN {c}
    ELSE {[c EXCEPT !.stuck = TRUE]} \cup handleMethod([c EXCEPT !.requests = @ - 1])

\* The message callback; the echo answers, with or without shutdown.
OnMessage(c) ==
    IF app = "echo" THEN {sendString(c, 1), shutdown(sendString(c, 1))}
    ELSE analyseHttpRequestHeader(c)

-----------------------------------------------------------------------------
(* A pass of the worker's loop, as far as this connection is concerned.    *)

Readable == inq \/ rst \/ peer # "open"

\* Drain updates_, then poll.  Reading is level-triggered; whether the socket
\* takes data is the peer's affair.
Poll(events) ==
    /\ wp = "poll" /\ wp' = "read"
    /\ conn' = [conn EXCEPT !.reg = IF @ = "pending" THEN "in" ELSE @]
    /\ "read" \in events <=> conn'.reg = "in" /\ Readable
    /\ "write" \in events => conn'.reg = "in" /\ conn.write
    /\ ev' = events
    /\ UNCHANGED <<acc, app, callbacks, network>>

\* Where the headers end is up to the peer: a read completes any number of them.
Received(c) ==
    {[c EXCEPT !.requests = n] : n \in IF app = "http" THEN c.requests..MaxRequests ELSE {0}}

\* readFd takes all the data there is, then the error, then the end.
ReadData ==
    /\ inq /\ inq' = FALSE /\ UNCHANGED rst
    /\ \E c \in Received(conn) : conn' \in IF messageCb_ THEN OnMessage(c) ELSE {c}

ReadError ==
    /\ ~inq /\ rst /\ rst' = FALSE
    /\ UNCHANGED <<inq, conn>>

ReadEnd ==
    /\ ~inq /\ ~rst
    /\ conn' = IF conn.closeing_ THEN conn ELSE handleClose(conn)
    /\ UNCHANGED <<inq, rst>>

handleRead ==
    /\ wp = "read" /\ wp' = "write"
    /\ IF "read" \in ev THEN ReadData \/ ReadError \/ ReadEnd
       ELSE UNCHANGED <<inq, rst, conn>>
    /\ UNCHANGED <<acc, app, callbacks, ev, peer, toSend>>

\* Mutant: write events stay on when everything is sent.
keepWrite(c) == c

disableWrite(c) == [c EXCEPT !.write = FALSE]


\* The tail of handleWrite.
AfterWrite(c) ==
    IF c.out > 0 THEN c
    ELSE LET all == [c EXCEPT !.sendAllDataOut_ = TRUE]
         IN IF c.shouldBeClosed_ THEN handleClose(all) ELSE disableWrite(all)

MoreData(c) == IF c.hasMoreData_ /\ moreDataCb_ THEN sendMassData(c) ELSE {c}

\* Mutant: one unit too many.
RetrieveOneMore(c, n) == [c EXCEPT !.out = @ - n - 1]

Retrieve(c, n) == [c EXCEPT !.out = @ - n]

\* write() takes n units, 0 of 0 being the end of the connection.
Write(n) ==
    IF n = 0 THEN conn' = IF conn.closeing_ THEN conn ELSE handleClose(conn)
    ELSE \E c \in MoreData(Retrieve(conn, n)) : conn' = AfterWrite(c)

handleWrite ==
    /\ wp = "write" /\ wp' = "functors"
    /\ IF "write" \notin ev THEN UNCHANGED conn
       ELSE \/ UNCHANGED conn                     \* EAGAIN, or an error that is logged
            \/ /\ peer # "reset"
               /\ \E n \in 0..conn.out : (n = 0 => conn.out = 0) /\ Write(n)
    /\ UNCHANGED <<acc, app, callbacks, ev, network>>

\* Mutant: the functors of the pass are kept.
KeepFunctors ==
    /\ wp = "functors" /\ wp' = "poll"
    /\ ev' = {}
    /\ UNCHANGED <<acc, app, callbacks, conn, network>>

\* clearInLoop, and the functor with its reference is destroyed.
RunFunctors ==
    /\ wp = "functors" /\ wp' = "poll"
    /\ conn' = [conn EXCEPT !.queued = FALSE]
    /\ ev' = {}
    /\ UNCHANGED <<acc, app, callbacks, network>>

Worker ==
    \/ \E events \in SUBSET {"read", "write"} : Poll(events)
    \/ handleRead \/ handleWrite \/ RunFunctors

-----------------------------------------------------------------------------
(* The peer.                                                               *)
PeerSends ==
    /\ peer = "open" /\ toSend > 0
    /\ toSend' = toSend - 1 /\ inq' = TRUE
    /\ UNCHANGED <<acc, app, callbacks, conn, wp, ev, peer, rst>>

PeerCloses ==
    /\ peer = "open" /\ peer' = "closed"
    /\ UNCHANGED <<acc, app, callbacks, conn, wp, ev, rst, inq, toSend>>

PeerResets ==
    /\ peer # "reset" /\ peer' = "reset" /\ rst' = TRUE
    /\ UNCHANGED <<acc, app, callbacks, conn, wp, ev, inq, toSend>>

Peer == PeerSends \/ PeerCloses \/ PeerResets

Next == Acceptor \/ Worker \/ Peer

Spec == Init /\ [][Next]_vars

\* A peer that is there reads in the end: the socket takes data again.
PollWritable == \E events \in SUBSET {"read", "write"} : "write" \in events /\ Poll(events)
WriteSome == handleWrite /\ conn' # conn

(* Both threads are scheduled and their callbacks return.                  *)
FairSpec ==
    /\ Spec
    /\ WF_vars(Acceptor) /\ WF_vars(Worker)
    /\ SF_vars(PollWritable) /\ SF_vars(WriteSome)

-----------------------------------------------------------------------------
(* The handle calls the connection through a raw pointer: the connection   *)
(* keeps the contract of HandleLife.  As long as the loop knows the handle *)
(* someone holds the connection, its descriptor is closed only after the   *)
(* handle has left the loop and the pass that removed it its handlers,     *)
(* whichever of the two threads drops its reference last, and it does not  *)
(* come back.                                                              *)
Life == INSTANCE HandleLife WITH reg <- conn.reg, open <- Held, busy <- ev # {}
LifeSpec == Life!Spec

(* The asserts of removeTcpConnection and clearInLoop: the bucket holds    *)
(* the connection exactly until it is closing, what the functors wait to   *)
(* clear is closing, and the destructor has nothing to remove.             *)
BucketAgrees ==
    /\ acc \notin {"start", "built"} /\ conn.reg # "none" => conn.inBucket = ~conn.closeing_
    /\ conn.queued => conn.closeing_
    /\ acc = "done" /\ ~Held => conn.closeing_ \/ conn.reg = "none"

(* While the loop watches the connection it watches it for writing exactly *)
(* when there is data to write, also when a handler answers, shuts down    *)
(* and runs out of file at once: no data is stuck, and no empty write is   *)
(* taken for the end of the connection.                                    *)
WatchedWhileDataLeft ==
    conn.reg = "in" => /\ conn.write = (conn.out > 0)
                       /\ conn.sendAllDataOut_ = (conn.out = 0)

(* shutdown after sendString loses nothing: unless the peer has closed or  *)
(* reset, the handle leaves the loop with an empty write buffer.           *)
GracefulClose ==
    [][conn.reg = "in" /\ conn'.reg = "out" /\ peer = "open" => conn'.out = 0]_vars

\* sendMassData is about to be called.
AsksForMore == wp = "write" /\ "write" \in ev /\ conn.hasMoreData_ /\ moreDataCb_

(* More of a file is asked for with the file open, after any requests,     *)
(* ends of file and failed reads, and whatever hasMoreData_ was to begin   *)
(* with.  The one exception is a file on which lseek has failed: then the  *)
(* assert of HttpReqHandle.cpp:144 does not hold, and the connection is on *)
(* its way down.                                                           *)
MassDataHasFile ==
    AsksForMore => \/ conn.file # Closed
                   \/ conn.seekFailed /\ (conn.shouldBeClosed_ \/ conn.reg = "out")

\* What is closing is destroyed, by whichever thread is last.
ClosingIsDestroyed == conn.closeing_ ~> ~Held



-----------------------------------------------------------------------------
(* TcpServerTest.cpp:52: the callback is called when a client's message    *)
(* comes.                                                                  *)
MessageIsDelivered == [][inq /\ ~inq' => messageCb_]_vars

(* ~TcpConnection tells by closeing_ whether the handle has yet to leave   *)
(* the loop (TcpConnection.cpp:201).                                       *)
RemovedMeansClosing == conn.reg = "out" => conn.closeing_
=============================================================================
