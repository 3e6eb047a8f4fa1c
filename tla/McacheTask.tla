----------------------------- MODULE McacheTask -----------------------------
(***************************************************************************)
(* mdm/mcacheTask.cpp: a memcached proxy.  For each client connection a    *)
(* task reads command lines and bodies from the read buffer, opens a       *)
(* connection to the server of the key, forwards the command and relays    *)
(* the answer, all inside the message callback of the connection.          *)
(*                                                                         *)
(* The client's stream is a sequence of lines: the head of a command or    *)
(* the lines of the body of a storage command, each arriving at any time   *)
(* after the one before it.  The task does not know which is which: "kind" *)
(* is what a line, head or body, says when it is read as a head.  "one"    *)
(* stands for the commands of one line: delete, incr, decr, touch,         *)
(* flush_all, version; "bad" for what is refused, of which only an incr or *)
(* decr by a negative number has a noreply that is looked at; "lines" for  *)
(* the length a storage command announces.                                 *)
(***************************************************************************)
EXTENDS Naturals, SequencesExt

CONSTANTS MaxLines,      \* bound on the client's stream
          MaxBody        \* bound on the length of a body

ASSUME LinesAssumption == MaxLines \in Nat /\ MaxBody \in Nat \ {0}

VARIABLES taskState_, headerItems_,   \* headerItems_: the head in hand, or NoHead
          buffer,                     \* the connection's read buffer
          pc,                         \* where the worker is in the callback
          shut,                       \* conn->shutdown() was called
          arriving, sent,             \* not read yet; lines the client has sent
          owed,                       \* lines the client has announced and not sent
          forwarded, replied          \* history: what the servers and the client got

task == <<taskState_, headerItems_>>
client == <<arriving, sent, owed>>
vars == <<task, buffer, pc, shut, client, forwarded, replied>>

Line == [pos : 1..MaxLines, part : {"head", "body"},
         kind : {"store", "one", "get", "quit", "bad"},
         noreply : BOOLEAN, lines : 0..MaxBody]
NoHead == [pos |-> 0]

TypeOK ==
    /\ taskState_ \in {"BAD", "BEGIN_NEW_TASK", "BEGIN_HANDLE_CMD", "WAIT_ENOUGH_DATA",
                       "GET_ALL_DATA"}
    /\ headerItems_ \in Line \cup {NoHead}
    /\ buffer \in Seq(Line) /\ arriving \in Seq(Line) /\ forwarded \in Seq(Line)
    /\ pc \in {"idle", "enter", "connect", "send", "body", "await", "spin", "gone", "dead"}
    /\ shut \in BOOLEAN /\ owed \in 0..MaxBody
    /\ sent \in 0..MaxLines
    /\ replied \in Seq([to : Line, ok : BOOLEAN])

Init ==
    /\ taskState_ = "BEGIN_NEW_TASK" /\ headerItems_ = NoHead
    /\ buffer = <<>> /\ pc = "idle" /\ shut = FALSE
    /\ arriving = <<>> /\ sent = 0 /\ owed = 0
    /\ forwarded = <<>> /\ replied = <<>>

-----------------------------------------------------------------------------
(* The client: it sends the lines it announced, whatever the answer.       *)
ClientSends(kind, noreply, lines) ==
    /\ sent < MaxLines /\ sent' = sent + 1
    /\ noreply => kind \in {"store", "one", "bad"}
    /\ lines > 0 <=> kind = "store"
    /\ owed' = IF owed > 0 THEN owed - 1 ELSE lines
    /\ arriving' = Append(arriving, [pos |-> sent + 1,
                                     part |-> IF owed > 0 THEN "body" ELSE "head",
                                     kind |-> kind, noreply |-> noreply, lines |-> lines])
    /\ UNCHANGED <<task, buffer, pc, shut, forwarded, replied>>

-----------------------------------------------------------------------------
Goto(from, to) == pc = from /\ pc' = to

\* Mutants: the state after the task is the one that parses at once; the items
\* of the head are kept.
renewToParse == taskState_' = "PARSE_PROTOCOL" /\ headerItems_' = NoHead
renewState == taskState_' = "BEGIN_NEW_TASK" /\ UNCHANGED headerItems_

renew == taskState_' = "BEGIN_NEW_TASK" /\ headerItems_' = NoHead

Reply(line, ok) == replied' = Append(replied, [to |-> line, ok |-> ok])

\* The head is refused with an error: renew, return false.
Refuse(line) ==
    /\ renew
    /\ IF line.kind = "bad" /\ line.noreply THEN UNCHANGED replied ELSE Reply(line, FALSE)
    /\ UNCHANGED <<shut, forwarded>>

\* A server failed: BAD, SERVER_ERROR, and the handle shuts the connection down.
Fail ==
    /\ taskState_' = "BAD" /\ UNCHANGED headerItems_
    /\ shut' = TRUE
    /\ Reply(headerItems_, FALSE)
    /\ UNCHANGED <<buffer, client, forwarded>>

\* OnMessageCallback, after handleRead has read all there is.  A read that ends
\* inside a line changes nothing: findCRLF returns NULL and the task returns.
OnMessage ==
    /\ Goto("idle", "enter")
    /\ arriving # <<>>
    /\ buffer' = buffer \o arriving /\ arriving' = <<>>
    /\ UNCHANGED <<task, shut, sent, owed, forwarded, replied>>

\* taskCommunition of a task that is BAD: every branch is skipped.
EnterBad ==
    /\ Goto("enter", "idle")
    /\ taskState_ = "BAD" /\ renew
    /\ UNCHANGED <<buffer, shut, client, forwarded, replied>>

\* Mutant: the head stays in the buffer.
NotRetrieved(buf) == buf

Retrieved(buf) == Tail(buf)

\* A complete line is there: PARSE_PROTOCOL, and what each handler does first,
\* be the line a head or what is left of a body.  The storage handler goes on
\* to the body in the same call.
ParseHead ==
    /\ pc = "enter" /\ taskState_ = "BEGIN_NEW_TASK" /\ buffer # <<>>
    /\ buffer' = Retrieved(buffer)
    /\ LET head == Head(buffer) IN
       \/ /\ head.kind = "bad"
          /\ pc' = "idle" /\ Refuse(head)
       \/ /\ head.kind = "quit"
          /\ pc' = "idle"
          /\ taskState_' = "BAD" /\ headerItems_' = head
          /\ shut' = TRUE
          /\ UNCHANGED <<forwarded, replied>>
       \/ /\ head.kind \in {"one", "get", "store"}
          /\ pc' = IF head.kind = "store" THEN "enter" ELSE "connect"
          /\ taskState_' = IF head.kind = "store" THEN "WAIT_ENOUGH_DATA" ELSE "BEGIN_HANDLE_CMD"
          /\ headerItems_' = head
          /\ UNCHANGED <<shut, forwarded, replied>>
    /\ UNCHANGED client

\* Mutants: the body is not waited for; one byte too many is waited for.
EnoughAtOnce(buf) == TRUE
EnoughAndMore(buf) == Len(buf) > headerItems_.lines

Enough(buf) == Len(buf) >= headerItems_.lines

WaitForBody ==
    /\ Goto("enter", "idle")
    /\ taskState_ = "WAIT_ENOUGH_DATA" /\ ~Enough(buffer)
    /\ UNCHANGED <<task, buffer, shut, client, forwarded, replied>>

\* bad data chunk: two answers, CLIENT_ERROR and ERROR, and all there is to read
\* is dropped.
BadChunk ==
    /\ pc' = "idle" /\ renew /\ buffer' = <<>>
    /\ LET error == [to |-> headerItems_, ok |-> FALSE] IN replied' = replied \o <<error, error>>

\* The two bytes behind the announced length are \r\n, or are not, or there is
\* a NUL before them: std::string throws out_of_range, which Thread.cpp catches
\* when the loop of the worker is gone.
TakeBody ==
    /\ pc = "enter" /\ taskState_ = "WAIT_ENOUGH_DATA" /\ Enough(buffer)
    /\ \/ /\ pc' = "connect" /\ taskState_' = "GET_ALL_DATA"
          /\ UNCHANGED <<headerItems_, buffer, replied>>
       \/ BadChunk
       \/ pc' = "dead" /\ UNCHANGED <<task, buffer, replied>>
    /\ UNCHANGED <<shut, client, forwarded>>

\* getSocketFromKey: no server for the key, no connection, an error, a timeout;
\* for get, no key could be connected.
ConnectFails == Goto("connect", "idle") /\ Fail

Connected ==
    /\ Goto("connect", "send")
    /\ UNCHANGED <<task, buffer, shut, client, forwarded, replied>>

\* Mutant: no answer is waited for.
NeverHasReply(head) == FALSE

HasReply(head) == ~head.noreply

\* The command is with the server: wait for its answer, or the task is over.
Sent ==
    IF HasReply(headerItems_) THEN pc' = "await" /\ UNCHANGED task
    ELSE pc' = "idle" /\ renew

SendOne ==
    /\ pc = "send" /\ headerItems_.kind = "one"
    /\ forwarded' = Append(forwarded, headerItems_)
    /\ Sent
    /\ UNCHANGED <<buffer, shut, client, replied>>

SendStoreHead ==
    /\ Goto("send", "body") /\ headerItems_.kind = "store"
    /\ forwarded' = Append(forwarded, headerItems_)
    /\ UNCHANGED <<task, buffer, shut, client, replied>>

\* Mutant: what was forwarded stays in the buffer.
LeftUnread(buf) == buf

LeftAfterStore(buf) == <<>>

\* All that is in the buffer goes to the server, what follows the body too.
SendStoreBody ==
    /\ pc = "body"
    /\ forwarded' = forwarded \o buffer
    /\ buffer' = LeftAfterStore(buffer)
    /\ Sent
    /\ UNCHANGED <<shut, client, replied>>

\* writeSizeBytes2NoBlockSock counts a failed write as -1 bytes and goes on.
WriteFails ==
    /\ pc \in {"send", "body"} /\ pc' = "spin"
    /\ headerItems_.kind # "get"
    /\ UNCHANGED <<task, buffer, shut, client, forwarded, replied>>

\* handleRetriveCmd: each Socket was closed at the end of its iteration, so
\* that the poll reports POLLNVAL and the write fails, unless another thread
\* has opened the number meanwhile: then that one is written to and read.  The
\* getsockopt before it is given no room for an error and finds none.
GetOnClosedSocket ==
    /\ pc = "send" /\ headerItems_.kind = "get"
    /\ \/ pc' = "spin" /\ UNCHANGED <<task, shut, replied, forwarded, buffer, client>>
       \/ /\ pc' = "idle" /\ renew /\ Reply(headerItems_, TRUE)
          /\ UNCHANGED <<shut, forwarded, buffer, client>>

\* readUntilStrWithEnd, which reads without end until the server has answered
\* or closed.
ServerAnswers ==
    /\ Goto("await", "idle")
    /\ renew /\ Reply(headerItems_, TRUE)
    /\ UNCHANGED <<buffer, shut, client, forwarded>>

ServerCloses == Goto("await", "idle") /\ Fail

\* The shutdown is carried out: no callback comes any more.
ConnectionGone ==
    /\ Goto("idle", "gone") /\ shut
    /\ UNCHANGED <<task, buffer, shut, client, forwarded, replied>>

Server == ServerAnswers \/ ServerCloses

Worker ==
    \/ OnMessage \/ EnterBad \/ ParseHead \/ WaitForBody \/ TakeBody
    \/ ConnectFails \/ Connected \/ SendOne \/ SendStoreHead \/ SendStoreBody
    \/ WriteFails \/ GetOnClosedSocket \/ ConnectionGone

Client ==
    \E kind \in {"store", "one", "get", "quit", "bad"}, noreply \in BOOLEAN, lines \in 0..MaxBody :
        ClientSends(kind, noreply, lines)

Next == Worker \/ Server \/ Client

Spec == Init /\ [][Next]_vars

(* The worker runs, and a server that was asked answers or closes.         *)
FairSpec == Spec /\ WF_vars(Worker) /\ WF_vars(Server)

-----------------------------------------------------------------------------
(* Between two callbacks the task is new, with nothing left of the command *)
(* before, or it waits for the body of the storage command in hand, or it  *)
(* is BAD and the connection is on its way down: each error path leaves it *)
(* in one of these, however the stream was cut into reads.                 *)
StateAtRest ==
    pc = "idle" => CASE taskState_ = "BEGIN_NEW_TASK" -> headerItems_ = NoHead
                     [] taskState_ = "WAIT_ENOUGH_DATA" -> headerItems_.kind = "store"
                     [] taskState_ = "BAD" -> shut
                     [] OTHER -> FALSE

Increasing(seq) == \A i \in 1..(Len(seq) - 1) : seq[i].pos < seq[i + 1].pos

(* The servers get lines in the order of the client, none twice, although  *)
(* a storage command takes the rest of the buffer with it.                 *)
ForwardedInOrder == Increasing(forwarded)

(* Behind the head of a storage command the server gets the lines that     *)
(* follow it in the stream, without a gap, at least as many as it          *)
(* announced, in however many reads they came; behind a head the client    *)
(* meant as one these are the lines of its own body.  (A body left in the  *)
(* buffer when its command failed is read as a head: if it spells a        *)
(* storage command, what follows it is the client's next command.)         *)
BodyFollowsHead ==
    [][pc = "body" /\ pc' \in {"await", "idle"} =>
          LET n == Len(forwarded) IN
          /\ Len(forwarded') >= n + headerItems_.lines
          /\ \A i \in (n + 1)..Len(forwarded') :
                /\ forwarded'[i].pos = headerItems_.pos + (i - n)
                /\ headerItems_.part = "head" /\ i <= n + headerItems_.lines
                      => forwarded'[i].part = "body"]_vars

(* Answers come in the order of the lines they answer, and a line has one  *)
(* at most, but for a storage command whose body is refused: it is told so *)
(* twice in a row (and never that it succeeded).                           *)
RepliesInOrder ==
    \A i, j \in DOMAIN replied : i < j =>
        \/ replied[i].to.pos < replied[j].to.pos
        \/ /\ j = i + 1 /\ replied[i] = replied[j]
           /\ replied[i].to.kind = "store" /\ ~replied[i].ok

(* The command in hand is not put down unserved, whichever call of it      *)
(* fails: the client was told that it failed, or a server was asked and    *)
(* the client has the answer exactly if it wants one.  (The sockets of a   *)
(* get are closed when they are written to: what it asks, and whom, is not *)
(* known.)  It says nothing of commands that never come to be in hand:     *)
(* those behind a body that is sent (mcacheTask.cpp:512) go to the server  *)
(* with it, those behind one that is refused (:479) are dropped.           *)
Answered(line, ok) == [to |-> line, ok |-> ok] \in ToSet(replied)
Asked(line) == line \in ToSet(forwarded) \/ line.kind = "get"
Served(line) ==
    \/ Answered(line, FALSE)
    \/ Asked(line) /\ (Answered(line, TRUE) <=> ~line.noreply)
HeadInHandIsServed ==
    [][\A line \in {headerItems_} \ {NoHead, headerItems_'} :
          line.kind = "quit" \/ Served(line)']_vars

(* The body of a storage command that waits is taken once it is there: the *)
(* task that returned early is not forgotten (unless an earlier failure    *)
(* has closed the connection meanwhile, or the worker is dead).            *)
BodyIsTaken ==
    taskState_ = "WAIT_ENOUGH_DATA" /\ Len(buffer \o arriving) >= headerItems_.lines
        ~> taskState_ # "WAIT_ENOUGH_DATA" \/ pc \in {"gone", "dead"}

-----------------------------------------------------------------------------
(* mcacheTask.cpp:389: a connection that does not succeed makes the get    *)
(* fail, with SERVER_ERROR; the callback returns.                          *)
CommandEnds == pc = "send" /\ headerItems_.kind = "get" ~> pc = "idle"
=============================================================================
