----------------------------- MODULE PingServer -----------------------------
(***************************************************************************)
(* The io_uring ping server of src/examples/pingserver/ping_iouring_server.cc *)
(* running on the Proactor engine: main() starts the proactor thread and   *)
(* the uring AcceptServer; the accept loop spawns one PingConnection fiber *)
(* per accepted socket; the break signal stops the acceptor, then the     *)
(* proactor, and main joins the proactor thread.                           *)
(*                                                                         *)
(* The clients are the environment: each one connects, sends ping requests *)
(* (whole, or split over two segments), waits for each reply (or, with   *)
(* Pipelining, sends the next one before it), and may close its end or    *)
(* reset the connection at any time.  Socket results are                  *)
(* io_uring results: a byte count, or a negated errno.                     *)
(***************************************************************************)
EXTENDS Proactor

CONSTANTS
    Conns,        \* the client connections, also their socket fds
    Acceptor,     \* the accept-loop fiber of uring::AcceptServer
    MaxRequests,  \* bound: ping requests one client sends
    PartialWrites,\* the kernel may complete a write_some short (spec 4.3)
    Pipelining    \* a client may send its next request before the reply

ASSUME Conns \subseteq Nat /\ Acceptor \notin Conns
ASSUME Tasks = Conns \cup {Acceptor}
ASSUME MaxRequests \in Nat /\ PartialWrites \in BOOLEAN /\ Pipelining \in BOOLEAN

(* Linux errno values, negated in io_uring results.                       *)
EPIPE        == 32
ECONNABORTED == 103
ECONNRESET   == 104
ECANCELED    == 125

(* A request is "PING" in two halves; a read returns the halves waiting in *)
(* the socket buffer.  Reply length of "+PONG\r\n".                        *)
RequestHalves == 2
ReplyLen      == 7

(* What a drained connection's pending operation completes with: "a       *)
(* closed/canceled error" (spec section 5).                                *)
DrainResults == {-ECONNABORTED, -ECANCELED}

PeerStates == {"absent", "idle", "half", "waiting", "closed", "reset"}
MainPcs    == {"serving", "waitConns", "join", "exited"}

VARIABLES
    peer,       \* client side of each connection
    wire,       \* request halves sent by the client and not yet read
    sent,       \* requests each client has started
    replies,    \* replies each client has received
    got,        \* bytes of the current reply the client has received
    cmd,        \* halves of the current request held in PingCommand cmd_
    shut,       \* Shutdown(SHUT_RDWR) issued on the connection's socket
    acceptStop, \* uring_acceptor.Stop() has cancelled the accept loop
    mainpc,     \* where main() is
    crashed,    \* a CHECK failed: the process aborted
    cause       \* the failed CHECK: connection and result it saw

appVars == <<peer, wire, sent, replies, got, cmd, shut, acceptStop, mainpc, crashed, cause>>
vars == <<engineVars, appVars>>

-----------------------------------------------------------------------------
(* Fiber code.                                                             *)

(* is_conn_closed(ec)                                                      *)
IsConnClosed(r) == r \in {-ECONNABORTED, -ECONNRESET}

(* CHECK(!ec) failed in connection c on result r: LOG(FATAL) aborts.       *)
CheckFails(c, r) ==
    /\ crashed' = TRUE
    /\ cause' = [conn |-> c, res |-> r]
    /\ UNCHANGED <<sq, table, ready, waitq, tstate, slot>>

(* Mutant of HandleRequests: a decoded request is never answered.       *)
HandleRequestsNoReply(c) ==
    LET r == res[c]
        rq == Tail(ready)
    IN
    \/ /\ r = Null                                  \* loop entry: read_some
       /\ Issue(c, "read", tstate, rq)
       /\ UNCHANGED <<cmd, shut, crashed, cause>>
    \/ /\ slot[c] = "read" /\ r # Null
       /\ \/ /\ IsConnClosed(r)                     \* break; Shutdown
             /\ shut' = [shut EXCEPT ![c] = TRUE]
             /\ tstate' = [tstate EXCEPT ![c] = "done"]
             /\ ready' = rq
             /\ UNCHANGED <<sq, table, waitq, slot, cmd, crashed, cause>>
          \/ /\ r < 0 /\ ~IsConnClosed(r)           \* CHECK(!ec)
             /\ CheckFails(c, r)
             /\ UNCHANGED <<cmd, shut>>
          \/ /\ r >= 0                              \* cmd_.Decode(res): one reply
             /\ IF cmd[c] + r >= RequestHalves       \* per chunk (spec 9, open question) 
                THEN /\ cmd' = [cmd EXCEPT ![c] = 0]
                     /\ Issue(c, "read", tstate, rq)
                ELSE /\ cmd' = [cmd EXCEPT ![c] = cmd[c] + r]
                     /\ Issue(c, "read", tstate, rq)
             /\ UNCHANGED <<shut, crashed, cause>>
    \/ /\ slot[c] = "write" /\ r # Null
       /\ \/ /\ r < 0                               \* CHECK(!ec)
             /\ CheckFails(c, r)
             /\ UNCHANGED <<cmd, shut>>
          \/ /\ r >= 0                              \* count ignored
             /\ Issue(c, "read", tstate, rq)
             /\ UNCHANGED <<cmd, shut, crashed, cause>>

(* One run of PingConnection::HandleRequests for connection c, from the   *)
(* result r of its last socket call to its next call or its return.        *)
HandleRequests(c) ==
    LET r == res[c]
        rq == Tail(ready)
    IN
    \/ /\ r = Null                                  \* loop entry: read_some
       /\ Issue(c, "read", tstate, rq)
       /\ UNCHANGED <<cmd, shut, crashed, cause>>
    \/ /\ slot[c] = "read" /\ r # Null
       /\ \/ /\ IsConnClosed(r)                     \* break; Shutdown
             /\ shut' = [shut EXCEPT ![c] = TRUE]
             /\ tstate' = [tstate EXCEPT ![c] = "done"]
             /\ ready' = rq
             /\ UNCHANGED <<sq, table, waitq, slot, cmd, crashed, cause>>
          \/ /\ r < 0 /\ ~IsConnClosed(r)           \* CHECK(!ec)
             /\ CheckFails(c, r)
             /\ UNCHANGED <<cmd, shut>>
          \/ /\ r >= 0                              \* cmd_.Decode(res): one reply
             /\ IF cmd[c] + r >= RequestHalves       \* per chunk (spec 9, open question) 
                THEN /\ cmd' = [cmd EXCEPT ![c] = 0]
                     /\ Issue(c, "write", tstate, rq)
                ELSE /\ cmd' = [cmd EXCEPT ![c] = cmd[c] + r]
                     /\ Issue(c, "read", tstate, rq)
             /\ UNCHANGED <<shut, crashed, cause>>
    \/ /\ slot[c] = "write" /\ r # Null
       /\ \/ /\ r < 0                               \* CHECK(!ec)
             /\ CheckFails(c, r)
             /\ UNCHANGED <<cmd, shut>>
          \/ /\ r >= 0                              \* count ignored
             /\ Issue(c, "read", tstate, rq)
             /\ UNCHANGED <<cmd, shut, crashed, cause>>

(* One run of the accept loop: on a new socket, PingListener::NewConnection *)
(* and a fiber spawned for it, then the next accept; on an error, exit.   *)
AcceptLoop ==
    LET r == res[Acceptor]
        rq == Tail(ready)
    IN
    /\ \/ /\ r = Null
          /\ Issue(Acceptor, "accept", tstate, rq)
          /\ UNCHANGED res
       \/ /\ r \in Conns
          /\ res' = [res EXCEPT ![r] = Null]
          /\ Issue(Acceptor, "accept", [tstate EXCEPT ![r] = "ready"], Append(rq, r))
       \/ /\ r # Null /\ r < 0
          /\ tstate' = [tstate EXCEPT ![Acceptor] = "done"]
          /\ ready' = rq
          /\ UNCHANGED <<sq, table, waitq, slot, res>>
    /\ UNCHANGED <<cmd, shut, crashed, cause>>

(* The scheduler resumes the task at the head of the ready queue.  A task  *)
(* woken from the full-ring wait only retries its submission.             *)
RunTask ==
    /\ Looping
    /\ phase = "run"
    /\ ready # <<>>
    /\ LET t == Head(ready) IN
       \/ /\ res[t] = Retry
          /\ Issue(t, slot[t], tstate, Tail(ready))
          /\ UNCHANGED <<res, cmd, shut, crashed, cause>>
       \/ /\ res[t] # Retry
          /\ IF t = Acceptor THEN AcceptLoop
             ELSE HandleRequests(t) /\ UNCHANGED res
    /\ UNCHANGED <<pstate, phase, inflight, cq, peer, wire, sent, replies, got, acceptStop, mainpc>>

-----------------------------------------------------------------------------
(* The kernel completes operation e (socket semantics of spec 4.3).        *)

CompleteAccept(e) ==
    /\ e.kind = "accept"
    /\ \/ /\ acceptStop
          /\ PostCqe(e, -ECANCELED)
          /\ UNCHANGED peer
       \/ \E c \in Conns :            \* a client connects; none once Stop ran
          /\ ~acceptStop
          /\ peer[c] = "absent"
          /\ peer' = [peer EXCEPT ![c] = "idle"]
          /\ PostCqe(e, c)
    /\ UNCHANGED <<wire, replies, got>>

CompleteRead(e) ==
    LET c == e.task IN
    /\ e.kind = "read"
    /\ \/ /\ shut[c]
          /\ \E r \in DrainResults : PostCqe(e, r)
          /\ UNCHANGED wire
       \/ /\ peer[c] = "reset"
          /\ PostCqe(e, -ECONNRESET)
          /\ UNCHANGED wire
       \/ /\ wire[c] > 0
          /\ PostCqe(e, wire[c])
          /\ wire' = [wire EXCEPT ![c] = 0]
       \/ /\ peer[c] = "closed" /\ wire[c] = 0   \* orderly close: (0, ok)
          /\ PostCqe(e, 0)
          /\ UNCHANGED wire
    /\ UNCHANGED <<peer, replies, got>>

(* Counts a write_some of len bytes may complete with: all of them, or     *)
(* (with PartialWrites) a short count.                                     *)
WriteCounts(len) == {len} \cup (IF PartialWrites THEN {1} ELSE {})

CompleteWrite(e) ==
    LET c == e.task IN
    /\ e.kind = "write"
    /\ \/ /\ shut[c]
          /\ \E r \in DrainResults : PostCqe(e, r)
          /\ UNCHANGED <<peer, replies, got>>
       \/ /\ peer[c] = "reset"
          /\ \E r \in {-ECONNRESET, -EPIPE} : PostCqe(e, r)
          /\ UNCHANGED <<peer, replies, got>>
       \/ /\ peer[c] = "waiting"             \* n of the reply's remaining bytes
          /\ \E n \in WriteCounts(ReplyLen) :
                /\ PostCqe(e, n)
                /\ IF got[c] + n = ReplyLen
                   THEN /\ peer' = [peer EXCEPT ![c] =
                                     IF replies[c] + 1 < sent[c] THEN "waiting" ELSE "idle"]
                        /\ replies' = [replies EXCEPT ![c] = @ + 1]
                        /\ got' = [got EXCEPT ![c] = 0]
                   ELSE /\ got' = [got EXCEPT ![c] = @ + n]
                        /\ UNCHANGED <<peer, replies>>
    /\ UNCHANGED wire

Complete(e) ==
    /\ CompleteAccept(e) \/ CompleteRead(e) \/ CompleteWrite(e)
    /\ UNCHANGED <<pstate, phase, sq, table, ready, waitq, tstate, slot, res,
                   sent, cmd, shut, acceptStop, mainpc, crashed, cause>>

-----------------------------------------------------------------------------
(* The clients.                                                            *)

SendRequest(c) ==
    /\ sent[c] < MaxRequests
    /\ \/ /\ peer[c] = "idle"
          /\ \/ /\ peer' = [peer EXCEPT ![c] = "waiting"]
                /\ wire' = [wire EXCEPT ![c] = RequestHalves]
             \/ /\ peer' = [peer EXCEPT ![c] = "half"]
                /\ wire' = [wire EXCEPT ![c] = 1]
       \/ /\ Pipelining /\ peer[c] = "waiting"   \* the next request, pipelined
          /\ wire' = [wire EXCEPT ![c] = @ + RequestHalves]
          /\ UNCHANGED peer
    /\ sent' = [sent EXCEPT ![c] = @ + 1]
    /\ UNCHANGED <<replies, got>>

SendRest(c) ==
    /\ peer[c] = "half"
    /\ peer' = [peer EXCEPT ![c] = "waiting"]
    /\ wire' = [wire EXCEPT ![c] = @ + 1]
    /\ UNCHANGED <<sent, replies, got>>

CloseConn(c) ==
    /\ peer[c] = "idle"
    /\ peer' = [peer EXCEPT ![c] = "closed"]
    /\ UNCHANGED <<wire, sent, replies, got>>

ResetConn(c) ==
    /\ peer[c] \in {"idle", "half", "waiting", "closed"}
    /\ peer' = [peer EXCEPT ![c] = "reset"]
    /\ wire' = [wire EXCEPT ![c] = 0]
    /\ UNCHANGED <<sent, replies, got>>

Client(c) ==
    /\ SendRequest(c) \/ SendRest(c) \/ CloseConn(c) \/ ResetConn(c)
    /\ UNCHANGED <<engineVars, cmd, shut, acceptStop, mainpc, crashed, cause>>

-----------------------------------------------------------------------------
(* main()                                                                  *)

(* TriggerOnBreakSignal: uring_acceptor.Stop(true) cancels the accept loop *)
(* and shuts down every live connection, then waits for them.              *)
BreakSignal ==
    /\ mainpc = "serving"
    /\ acceptStop' = TRUE
    /\ shut' = [c \in Conns |-> shut[c] \/ tstate[c] \in {"ready", "blocked", "sqwait"}]
    /\ mainpc' = "waitConns"
    /\ UNCHANGED <<engineVars, peer, wire, sent, replies, got, cmd, crashed, cause>>

(* Stop(true) returns once the acceptor and every connection fiber ended; *)
(* then proactor.Stop().                                                   *)
StopProactor ==
    /\ mainpc = "waitConns"
    /\ \A t \in Tasks : tstate[t] \in {"free", "done"}
    /\ Stop
    /\ mainpc' = "join"
    /\ UNCHANGED <<peer, wire, sent, replies, got, cmd, shut, acceptStop, crashed, cause>>

(* t1.join(): the proactor thread returned from Run().                     *)
Join ==
    /\ mainpc = "join"
    /\ pstate = "Stopped"
    /\ mainpc' = "exited"
    /\ UNCHANGED <<engineVars, peer, wire, sent, replies, got, cmd, shut, acceptStop, crashed, cause>>

-----------------------------------------------------------------------------

(* main() has built the proactor, started its thread and run the acceptor, *)
(* whose fiber is ready; no client has connected yet.                      *)
Init ==
    /\ ProactorInit
    /\ ready = <<Acceptor>>
    /\ tstate = [t \in Tasks |-> IF t = Acceptor THEN "ready" ELSE "free"]
    /\ peer = [c \in Conns |-> "absent"]
    /\ wire = [c \in Conns |-> 0]
    /\ sent = [c \in Conns |-> 0]
    /\ replies = [c \in Conns |-> 0]
    /\ got = [c \in Conns |-> 0]
    /\ cmd = [c \in Conns |-> 0]
    /\ shut = [c \in Conns |-> FALSE]
    /\ acceptStop = FALSE
    /\ mainpc = "serving"
    /\ crashed = FALSE
    /\ cause = Null

(* The process has exited, normally or by an aborted CHECK.                *)
Terminated == crashed \/ mainpc = "exited"

EngineStep ==
    \/ Run \/ Flush \/ Reap \/ EndReap \/ EndRun \/ Finish

Next ==
    \/ /\ ~Terminated
       /\ \/ EngineStep /\ UNCHANGED appVars
          \/ RunTask
          \/ \E e \in inflight : Complete(e)
          \/ \E c \in Conns : Client(c)
          \/ BreakSignal \/ StopProactor \/ Join
    \/ Terminated /\ UNCHANGED vars

(* The loop thread, the kernel and main() always make progress when they *)
(* can; the clients and the operator's break signal need not.             *)
Fairness ==
    /\ WF_vars(~Terminated /\ EngineStep /\ UNCHANGED appVars)
    /\ WF_vars(~Terminated /\ RunTask)
    /\ \A tok \in Tokens :
          WF_vars(~Terminated /\ \E e \in inflight : e.tok = tok /\ Complete(e))
    /\ WF_vars(~Terminated /\ (StopProactor \/ Join))

Spec == Init /\ [][Next]_vars /\ Fairness

-----------------------------------------------------------------------------
(* Properties.                                                             *)

TypeOK ==
    /\ pstate \in {"Idle", "Running", "Stopping", "Stopped"}
    /\ phase \in Phases
    /\ sq \in Seq(Sqe) /\ Len(sq) <= QueueDepth
    /\ inflight \subseteq Sqe
    /\ cq \in Seq(Cqe)
    /\ table \in [Tokens -> Tasks \cup {Null}]
    /\ ready \in Seq(Tasks) /\ waitq \in Seq(Tasks)
    /\ tstate \in [Tasks -> TaskStates]
    /\ slot \in [Tasks -> OpKinds \cup {Null}]
    /\ res \in [Tasks -> Int \cup {Null, Retry}]
    /\ peer \in [Conns -> PeerStates]
    /\ wire \in [Conns -> 0..RequestHalves * MaxRequests]
    /\ sent \in [Conns -> 0..MaxRequests] /\ replies \in [Conns -> 0..MaxRequests]
    /\ got \in [Conns -> 0..ReplyLen - 1]
    /\ cmd \in [Conns -> 0..RequestHalves - 1]
    /\ shut \in [Conns -> BOOLEAN] /\ acceptStop \in BOOLEAN
    /\ mainpc \in MainPcs /\ crashed \in BOOLEAN

(* Continuation integrity (spec 3, 8: token uniqueness, buffer safety):   *)
(* whatever the interleaving of fibers, kernel and reaping, every         *)
(* operation between its SQE and its reaped CQE has a token of its own,   *)
(* the in-flight table maps exactly those tokens, each to the task that   *)
(* submitted the operation, that task is suspended (its buffer is lent to *)
(* the kernel), and every suspended task has exactly one such operation, *)
(* so each completion resumes the right fiber exactly once.               *)
ContinuationIntegrity ==
    /\ \A e, f \in Outstanding : e.tok = f.tok => e = f
    /\ \A tok \in Tokens : table[tok] # Null <=> \E e \in Outstanding : e.tok = tok
    /\ \A e \in Outstanding : table[e.tok] = e.task /\ tstate[e.task] = "blocked"
    /\ \A t \in Tasks : tstate[t] = "blocked" =>
          Cardinality({e \in Outstanding : e.task = t}) = 1

(* The scheduler never holds a fiber twice, and holds exactly the fibers  *)
(* that are runnable (ready queue) or parked on the full submission ring  *)
(* (wait queue): a fiber is neither resumed twice nor lost.               *)
SchedulerSound ==
    /\ IsInjective(ready) /\ IsInjective(waitq)
    /\ ToSet(ready) = {t \in Tasks : tstate[t] = "ready"}
    /\ ToSet(waitq) = {t \in Tasks : tstate[t] = "sqwait"}

(* Backpressure never starves a fiber: one suspended on a full submission *)
(* ring eventually gets its operation to the kernel (or the process died).*)
BackpressureResolves ==
    \A t \in Tasks : tstate[t] = "sqwait" ~> (tstate[t] = "blocked" \/ crashed)

(* Orderly close (spec 8, scenario): after the client closes its end, the *)
(* connection fiber, whose read_some then returns (0, ok), exits.         *)
OrderlyCloseEndsConnection ==
    \A c \in Conns : peer[c] = "closed" ~> (tstate[c] = "done" \/ crashed)

(* Benign termination (spec 4.3, 7): a client that resets its connection *)
(* ends that connection only; it never aborts the server process.         *)
PeerResetNeverAborts ==
    crashed => peer[cause.conn] # "reset"

(* Clean stop (spec 5, 6): a connection drained by uring_acceptor.Stop    *)
(* ends its fiber without aborting the process.                           *)
DrainNeverAborts ==
    crashed => ~shut[cause.conn]

(* Graceful shutdown (spec 8): once the break signal has stopped the      *)
(* acceptor, main() eventually exits (or the process has died).           *)
ShutdownCompletes ==
    mainpc = "waitConns" ~> Terminated


(* Every request is answered, whole (spec 4.3: write_some may return a   *)
(* short count and the caller must loop; spec 8: the client reads exactly *)
(* what the server wrote; spec 9: pipelined requests must be decodable):  *)
(* a client waiting for replies gets all of them, unless the process died *)
(* or the server is shutting down.  HandleRequests decodes and answers.   *)
ReplyDelivered ==
    \A c \in Conns : peer[c] = "waiting" ~> (peer[c] # "waiting" \/ crashed \/ acceptStop)

-----------------------------------------------------------------------------
(* Refinement: the engine implements the socket-call contract.  A fiber   *)
(* is suspended in a call while its operation is anywhere between Issue   *)
(* and Reap, a retry after a full ring included; the kernel's result for  *)
(* it is the CQE it posted, until reaped; a resumed fiber holds res.      *)

CallResults == Conns \cup (0..ReplyLen)
                \cup {-EPIPE, -ECONNABORTED, -ECONNRESET, -ECANCELED}

Suspended(t) ==
    \/ tstate[t] \in {"blocked", "sqwait"}
    \/ tstate[t] = "ready" /\ res[t] = Retry

KernelResult(t) ==
    IF \E i \in DOMAIN cq : cq[i].task = t
    THEN cq[CHOOSE i \in DOMAIN cq : cq[i].task = t].res
    ELSE Null

Calls == INSTANCE SocketCalls WITH
    Results <- CallResults,
    call <- [t \in Tasks |-> IF Suspended(t) THEN slot[t] ELSE Null],
    done <- [t \in Tasks |-> KernelResult(t)],
    last <- [t \in Tasks |-> IF Suspended(t) THEN Null ELSE res[t]]

(* Every fiber sees its socket calls as the contract describes: one call  *)
(* at a time, answered with the result the kernel produced for that very *)
(* call, exactly once and only after the kernel produced it, whatever the *)
(* interleaving of tokens, full-ring retries and reaping.                  *)
ImplementsSocketCalls == Calls!Spec

=============================================================================
