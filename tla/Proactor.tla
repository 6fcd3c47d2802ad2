------------------------------ MODULE Proactor ------------------------------
(***************************************************************************)
(* The completion-queue engine of util/uring (Proactor) and its cooperative *)
(* fiber scheduler, as the spec describes them (sections 4.1, 4.2, 5).     *)
(* The engine sources are not part of src/, so every definition here is    *)
(* modelled from the spec.                                                 *)
(*                                                                         *)
(* One OS thread runs the loop: flush the submission ring to the kernel,   *)
(* reap completions (each resumes the task whose token it carries), run   *)
(* the ready tasks until all are suspended again.  A task runs without     *)
(* preemption from one resume to its next socket call, so the segment of  *)
(* task code between two suspensions is one atomic step; the task bodies  *)
(* are supplied by the module that EXTENDS this one (PingServer).         *)
(***************************************************************************)
EXTENDS Integers, Sequences, SequencesExt, FiniteSets

CONSTANTS
    Tasks,       \* fibers bound to this proactor
    Tokens,      \* user_data values that correlate an SQE with its CQE
    QueueDepth,  \* capacity of the submission ring (queue_depth flag)
    Null,        \* "no value": a free token slot, a task not yet resumed
    Retry        \* the result that resumes a task parked on a full ring

ASSUME QueueDepth \in Nat \ {0}
ASSUME Cardinality(Tokens) >= Cardinality(Tasks)

OpKinds    == {"accept", "read", "write"}
TaskStates == {"free", "ready", "blocked", "sqwait", "done"}
Phases     == {"flush", "reap", "run"}

VARIABLES
    pstate,   \* lifecycle: Idle -> Running -> Stopping -> Stopped
    phase,    \* where the loop thread is in its iteration
    sq,       \* submission ring: SQEs written but not yet given to the kernel
    inflight, \* SQEs the kernel owns (their buffers are borrowed)
    cq,       \* completion ring, in the order the kernel posted the CQEs
    table,    \* in-flight table: token -> task to resume (Null when free)
    ready,    \* FIFO ready queue of the scheduler
    waitq,    \* tasks suspended because the submission ring was full
    tstate,   \* per-task scheduling state
    slot,     \* per-task kind of the last socket call it issued
    res       \* per-task result of that call (Null before the first one)

engineVars == <<pstate, phase, sq, inflight, cq, table, ready, waitq,
                tstate, slot, res>>

Sqe == [tok : Tokens, task : Tasks, kind : OpKinds]
Cqe == [tok : Tokens, task : Tasks, res : Int]   \* task: history only

FreeTokens == {tok \in Tokens : table[tok] = Null}

(* Every submitted operation, wherever it is between SQE and reaped CQE.  *)
Outstanding == ToSet(sq) \cup inflight \cup ToSet(cq)

ProactorInit ==
    /\ pstate = "Idle"
    /\ phase = "flush"
    /\ sq = <<>>
    /\ inflight = {}
    /\ cq = <<>>
    /\ table = [tok \in Tokens |-> Null]
    /\ waitq = <<>>
    /\ slot = [t \in Tasks |-> Null]
    /\ res = [t \in Tasks |-> Null]

(* Mutant of Issue: the token is taken without checking that it is free. *)
IssueAnyToken(t, k, ts, rq) ==
    /\ slot' = [slot EXCEPT ![t] = k]
    /\ ready' = rq
    /\ IF Len(sq) < QueueDepth
       THEN \E tok \in Tokens :
              /\ sq' = Append(sq, [tok |-> tok, task |-> t, kind |-> k])
              /\ table' = [table EXCEPT ![tok] = t]
              /\ tstate' = [ts EXCEPT ![t] = "blocked"]
              /\ UNCHANGED waitq
       ELSE /\ waitq' = Append(waitq, t)
            /\ tstate' = [ts EXCEPT ![t] = "sqwait"]
            /\ UNCHANGED <<sq, table>>

(* Mutant of Issue: the SQE is written without checking that the ring has *)
(* room.                                                                   *)
IssueIgnoreFull(t, k, ts, rq) ==
    /\ slot' = [slot EXCEPT ![t] = k]
    /\ ready' = rq
    /\ \E tok \in FreeTokens :
          /\ sq' = Append(sq, [tok |-> tok, task |-> t, kind |-> k])
          /\ table' = [table EXCEPT ![tok] = t]
          /\ tstate' = [ts EXCEPT ![t] = "blocked"]
          /\ UNCHANGED waitq

(***************************************************************************)
(* Submit(descriptor) as called from a running task t: take a free token,  *)
(* register t as its continuation and write the SQE; when the ring is full *)
(* the task suspends until the loop has flushed it (backpressure).  ts and *)
(* rq are the task table and ready queue as the rest of the step leaves   *)
(* them.                                                                   *)
(***************************************************************************)
Issue(t, k, ts, rq) ==
    /\ slot' = [slot EXCEPT ![t] = k]
    /\ ready' = rq
    /\ IF Len(sq) < QueueDepth
       THEN \E tok \in FreeTokens :
              /\ sq' = Append(sq, [tok |-> tok, task |-> t, kind |-> k])
              /\ table' = [table EXCEPT ![tok] = t]
              /\ tstate' = [ts EXCEPT ![t] = "blocked"]
              /\ UNCHANGED waitq
       ELSE /\ waitq' = Append(waitq, t)
            /\ tstate' = [ts EXCEPT ![t] = "sqwait"]
            /\ UNCHANGED <<sq, table>>

(* Run(): the loop thread starts.                                          *)
Run ==
    /\ pstate = "Idle"
    /\ pstate' = "Running"
    /\ UNCHANGED <<phase, sq, inflight, cq, table, ready, waitq, tstate, slot, res>>

Looping == pstate \in {"Running", "Stopping"}

(* Stop() has been observed and the loop has drained: Run() returns at the *)
(* top of the loop instead of submitting and waiting again.               *)
Drained ==
    /\ pstate = "Stopping"
    /\ Outstanding = {}
    /\ ready = <<>>
    /\ waitq = <<>>
    /\ \A t \in Tasks : tstate[t] \in {"free", "done"}

(* Mutants of Flush: parked tasks woken but left on the wait queue; parked *)
(* tasks never woken.                                                      *)
FlushKeepWaitq ==
    /\ Looping
    /\ phase = "flush"
    /\ ~Drained
    /\ inflight' = inflight \cup ToSet(sq)
    /\ sq' = <<>>
    /\ ready' = ready \o waitq
    /\ tstate' = [t \in Tasks |-> IF t \in ToSet(waitq) THEN "ready" ELSE tstate[t]]
    /\ res' = [t \in Tasks |-> IF t \in ToSet(waitq) THEN Retry ELSE res[t]]
    /\ phase' = "reap"
    /\ UNCHANGED <<pstate, cq, table, slot, waitq>>

FlushNoWake ==
    /\ Looping
    /\ phase = "flush"
    /\ ~Drained
    /\ inflight' = inflight \cup ToSet(sq)
    /\ sq' = <<>>
    /\ phase' = "reap"
    /\ UNCHANGED <<pstate, cq, table, slot, ready, waitq, tstate, res>>

(* Mutant of Flush: parked tasks woken with the result of their previous *)
(* call still in res.                                                      *)
FlushStaleResult ==
    /\ Looping
    /\ phase = "flush"
    /\ ~Drained
    /\ inflight' = inflight \cup ToSet(sq)
    /\ sq' = <<>>
    /\ ready' = ready \o waitq
    /\ waitq' = <<>>
    /\ tstate' = [t \in Tasks |-> IF t \in ToSet(waitq) THEN "ready" ELSE tstate[t]]
    /\ phase' = "reap"
    /\ UNCHANGED <<pstate, cq, table, slot, res>>

(* Iteration start: io_uring_submit hands every written SQE to the kernel; *)
(* tasks parked on the full ring are woken to retry their submission.     *)
Flush ==
    /\ Looping
    /\ phase = "flush"
    /\ ~Drained
    /\ inflight' = inflight \cup ToSet(sq)
    /\ sq' = <<>>
    /\ ready' = ready \o waitq
    /\ waitq' = <<>>
    /\ tstate' = [t \in Tasks |-> IF t \in ToSet(waitq) THEN "ready" ELSE tstate[t]]
    /\ res' = [t \in Tasks |-> IF t \in ToSet(waitq) THEN Retry ELSE res[t]]
    /\ phase' = "reap"
    /\ UNCHANGED <<pstate, cq, table, slot>>

(* The kernel posts the completion of operation e with result r.           *)
PostCqe(e, r) ==
    /\ e \in inflight
    /\ inflight' = inflight \ {e}
    /\ cq' = Append(cq, [tok |-> e.tok, task |-> e.task, res |-> r])

(* Reap one CQE: look its token up, free the token, resume the task.      *)
Reap ==
    /\ Looping
    /\ phase = "reap"
    /\ cq # <<>>
    /\ LET c == Head(cq)
           t == table[c.tok]
       IN /\ cq' = Tail(cq)
          /\ table' = [table EXCEPT ![c.tok] = Null]
          /\ res' = [res EXCEPT ![t] = c.res]
          /\ tstate' = [tstate EXCEPT ![t] = "ready"]
          /\ ready' = Append(ready, t)
    /\ UNCHANGED <<pstate, phase, sq, inflight, waitq, slot>>

EndReap ==
    /\ Looping
    /\ phase = "reap"
    /\ cq = <<>>
    /\ phase' = "run"
    /\ UNCHANGED <<pstate, sq, inflight, cq, table, ready, waitq, tstate, slot, res>>

(* The scheduler found no runnable task: back to the top of the loop, where *)
(* the thread waits for the next completion.                               *)
EndRun ==
    /\ Looping
    /\ phase = "run"
    /\ ready = <<>>
    /\ phase' = "flush"
    /\ UNCHANGED <<pstate, sq, inflight, cq, table, ready, waitq, tstate, slot, res>>

(* Stop(): observed by the loop through its wake-up completion.            *)
Stop ==
    /\ pstate = "Running"
    /\ pstate' = "Stopping"
    /\ UNCHANGED <<phase, sq, inflight, cq, table, ready, waitq, tstate, slot, res>>

(* Run() returns once nothing is in flight and no task is left.            *)
Finish ==
    /\ phase = "flush"
    /\ Drained
    /\ pstate' = "Stopped"
    /\ UNCHANGED <<phase, sq, inflight, cq, table, ready, waitq, tstate, slot, res>>

=============================================================================
