----------------------------- MODULE SocketCalls -----------------------------
(***************************************************************************)
(* What the engine promises a fiber that calls the suspendable socket      *)
(* (spec 4.3, 5): the call suspends the fiber; the kernel produces one     *)
(* result for that very call; the fiber is resumed with that result, once, *)
(* and only then may it make its next call.  Submission rings, tokens,    *)
(* reaping and backpressure are invisible at this level.                   *)
(***************************************************************************)
CONSTANTS
    Tasks,     \* fibers
    OpKinds,   \* socket operations a fiber can call
    Results,   \* what a call can return
    Null

VARIABLES
    call,      \* call[t]: the operation t is suspended in, or Null
    done,      \* done[t]: the kernel's result for that operation, or Null
    last       \* last[t]: the result t was resumed with (Null while suspended)

callVars == <<call, done, last>>

Init ==
    /\ call = [t \in Tasks |-> Null]
    /\ done = [t \in Tasks |-> Null]
    /\ last = [t \in Tasks |-> Null]

(* A running fiber makes a socket call and suspends.                       *)
Call(t, k) ==
    /\ call[t] = Null
    /\ call' = [call EXCEPT ![t] = k]
    /\ last' = [last EXCEPT ![t] = Null]
    /\ UNCHANGED done

(* The kernel completes the call t is suspended in.                        *)
Produce(t, r) ==
    /\ call[t] # Null /\ done[t] = Null
    /\ done' = [done EXCEPT ![t] = r]
    /\ UNCHANGED <<call, last>>

(* t is resumed with the result of its own call.                           *)
Resume(t) ==
    /\ done[t] # Null
    /\ last' = [last EXCEPT ![t] = done[t]]
    /\ call' = [call EXCEPT ![t] = Null]
    /\ done' = [done EXCEPT ![t] = Null]

Next ==
    \E t \in Tasks :
        \/ \E k \in OpKinds : Call(t, k)
        \/ \E r \in Results : Produce(t, r)
        \/ Resume(t)

Spec == Init /\ [][Next]_callVars

=============================================================================
