-------------------------- MODULE FastVarMapCounter --------------------------
(***************************************************************************)
(* FastVarMapCounter<N> of src/util/stats/varz_stats.h: a char buf_[N]    *)
(* holding a fixed base, and suffix_ pointing just past it.  IncBy copies *)
(* the suffix there with strcpy and increments the key read from buf_ (up *)
(* to its NUL) in the VarzMapCount, whose own IncBy is atomic under its   *)
(* lock.  Callers are the threads that call IncBy on one counter object;  *)
(* the two statements of IncBy are separate steps.                         *)
(***************************************************************************)
EXTENDS Integers, Sequences

CONSTANTS
    N,          \* size of buf_
    Base,       \* the base the constructor appends
    Suffixes,   \* suffixes passed to IncBy
    Deltas,     \* val passed to IncBy (Inc passes 1)
    Callers,    \* threads calling IncBy on the same object
    MaxCalls,   \* bound: IncBy calls in a behaviour
    Chars,      \* characters of base and suffixes
    NUL, Null

(* "The caller must make sure that N is large enough to contain the key."  *)
ASSUME \A s \in Suffixes : Len(Base) + Len(s) + 1 <= N
ASSUME MaxCalls \in Nat

VARIABLES
    buf,       \* buf_[0..N-1]
    suffix_,   \* index of buf_ that suffix_ points at
    counts,    \* map_counts_: key -> count, for the keys incremented so far
    pending,   \* per caller: the val of an IncBy between strcpy and the map
    calls,     \* IncBy calls made
    intended   \* history: what each IncBy meant to add, key -> total

vars == <<buf, suffix_, counts, pending, calls, intended>>

(* The C string at buf_: the characters before the first NUL.  Without a *)
(* NUL in buf_ the read runs past its end, into bytes the model marks     *)
(* Beyond.                                                                 *)
CString(b) ==
    LET ends == {i \in 0..N - 1 : b[i] = NUL}
        e == CHOOSE i \in ends : \A j \in ends : i <= j
    IN IF ends = {} THEN [k \in 1..N |-> b[k - 1]] \o <<"Beyond">>
       ELSE [k \in 1..e |-> b[k - 1]]

(* Add d to key k of a key -> count function, creating the key at 0.      *)
AddTo(f, k, d) ==
    IF k \in DOMAIN f THEN [f EXCEPT ![k] = @ + d]
    ELSE [x \in DOMAIN f \cup {k} |-> IF x = k THEN d ELSE f[x]]

(* strcpy(dst, s): s and its NUL written at index dst of buf_.            *)
Strcpy(b, dst, s) ==
    [i \in 0..N - 1 |-> IF i \in dst..dst + Len(s) - 1 THEN s[i - dst + 1]
                        ELSE IF i = dst + Len(s) THEN NUL ELSE b[i]]

(* Constructor: suffix_ = StrAppend(buf_, N, base), which writes the base *)
(* and its NUL and returns the end; the rest of buf_ is uninitialised.   *)
Init ==
    /\ buf \in {b \in [0..N - 1 -> Chars \cup {NUL}] :
                   \A i \in 0..Len(Base) : b[i] = IF i < Len(Base) THEN Base[i + 1] ELSE NUL}
    /\ suffix_ = Len(Base)
    /\ counts = <<>>
    /\ pending = [c \in Callers |-> Null]
    /\ calls = 0
    /\ intended = <<>>

(* Mutant of IncBy: the suffix copied without its NUL (memcpy of strlen). *)
IncByNoNul(c, s, d) ==
    /\ pending[c] = Null /\ calls < MaxCalls
    /\ buf' = [b \in 0..N - 1 |-> IF b \in suffix_..suffix_ + Len(s) - 1
                                THEN s[b - suffix_ + 1] ELSE buf[b]]
    /\ pending' = [pending EXCEPT ![c] = d]
    /\ calls' = calls + 1
    /\ intended' = AddTo(intended, Base \o s, d)
    /\ UNCHANGED <<suffix_, counts>>

(* IncBy(suffix, val), first statement: strcpy(suffix_, suffix).           *)
IncBy(c, s, d) ==
    /\ pending[c] = Null /\ calls < MaxCalls
    /\ buf' = Strcpy(buf, suffix_, s)
    /\ pending' = [pending EXCEPT ![c] = d]
    /\ calls' = calls + 1
    /\ intended' = AddTo(intended, Base \o s, d)
    /\ UNCHANGED <<suffix_, counts>>

(* IncBy, second statement: map_count_.IncBy(buf_, val).                   *)
MapCountIncBy(c) ==
    /\ pending[c] # Null
    /\ counts' = AddTo(counts, CString(buf), pending[c])
    /\ pending' = [pending EXCEPT ![c] = Null]
    /\ UNCHANGED <<buf, suffix_, calls, intended>>

Next ==
    \E c \in Callers :
        \/ \E s \in Suffixes, d \in Deltas : IncBy(c, s, d)
        \/ MapCountIncBy(c)

Spec == Init /\ [][Next]_vars

-----------------------------------------------------------------------------
TypeOK ==
    /\ buf \in [0..N - 1 -> Chars \cup {NUL}]
    /\ suffix_ \in 0..N - 1
    /\ pending \in [Callers -> Deltas \cup {Null}]
    /\ calls \in 0..MaxCalls

(* Whatever suffixes earlier calls left in the reused buf_ (a longer one  *)
(* before a shorter one included), once no IncBy is half done every      *)
(* count is held by the key base + suffix its calls named, and by no     *)
(* other key.                                                              *)
CountsByBaseAndSuffix ==
    (\A c \in Callers : pending[c] = Null) => counts = intended

=============================================================================
