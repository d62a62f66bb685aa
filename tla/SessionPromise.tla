--------------------------- MODULE SessionPromise ---------------------------
(***************************************************************************)
(* What the session store promises its callers, whatever its threads, its  *)
(* watch task, Redis and restarts do: it knows a value under a key only    *)
(* because a call to set that key brought it, and a value of which it has  *)
(* lost every copy is gone for good.  Nothing is promised about how long   *)
(* it keeps a value.                                                       *)
(***************************************************************************)
CONSTANTS Keys, Values

VARIABLES
    brought,   \* brought[k]: the values that calls to set are bringing to key k
    known      \* known[k]: the values of which the store has some copy under key k

Init ==
    /\ brought = [k \in Keys |-> {}]
    /\ known = [k \in Keys |-> {}]

\* A call to set begins.
Bring ==
    /\ \E k \in Keys, v \in Values : brought' = [brought EXCEPT ![k] = @ \cup {v}]
    /\ UNCHANGED known

\* The store takes values over from calls, calls return, copies are lost.
Keep ==
    /\ brought' \in [Keys -> SUBSET Values]
    /\ known' \in [Keys -> SUBSET Values]
    /\ \A k \in Keys :
       /\ brought'[k] \subseteq brought[k]
       /\ known'[k] \subseteq known[k] \cup brought[k]

Next == Bring \/ Keep

Spec == Init /\ [][Next]_<<brought, known>>

=============================================================================
