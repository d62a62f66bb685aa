--------------------------- MODULE ModuleSession ---------------------------
(***************************************************************************)
(* The session store as one module sees it: what it keeps under the key of *)
(* the module for each session, in memory and in Redis, and how long.      *)
(*                                                                         *)
(* SessionStore models the store itself, its threads and its buckets; here *)
(* an operation of the store is one step of the call that makes it, and a  *)
(* read of a value that has expired in memory never returns (WedgeInv of   *)
(* SessionStore).  What matters to a module is that a value may outlive    *)
(* the time it was set for: the watch task stores what has expired in      *)
(* Redis for two days, and a read brings it back.                          *)
(***************************************************************************)
EXTENDS Integers, FiniteSets

CONSTANTS
    Sessions,   \* session ids
    StoreTtl,   \* the ttl of the store: 24 hours
    RedisTtl,   \* its redis_ttl: 48 hours
    MaxTtl,     \* MAX_TTL_SECS: 24 hours
    MaxTime,    \* bound: the last instant
    None        \* no value

ASSUME SessionAssumption ==
    /\ StoreTtl \in Nat /\ RedisTtl \in Nat /\ MaxTtl \in Nat /\ MaxTime \in Nat
    /\ None \notin Sessions /\ None \notin Nat

VARIABLES
    clock,      \* now, in the units of the ttls
    hot,        \* session -> the entry in memory, or None
    cold,       \* session -> the value in Redis, or None
    flushing,   \* what the watch task has taken out of memory and not yet stored
    wedged      \* sessions a read of which holds its bucket for ever

storeVars == <<hot, cold, flushing, wedged>>

Copy(value, ttl) == [value |-> value, expires |-> clock + ttl]
Live(copy) == copy # None /\ copy.expires > clock
Expired(copy) == copy # None /\ copy.expires <= clock

\* Every copy of a value that some session has, in memory, in Redis or between.
Copies(s) ==
    {e.value : e \in {x \in {hot[s], cold[s]} : x # None}}
    \cup {e.value : e \in {x \in flushing : x.session = s}}

StoreInit ==
    /\ clock = 0
    /\ hot = [s \in Sessions |-> None]
    /\ cold = [s \in Sessions |-> None]
    /\ flushing = {}
    /\ wedged = {}

\* get_hot_or_cold_sync returns v: the value in memory, else the one in Redis,
\* which it takes into memory for the time of the store, else None, also when
\* Redis does not answer.
Load(s, v) ==
    /\ s \notin wedged
    /\ \/ /\ Live(hot[s])
          /\ v = hot[s].value
          /\ UNCHANGED hot
       \/ /\ hot[s] = None
          /\ Live(cold[s])
          /\ v = cold[s].value
          /\ hot' = [hot EXCEPT ![s] = Copy(v, StoreTtl)]
       \/ /\ hot[s] = None
          /\ v = None
          /\ UNCHANGED hot
    /\ UNCHANGED <<cold, flushing, wedged>>

\* get_hot_sync meets an expired entry and removes it under its own lock.
LoadWedges(s) ==
    /\ Expired(hot[s])
    /\ wedged' = wedged \cup {s}
    /\ UNCHANGED <<hot, cold, flushing>>

\* A value is kept for a day at the most; a negative ttl has become a large u64.
Clamped(ttl) == IF ttl \in 0..MaxTtl THEN ttl ELSE MaxTtl

\* host_session_set_with_ttl: into memory, then into Redis.  Redis may fail,
\* before or after it has taken the value.
Save(s, v, ttl, ok) ==
    /\ hot' = [hot EXCEPT ![s] = Copy(v, Clamped(ttl))]
    /\ \/ cold' = [cold EXCEPT ![s] = Copy(v, Clamped(ttl))]
       \/ ~ok /\ cold' = cold
    /\ UNCHANGED <<flushing, wedged>>

\* A tick of watch while Redis answers: the expired entries leave memory.
Sweep ==
    /\ flushing = {}
    /\ wedged = {}
    /\ \E s \in Sessions : Expired(hot[s])
    /\ flushing' = {[session |-> s, value |-> hot[s].value] :
                       s \in {t \in Sessions : Expired(hot[t])}}
    /\ hot' = [s \in Sessions |-> IF Expired(hot[s]) THEN None ELSE hot[s]]
    /\ UNCHANGED <<cold, wedged>>

\* watch stores one of them, whatever the key holds by now, or Redis refuses it.
Flush ==
    \E e \in flushing :
        /\ flushing' = flushing \ {e}
        /\ \/ cold' = [cold EXCEPT ![e.session] = Copy(e.value, RedisTtl)]
           \/ cold' = cold
        /\ UNCHANGED <<hot, wedged>>

\* The process starts again with what Redis has.
StoreRestart ==
    /\ hot' = [s \in Sessions |-> None]
    /\ flushing' = {}
    /\ wedged' = {}
    /\ UNCHANGED cold

Tick ==
    /\ clock < MaxTime
    /\ clock' = clock + 1

=============================================================================
