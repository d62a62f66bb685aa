---------------------------- MODULE SessionStore ----------------------------
(***************************************************************************)
(* The session store: RedisHashMap (storage/redis_hashmap.rs) as the host  *)
(* functions of the module ABI and the metrics call it from many threads,  *)
(* and the task spawned by RedisHashMap::watch.                            *)
(*                                                                         *)
(* Values live in a concurrent map in memory (scc::HashMap, whose entries  *)
(* are guarded by one lock per bucket) and in Redis.  Every access to one  *)
(* of the two is a step; a call is a sequence of steps and other threads   *)
(* run between them.                                                       *)
(*                                                                         *)
(* Time is relative: an entry carries the number of clock ticks it still   *)
(* has to live, so "expires > now" in the code is "left > 0" here.         *)
(***************************************************************************)
EXTENDS Integers

CONSTANTS
    Keys,          \* ModuleSessionKey
    Values,        \* the stored bytes
    Threads,       \* the worker threads that call into the store
    NumBuckets,    \* the buckets of the scc::HashMap are 1..NumBuckets
    BucketOf,      \* the bucket of a key
    Ttl,           \* RedisHashMap::ttl, in ticks
    RedisTtl,      \* RedisHashMap::redis_ttl, in ticks
    CallerTtls,    \* the ttl_secs a caller of set_with_ttl may pass, in ticks
    Calls,         \* the operations the threads use
    RedisMayFail,  \* TRUE if a Redis command may fail
    MayRestart,    \* TRUE if the process may be restarted
    Absent,        \* no entry, or no call
    Nobody         \* the owner of a bucket lock that is free

Buckets == 1..NumBuckets

Readers == {"get_sync", "get_hot_or_cold_sync"}      \* hold the entry while they remove it
AsyncReaders == {"get_hot", "get_cold"}              \* drop the entry before they remove it
Writers == {"session_set", "session_set_with_ttl"}
Kinds == Readers \cup AsyncReaders \cup Writers \cup {"remove_sync", "remove_redis_sync"}

MaxLeft == CHOOSE n \in CallerTtls \cup {Ttl, RedisTtl} :
               \A m \in CallerTtls \cup {Ttl, RedisTtl} : m <= n

StoredValue == [val : Values, left : 0..MaxLeft]
Call == [kind : Kinds, key : Keys, val : Values \cup {Absent}, ttl : 0..MaxLeft]

ASSUME SessionStoreAssumption ==
    /\ NumBuckets \in Nat \ {0}
    /\ BucketOf \in [Keys -> Buckets]
    /\ Ttl \in Nat \ {0}
    /\ RedisTtl \in Nat \ {0}
    /\ CallerTtls \subseteq Nat
    /\ MaxLeft \in Nat
    /\ \A n \in CallerTtls \cup {Ttl, RedisTtl} : n <= MaxLeft
    /\ Calls \subseteq Kinds
    /\ RedisMayFail \in BOOLEAN
    /\ MayRestart \in BOOLEAN
    /\ Absent \notin StoredValue \cup Call \cup Values
    /\ Nobody \notin Threads

VARIABLES
    container,     \* the map in memory: container[k] is a StoredValue or Absent
    redis,         \* Redis: redis[k] is a StoredValue or Absent
    bucket_lock,   \* the thread that keeps bucket b locked between two steps, or Nobody
    pc,            \* where the call of each thread stands
    call,          \* the call of each thread, or Absent
    watch_pc,      \* where the task of RedisHashMap::watch stands
    watch_bucket,  \* the next bucket its retain_sync visits
    to_store       \* the pairs it has taken out of the map

vars == <<container, redis, bucket_lock, pc, call, watch_pc, watch_bucket, to_store>>
threadVars == <<bucket_lock, pc, call>>
watchVars == <<watch_pc, watch_bucket, to_store>>

TypeOK ==
    /\ container \in [Keys -> StoredValue \cup {Absent}]
    /\ redis \in [Keys -> StoredValue \cup {Absent}]
    /\ bucket_lock \in [Buckets -> Threads \cup {Nobody}]
    /\ pc \in [Threads -> {"idle", "read", "remove", "cold", "fill", "write", "persist", "forget"}]
    /\ call \in [Threads -> Call \cup {Absent}]
    /\ watch_pc \in {"waiting", "sweeping", "storing"}
    /\ watch_bucket \in Buckets
    /\ to_store \in SUBSET [key : Keys, val : Values]

Init ==
    /\ container = [k \in Keys |-> Absent]
    /\ redis = [k \in Keys |-> Absent]
    /\ bucket_lock = [b \in Buckets |-> Nobody]
    /\ pc = [t \in Threads |-> "idle"]
    /\ call = [t \in Threads |-> Absent]
    /\ watch_pc = "waiting"
    /\ watch_bucket = 1
    /\ to_store = {}

-----------------------------------------------------------------------------
(* Helpers.                                                                *)

\* Mutant: an entry is live at the very tick it expires.
LiveAtExpiry(k) == container[k] # Absent /\ container[k].left >= 0

Live(k) == container[k] # Absent /\ container[k].left > 0
Expired(k) == container[k] # Absent /\ container[k].left = 0

\* Another owner of the bucket makes every operation on its keys wait.
Free(k) == bucket_lock[BucketOf[k]] = Nobody

\* upsert_sync of the map: insert or replace, with a new expiry.
Upsert(k, v, ttl) == container' = [container EXCEPT ![k] = [val |-> v, left |-> ttl]]

\* SETEX, which Redis refuses for a ttl of 0.
Setex(k, v, ttl) ==
    redis' = IF ttl > 0 THEN [redis EXCEPT ![k] = [val |-> v, left |-> ttl]] ELSE redis

Goto(t, at) == pc' = [pc EXCEPT ![t] = at] /\ UNCHANGED call

Return(t) ==
    /\ pc' = [pc EXCEPT ![t] = "idle"]
    /\ call' = [call EXCEPT ![t] = Absent]

\* What a reader does once memory has no value: only two of them ask Redis.
Miss(t) ==
    IF call[t].kind \in {"get_hot_or_cold_sync", "get_cold"} THEN Goto(t, "cold") ELSE Return(t)

\* The key of a call in Redis: the session and the module's own key, encoded.
SharedKey(c) == CHOOSE k \in Keys : TRUE   \* mutant: the session is left out
RedisKey(c) == c.key

\* A GET of the key comes back empty, or with an error that reads as empty.
AskedAgain(k) == FALSE                     \* mutant: a miss is retried, not returned
GetMisses(k) == redis[k] = Absent \/ RedisMayFail

\* At the step `at' of a call on a key whose bucket is free.
ReentrantStep(t, at) ==                    \* mutant: the owner may lock again
    pc[t] = at /\ bucket_lock[BucketOf[call[t].key]] \in {t, Nobody}
LockStep(t, at) == pc[t] = at /\ Free(call[t].key)

-----------------------------------------------------------------------------
(* The calls.                                                              *)

Begin(t, at, c) ==
    /\ pc[t] = "idle"
    /\ c.kind \in Calls
    /\ pc' = [pc EXCEPT ![t] = at]
    /\ call' = [call EXCEPT ![t] = c]
    /\ UNCHANGED <<container, redis, bucket_lock, watchVars>>

BeginRead(t) == \E kind \in Readers \cup AsyncReaders, k \in Keys :
    Begin(t, "read", [kind |-> kind, key |-> k, val |-> Absent, ttl |-> Ttl])

\* host_session_set: the same value to memory with ttl and to Redis with redis_ttl.
BeginSet(t) == \E k \in Keys, v \in Values :
    Begin(t, "write", [kind |-> "session_set", key |-> k, val |-> v, ttl |-> Ttl])

\* host_session_set_with_ttl: the caller's ttl in both.
BeginSetWithTtl(t) == \E k \in Keys, v \in Values, n \in CallerTtls :
    Begin(t, "write", [kind |-> "session_set_with_ttl", key |-> k, val |-> v, ttl |-> n])

BeginRemove(t) == \E k \in Keys :
    \/ Begin(t, "remove", [kind |-> "remove_sync", key |-> k, val |-> Absent, ttl |-> Ttl])
    \/ Begin(t, "forget", [kind |-> "remove_redis_sync", key |-> k, val |-> Absent, ttl |-> Ttl])

\* get_sync and get_hot_sync: the OccupiedEntry locks the bucket.  A live entry
\* is cloned and released; an expired one is still held when remove_sync is called.
ReadSync(t) ==
    /\ LockStep(t, "read")
    /\ call[t].kind \in Readers
    /\ LET k == call[t].key IN
       \/ /\ Live(k)
          /\ Return(t)
          /\ UNCHANGED bucket_lock
       \/ /\ Expired(k)
          /\ Goto(t, "remove")
          /\ bucket_lock' = [bucket_lock EXCEPT ![BucketOf[k]] = t]
       \/ /\ container[k] = Absent
          /\ Miss(t)
          /\ UNCHANGED bucket_lock
    /\ UNCHANGED <<container, redis, watchVars>>

\* get_hot and get_cold: a live entry is given a new expiry and returned; in the
\* other case the entry is released before remove_sync is called.
ReadAsync(t) ==
    /\ LockStep(t, "read")
    /\ call[t].kind \in AsyncReaders
    /\ LET k == call[t].key IN
       IF Live(k)
         THEN Return(t) /\ Upsert(k, container[k].val, Ttl)
         ELSE Goto(t, "remove") /\ UNCHANGED container
    /\ UNCHANGED <<redis, bucket_lock, watchVars>>

\* remove_sync, on its own or after a read: it needs the lock of the bucket.
Remove(t) ==
    /\ LockStep(t, "remove")
    /\ container' = [container EXCEPT ![call[t].key] = Absent]
    /\ Miss(t)
    /\ UNCHANGED <<redis, bucket_lock, watchVars>>

\* get_redis_sync, or the GET of get_cold.
GetRedis(t) ==
    /\ pc[t] = "cold"
    /\ LET k == RedisKey(call[t]) IN
       \/ /\ redis[k] # Absent
          /\ pc' = [pc EXCEPT ![t] = "fill"]
          /\ call' = [call EXCEPT ![t].val = redis[k].val]
       \/ /\ GetMisses(k)
          /\ Return(t)
    /\ UNCHANGED <<container, redis, bucket_lock, watchVars>>

\* What was read from Redis goes back to memory with a full ttl.
Fill(t) ==
    /\ LockStep(t, "fill")
    /\ Upsert(call[t].key, call[t].val, Ttl)
    /\ Return(t)
    /\ UNCHANGED <<redis, bucket_lock, watchVars>>

\* set_sync and set_with_ttl_sync.
SetSync(t) ==
    /\ LockStep(t, "write")
    /\ Upsert(call[t].key, call[t].val, call[t].ttl)
    /\ Goto(t, "persist")
    /\ UNCHANGED <<redis, bucket_lock, watchVars>>

\* set_redis_sync and set_redis_sync_with_ttl; a failure is the caller's FALSE.
SetRedis(t) ==
    /\ pc[t] = "persist"
    /\ \/ Setex(RedisKey(call[t]), call[t].val,
                IF call[t].kind = "session_set" THEN RedisTtl ELSE call[t].ttl)
       \/ RedisMayFail /\ UNCHANGED redis
    /\ Return(t)
    /\ UNCHANGED <<container, bucket_lock, watchVars>>

\* remove_redis_sync.
RemoveRedis(t) ==
    /\ pc[t] = "forget"
    /\ \/ redis' = [redis EXCEPT ![RedisKey(call[t])] = Absent]
       \/ RedisMayFail /\ UNCHANGED redis
    /\ Return(t)
    /\ UNCHANGED <<container, bucket_lock, watchVars>>

ThreadStep(t) ==
    \/ ReadSync(t) \/ ReadAsync(t) \/ Remove(t) \/ GetRedis(t)
    \/ Fill(t) \/ SetSync(t) \/ SetRedis(t) \/ RemoveRedis(t)

BeginCall(t) == BeginRead(t) \/ BeginSet(t) \/ BeginSetWithTtl(t) \/ BeginRemove(t)

-----------------------------------------------------------------------------
(* The task of RedisHashMap::watch.                                        *)

\* The interval elapses and a connection to Redis is there; without one the
\* task only logs and waits for the next interval.
WatchTick ==
    /\ watch_pc = "waiting"
    /\ watch_pc' = "sweeping"
    /\ UNCHANGED <<container, redis, threadVars, watch_bucket, to_store>>

\* retain_sync locks the buckets one after the other ...
SweepUnlocked == watch_pc = "sweeping"     \* mutant: without waiting for the lock
SweepReady == watch_pc = "sweeping" /\ bucket_lock[watch_bucket] = Nobody

\* ... takes the entries that have expired out of each ...
DueNextTick ==                             \* mutant: and those about to expire
    {k \in Keys : BucketOf[k] = watch_bucket /\ container[k] # Absent /\ container[k].left <= 1}
DueNow == {k \in Keys : BucketOf[k] = watch_bucket /\ Expired(k)}

\* ... and ends after the last.
EndsEarly == watch_bucket = 1              \* mutant: ends after the first
SweepEnds == watch_bucket = NumBuckets

WatchSweep ==
    /\ SweepReady
    /\ LET due == DueNow IN
       /\ container' = [k \in Keys |-> IF k \in due THEN Absent ELSE container[k]]
       /\ to_store' = to_store \cup {[key |-> k, val |-> container[k].val] : k \in due}
    /\ IF SweepEnds
         THEN /\ watch_bucket' = 1
              /\ watch_pc' = IF to_store' = {} THEN "waiting" ELSE "storing"
         ELSE /\ watch_bucket' = watch_bucket + 1
              /\ UNCHANGED watch_pc
    /\ UNCHANGED <<redis, threadVars>>

\* SETEX of one pair; a failure is logged and the pair is dropped.
WatchStore ==
    /\ watch_pc = "storing"
    /\ \E e \in to_store :
       /\ \/ Setex(e.key, e.val, RedisTtl)
          \/ RedisMayFail /\ UNCHANGED redis
       /\ to_store' = to_store \ {e}
    /\ watch_pc' = IF to_store' = {} THEN "waiting" ELSE "storing"
    /\ UNCHANGED <<container, threadVars, watch_bucket>>

WatchStep == WatchTick \/ WatchSweep \/ WatchStore

-----------------------------------------------------------------------------
(* The environment.                                                        *)

\* One tick of the clock: entries of the map stay when they expire, Redis
\* deletes its own.
Tick ==
    /\ container' = [k \in Keys |->
           IF Live(k) THEN [container[k] EXCEPT !.left = @ - 1] ELSE container[k]]
    /\ redis' = [k \in Keys |->
           IF redis[k] = Absent \/ redis[k].left = 1
             THEN Absent ELSE [redis[k] EXCEPT !.left = @ - 1]]
    /\ UNCHANGED <<threadVars, watchVars>>

\* The process is replaced by a new one: only Redis survives.
Restart ==
    /\ MayRestart
    /\ container' = [k \in Keys |-> Absent]
    /\ bucket_lock' = [b \in Buckets |-> Nobody]
    /\ pc' = [t \in Threads |-> "idle"]
    /\ call' = [t \in Threads |-> Absent]
    /\ watch_pc' = "waiting"
    /\ watch_bucket' = 1
    /\ to_store' = {}
    /\ UNCHANGED redis

Next ==
    \/ \E t \in Threads : BeginCall(t) \/ ThreadStep(t)
    \/ WatchStep
    \/ Tick
    \/ Restart

Spec == Init /\ [][Next]_vars

\* The scheduler runs every started call, and the watch task, as long as they
\* can step.  That calls begin, time passes, Redis answers or the process is
\* restarted is not promised.
Fairness ==
    /\ \A t \in Threads : WF_vars(ThreadStep(t))
    /\ WF_vars(WatchStep)

FairSpec == Spec /\ Fairness

-----------------------------------------------------------------------------
(* Properties.                                                             *)

\* A bucket stays locked between two steps only in the hands of a get_sync or
\* get_hot_sync that found its entry expired and now waits, in remove_sync, for
\* the lock it holds itself; the entry is still there; and every such reader is
\* in that position (redis_hashmap.rs 78-88 and 156-166).
WedgeInv ==
    /\ \A b \in Buckets : bucket_lock[b] # Nobody =>
         \E t \in Threads :
            /\ bucket_lock[b] = t
            /\ pc[t] = "remove"
            /\ call[t].kind \in Readers
            /\ BucketOf[call[t].key] = b
            /\ Expired(call[t].key)
    /\ \A t \in Threads : pc[t] = "remove" /\ call[t].kind \in Readers =>
         bucket_lock[BucketOf[call[t].key]] = t

\* A bucket locked that way is lost until the process restarts: the lock never
\* changes hands, the entries under it never change, and neither the reader nor
\* a call that waits for the bucket ever takes another step.
WedgeKept ==
    \A b \in Buckets : bucket_lock[b] # Nobody =>
        /\ bucket_lock'[b] = bucket_lock[b]
        /\ \A k \in Keys : BucketOf[k] = b /\ ~Live(k) => container'[k] = container[k]
        /\ \A t \in Threads :
             pc[t] \in {"read", "remove", "fill", "write"} /\ BucketOf[call[t].key] = b
             => pc'[t] = pc[t]

WedgeIsPermanent == [][Restart \/ WedgeKept]_vars

\* The watch task never takes a live entry out of memory, and what it takes out
\* leaves its list only for Redis, or dropped because that one SETEX failed.
SweepKeepsValues ==
    [][(watch_pc # "waiting" /\ ~Restart) =>
         /\ \A k \in Keys : (container[k] # Absent /\ container'[k] = Absent) =>
              \/ Expired(k) /\ [key |-> k, val |-> container[k].val] \in to_store'
              \/ \E t \in Threads : pc[t] = "remove" /\ call[t].key = k /\ pc'[t] # "remove"
         /\ \A e \in to_store \ to_store' :
              \/ redis'[e.key] = [val |-> e.val, left |-> RedisTtl]
              \/ RedisMayFail /\ to_store' = to_store \ {e}
      ]_vars

\* The values that calls to set are bringing to a key, and those the store knows
\* for it: in memory, in Redis, in the list of the watch task, or on the way from
\* Redis back to memory.
Brought == [k \in Keys |->
    {call[t].val : t \in {u \in Threads : pc[u] \in {"write", "persist"} /\ call[u].key = k}}]
Known == [k \in Keys |->
    {c.val : c \in {container[k], redis[k]} \ {Absent}}
      \cup {e.val : e \in {x \in to_store : x.key = k}}
      \cup {call[t].val : t \in {u \in Threads : pc[u] = "fill" /\ call[u].key = k}}]

Promise == INSTANCE SessionPromise WITH brought <- Brought, known <- Known

\* The store implements its promise: across memory, Redis, the watch task and
\* restarts, a value is known under a key only if a call to set that key brought
\* it, and once the last copy is gone only another call can bring it back.
KeepsPromise == Promise!Spec

Wedged(b) == bucket_lock[b] # Nobody

\* Every call returns, unless the bucket of its key is lost.
CallsReturn ==
    \A t \in Threads : pc[t] # "idle" ~> pc[t] = "idle" \/ Wedged(BucketOf[call[t].key])

\* An expired entry does not stay in memory, unless some bucket is lost: it need
\* not be the entry's own, for the watch task sweeps no further than the first.
ExpiredLeaveMemory ==
    \A k \in Keys : Expired(k) ~> ~Expired(k) \/ \E b \in Buckets : Wedged(b)

\* What the head of redis_hashmap.rs says: after its ttl in memory a value does
\* not stay there; it goes to Redis (or was replaced).
StoredAfterExpiry == \A k \in Keys : Expired(k) ~> ~Expired(k)

=============================================================================
