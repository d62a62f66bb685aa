------------------------- MODULE SessionStore_proofs -------------------------
(***************************************************************************)
(* Theorems of SessionStore, for every set of keys, values and threads,    *)
(* every number of buckets and every ttl.                                  *)
(***************************************************************************)
EXTENDS SessionStore, TLAPS

Places == {"idle", "read", "remove", "cold", "fill", "write", "persist", "forget"}

\* What a call carries at each place, which TypeOK alone does not say: it is
\* there exactly while its thread is not idle; it has a value wherever one is
\* about to be written; and only the calls that read or remove get to a place
\* where an entry is read or removed.
CallShape(at, c) ==
    /\ at = "idle" <=> c = Absent
    /\ at \in {"fill", "write", "persist"} => c.val \in Values
    /\ at = "read" => c.kind \in Readers \cup AsyncReaders
    /\ at = "remove" => c.kind \in Readers \cup AsyncReaders \cup {"remove_sync"}

CallInv == \A t \in Threads : CallShape(pc[t], call[t])

\* Redis deletes an entry at the tick it expires.
RedisInv == \A k \in Keys : redis[k] # Absent => redis[k].left # 0

TypeInv == TypeOK /\ CallInv /\ RedisInv

USE SessionStoreAssumption DEF Buckets

-----------------------------------------------------------------------------
(* Types.                                                                  *)

LEMMA TtlBounds ==
    /\ Ttl \in 0..MaxLeft
    /\ RedisTtl \in 0..MaxLeft
    /\ CallerTtls \subseteq 0..MaxLeft
  OBVIOUS

\* An entry and a call are records, and not the value that stands for none.
LEMMA Records ==
    /\ Absent \notin StoredValue
    /\ Absent \notin Call
    /\ Absent \notin Values
    /\ \A v \in Values, n \in 0..MaxLeft : [val |-> v, left |-> n] \in StoredValue
    /\ \A e \in StoredValue : e.val \in Values /\ e.left \in 0..MaxLeft
    /\ \A c \in Call : c.key \in Keys /\ c.ttl \in 0..MaxLeft /\ BucketOf[c.key] \in Buckets
  BY DEF StoredValue, Call

LEMMA TypeInvInit == Init => TypeInv
  BY DEF Init, TypeInv, TypeOK, CallInv, CallShape, RedisInv

\* Thread t is now at place `at' with call c.
Moves(t, at, c) ==
    /\ pc' = [pc EXCEPT ![t] = at]
    /\ call' = [call EXCEPT ![t] = c]

LEMMA MovesType ==
    ASSUME TypeInv, NEW t \in Threads, NEW at \in Places, NEW c \in Call \cup {Absent},
           CallShape(at, c), Moves(t, at, c)
    PROVE  /\ pc' \in [Threads -> Places]
           /\ call' \in [Threads -> Call \cup {Absent}]
           /\ CallInv'
<1>1. pc' \in [Threads -> Places] /\ call' \in [Threads -> Call \cup {Absent}]
  BY DEF TypeInv, TypeOK, Moves, Places
<1>2. ASSUME NEW u \in Threads PROVE CallShape(pc'[u], call'[u])
  <2>1. CASE u = t
    BY <2>1 DEF TypeInv, TypeOK, Moves
  <2>2. CASE u # t
    BY <2>2 DEF TypeInv, TypeOK, CallInv, Moves
  <2>3. QED
    BY <2>1, <2>2
<1>3. QED
  BY <1>1, <1>2 DEF CallInv, CallShape

LEMMA GotoMoves ==
    ASSUME TypeInv, NEW t \in Threads, NEW at, Goto(t, at)
    PROVE  Moves(t, at, call[t])
  BY DEF TypeInv, TypeOK, Goto, Moves

LEMMA ReturnType ==
    ASSUME TypeInv, NEW t \in Threads, Return(t)
    PROVE  /\ pc' \in [Threads -> Places]
           /\ call' \in [Threads -> Call \cup {Absent}]
           /\ CallInv'
<1>1. Moves(t, "idle", Absent) /\ CallShape("idle", Absent)
  BY DEF Return, Moves, CallShape
<1>2. QED
  BY <1>1, MovesType DEF Places

LEMMA GotoType ==
    ASSUME TypeInv, NEW t \in Threads, NEW at \in Places, CallShape(at, call[t]), Goto(t, at)
    PROVE  /\ pc' \in [Threads -> Places]
           /\ call' \in [Threads -> Call \cup {Absent}]
           /\ CallInv'
<1>1. call[t] \in Call \cup {Absent}
  BY DEF TypeInv, TypeOK
<1>2. QED
  BY <1>1, GotoMoves, MovesType

\* Going to ask Redis, or returning, is fine from any call.
LEMMA MissType ==
    ASSUME TypeInv, NEW t \in Threads, call[t] # Absent, Miss(t)
    PROVE  /\ pc' \in [Threads -> Places]
           /\ call' \in [Threads -> Call \cup {Absent}]
           /\ CallInv'
<1>1. CallShape("cold", call[t])
  BY DEF CallShape
<1>2. QED
  BY <1>1, GotoType, ReturnType DEF Miss, Places

LEMMA UpsertType ==
    ASSUME TypeInv, NEW k \in Keys, NEW v \in Values, NEW n \in 0..MaxLeft, Upsert(k, v, n)
    PROVE  container' \in [Keys -> StoredValue \cup {Absent}]
  BY Records DEF TypeInv, TypeOK, Upsert

LEMMA SetexType ==
    ASSUME TypeInv, NEW k \in Keys, NEW v \in Values, NEW n \in 0..MaxLeft, Setex(k, v, n)
    PROVE  redis' \in [Keys -> StoredValue \cup {Absent}] /\ RedisInv'
<1>1. CASE n = 0
  BY <1>1 DEF TypeInv, TypeOK, RedisInv, Setex
<1>2. CASE n > 0
  <2>1. redis' = [redis EXCEPT ![k] = [val |-> v, left |-> n]]
    BY <1>2 DEF Setex
  <2>2. redis' \in [Keys -> StoredValue \cup {Absent}]
    BY <2>1, Records DEF TypeInv, TypeOK
  <2>3. ASSUME NEW x \in Keys, redis'[x] # Absent PROVE redis'[x].left # 0
    BY <1>2, <2>1, <2>3 DEF TypeInv, TypeOK, RedisInv
  <2>4. QED
    BY <2>2, <2>3 DEF RedisInv
<1>3. QED
  BY <1>1, <1>2

-----------------------------------------------------------------------------
(* The threads keep the types.                                             *)

\* Every way into the store makes a call of the right shape.
LEMMA BeginType ==
    ASSUME TypeInv, NEW t \in Threads, BeginCall(t)
    PROVE  TypeInv'
<1>1. ASSUME NEW at \in Places, NEW c \in Call, CallShape(at, c), Begin(t, at, c)
      PROVE  TypeInv'
  <2>1. Moves(t, at, c)
    BY <1>1 DEF Begin, Moves
  <2>2. pc' \in [Threads -> Places] /\ call' \in [Threads -> Call \cup {Absent}] /\ CallInv'
    BY <1>1, <2>1, MovesType
  <2>3. QED
    BY <1>1, <2>2 DEF Begin, TypeInv, TypeOK, RedisInv, watchVars, Places
<1>2. CASE BeginRead(t)
  <2>1. PICK kind \in Readers \cup AsyncReaders, k \in Keys :
           Begin(t, "read", [kind |-> kind, key |-> k, val |-> Absent, ttl |-> Ttl])
    BY <1>2 DEF BeginRead
  <2> DEFINE c == [kind |-> kind, key |-> k, val |-> Absent, ttl |-> Ttl]
  <2>2. c \in Call /\ CallShape("read", c)
    BY TtlBounds, Records DEF Call, Kinds, CallShape
  <2>3. QED
    BY <1>1, <2>1, <2>2 DEF Places
<1>3. CASE BeginSet(t)
  <2>1. PICK k \in Keys, v \in Values :
           Begin(t, "write", [kind |-> "session_set", key |-> k, val |-> v, ttl |-> Ttl])
    BY <1>3 DEF BeginSet
  <2> DEFINE c == [kind |-> "session_set", key |-> k, val |-> v, ttl |-> Ttl]
  <2>2. c \in Call
    BY TtlBounds DEF Call, Kinds, Writers
  <2>3. CallShape("write", c)
    BY <2>2, Records DEF CallShape
  <2>4. QED
    BY <1>1, <2>1, <2>2, <2>3 DEF Places
<1>4. CASE BeginSetWithTtl(t)
  <2>1. PICK k \in Keys, v \in Values, n \in CallerTtls :
           Begin(t, "write", [kind |-> "session_set_with_ttl", key |-> k, val |-> v, ttl |-> n])
    BY <1>4 DEF BeginSetWithTtl
  <2> DEFINE c == [kind |-> "session_set_with_ttl", key |-> k, val |-> v, ttl |-> n]
  <2>2. c \in Call
    BY TtlBounds DEF Call, Kinds, Writers
  <2>3. CallShape("write", c)
    BY <2>2, Records DEF CallShape
  <2>4. QED
    BY <1>1, <2>1, <2>2, <2>3 DEF Places
<1>5. CASE BeginRemove(t)
  <2> DEFINE c(kind, k) == [kind |-> kind, key |-> k, val |-> Absent, ttl |-> Ttl]
  <2>1. PICK k \in Keys : \/ Begin(t, "remove", c("remove_sync", k))
                          \/ Begin(t, "forget", c("remove_redis_sync", k))
    BY <1>5 DEF BeginRemove
  <2>2. c("remove_sync", k) \in Call /\ c("remove_redis_sync", k) \in Call
    BY TtlBounds DEF Call, Kinds
  <2>3. CallShape("remove", c("remove_sync", k)) /\ CallShape("forget", c("remove_redis_sync", k))
    BY <2>2, Records DEF CallShape
  <2>4. QED
    BY <1>1, <2>1, <2>2, <2>3 DEF Places
<1>6. QED
  BY <1>2, <1>3, <1>4, <1>5 DEF BeginCall

LEMMA ThreadType ==
    ASSUME TypeInv, NEW t \in Threads, ThreadStep(t)
    PROVE  TypeInv'
<1> DEFINE Moved == /\ pc' \in [Threads -> Places]
                    /\ call' \in [Threads -> Call \cup {Absent}]
                    /\ CallInv'
<1>0. pc[t] # "idle" /\ call[t] \in Call
  BY DEF TypeInv, TypeOK, CallInv, CallShape, ThreadStep, ReadSync, ReadAsync, Remove, GetRedis,
         Fill, SetSync, SetRedis, RemoveRedis, LockStep
<1> DEFINE k == call[t].key
<1>k. k \in Keys /\ BucketOf[k] \in Buckets /\ call[t].ttl \in 0..MaxLeft /\ call[t] # Absent
  BY <1>0, Records
<1>1. CASE ReadSync(t)
  <2>1. CASE Return(t) /\ UNCHANGED bucket_lock
    BY <1>1, <2>1, ReturnType DEF ReadSync, TypeInv, TypeOK, RedisInv, watchVars, Places
  <2>2. CASE Goto(t, "remove") /\ bucket_lock' = [bucket_lock EXCEPT ![BucketOf[k]] = t]
    <3>1. CallShape("remove", call[t])
      BY <1>1, <1>k DEF ReadSync, CallShape
    <3>2. Moved
      BY <2>2, <3>1, GotoType DEF Places
    <3>3. QED
      BY <1>1, <2>2, <3>2 DEF ReadSync, TypeInv, TypeOK, RedisInv, watchVars, Places
  <2>3. CASE Miss(t) /\ UNCHANGED bucket_lock
    BY <1>1, <1>k, <2>3, MissType DEF ReadSync, TypeInv, TypeOK, RedisInv, watchVars, Places
  <2>4. QED
    BY <1>1, <2>1, <2>2, <2>3 DEF ReadSync
<1>2. CASE ReadAsync(t)
  <2>1. CASE Live(k) /\ Return(t) /\ Upsert(k, container[k].val, Ttl)
    <3>1. container[k].val \in Values
      BY <1>k, <2>1, Records DEF Live, TypeInv, TypeOK
    <3>2. container' \in [Keys -> StoredValue \cup {Absent}]
      BY <1>k, <2>1, <3>1, TtlBounds, UpsertType
    <3>3. Moved
      BY <2>1, ReturnType
    <3>4. QED
      BY <1>2, <3>2, <3>3 DEF ReadAsync, TypeInv, TypeOK, RedisInv, watchVars, Places
  <2>2. CASE Goto(t, "remove") /\ UNCHANGED container
    <3>1. CallShape("remove", call[t])
      BY <1>2, <1>k DEF ReadAsync, CallShape
    <3>2. Moved
      BY <2>2, <3>1, GotoType DEF Places
    <3>3. QED
      BY <1>2, <2>2, <3>2 DEF ReadAsync, TypeInv, TypeOK, RedisInv, watchVars, Places
  <2>3. QED
    BY <1>2, <2>1, <2>2 DEF ReadAsync
<1>3. CASE Remove(t)
  BY <1>3, <1>k, MissType DEF Remove, TypeInv, TypeOK, RedisInv, watchVars, Places
<1>4. CASE GetRedis(t)
  <2>1. CASE redis[k] # Absent /\ Moves(t, "fill", [call[t] EXCEPT !.val = redis[k].val])
    <3>1. redis[k].val \in Values
      BY <1>k, <2>1, Records DEF TypeInv, TypeOK
    <3> DEFINE c == [call[t] EXCEPT !.val = redis[k].val]
    <3>2. c \in Call /\ c.val \in Values
      BY <1>0, <3>1 DEF Call
    <3>3. CallShape("fill", c)
      BY <3>2, Records DEF CallShape
    <3>4. Moved
      BY <2>1, <3>2, <3>3, MovesType DEF Places
    <3>5. QED
      BY <1>4, <3>4 DEF GetRedis, TypeInv, TypeOK, RedisInv, watchVars, Places
  <2>2. CASE Return(t)
    BY <1>4, <2>2, ReturnType DEF GetRedis, TypeInv, TypeOK, RedisInv, watchVars, Places
  <2>3. QED
    BY <1>4, <2>1, <2>2 DEF GetRedis, RedisKey, Moves
<1>5. CASE Fill(t)
  <2>1. call[t].val \in Values
    BY <1>5 DEF Fill, LockStep, TypeInv, CallInv, CallShape
  <2>2. container' \in [Keys -> StoredValue \cup {Absent}]
    BY <1>5, <1>k, <2>1, TtlBounds, UpsertType DEF Fill
  <2>3. QED
    BY <1>5, <2>2, ReturnType DEF Fill, TypeInv, TypeOK, RedisInv, watchVars, Places
<1>6. CASE SetSync(t)
  <2>1. call[t].val \in Values
    BY <1>6 DEF SetSync, LockStep, TypeInv, CallInv, CallShape
  <2>2. container' \in [Keys -> StoredValue \cup {Absent}]
    BY <1>6, <1>k, <2>1, UpsertType DEF SetSync
  <2>3. CallShape("persist", call[t])
    BY <1>k, <2>1 DEF CallShape
  <2>4. Moved
    BY <1>6, <2>3, GotoType DEF SetSync, Places
  <2>5. QED
    BY <1>6, <2>2, <2>4 DEF SetSync, TypeInv, TypeOK, RedisInv, watchVars, Places
<1>7. CASE SetRedis(t)
  <2> DEFINE n == IF call[t].kind = "session_set" THEN RedisTtl ELSE call[t].ttl
  <2>1. call[t].val \in Values /\ n \in 0..MaxLeft
    BY <1>7, <1>k, TtlBounds DEF SetRedis, TypeInv, CallInv, CallShape
  <2>2. redis' \in [Keys -> StoredValue \cup {Absent}] /\ RedisInv'
    <3>1. CASE Setex(k, call[t].val, n)
      <4> HIDE DEF n
      <4>1. QED
        BY <1>k, <2>1, <3>1, SetexType
    <3>2. CASE UNCHANGED redis
      BY <3>2 DEF TypeInv, TypeOK, RedisInv
    <3>3. QED
      BY <1>7, <3>1, <3>2 DEF SetRedis, RedisKey
  <2>3. QED
    BY <1>7, <2>2, ReturnType DEF SetRedis, TypeInv, TypeOK, watchVars, Places
<1>8. CASE RemoveRedis(t)
  <2>1. redis' \in [Keys -> StoredValue \cup {Absent}] /\ RedisInv'
    BY <1>8, <1>k DEF RemoveRedis, RedisKey, TypeInv, TypeOK, RedisInv
  <2>2. QED
    BY <1>8, <2>1, ReturnType DEF RemoveRedis, TypeInv, TypeOK, watchVars, Places
<1>9. QED
  BY <1>1, <1>2, <1>3, <1>4, <1>5, <1>6, <1>7, <1>8 DEF ThreadStep

-----------------------------------------------------------------------------
(* So do the watch task and the environment.                               *)

LEMMA WatchType ==
    ASSUME TypeInv, WatchStep
    PROVE  TypeInv'
<1>0. CASE UNCHANGED threadVars
  <2>1. CASE WatchTick
    BY <1>0, <2>1 DEF WatchTick, TypeInv, TypeOK, CallInv, CallShape, RedisInv, threadVars
  <2>2. CASE WatchSweep
    <3>1. container' \in [Keys -> StoredValue \cup {Absent}]
      BY <2>2 DEF WatchSweep, TypeInv, TypeOK
    <3>2. to_store' \in SUBSET [key : Keys, val : Values]
      <4>1. \A k \in DueNow : k \in Keys /\ container[k].val \in Values
        BY Records DEF DueNow, Expired, TypeInv, TypeOK
      <4>2. QED
        BY <2>2, <4>1 DEF WatchSweep, TypeInv, TypeOK
    <3>3. watch_bucket' \in Buckets /\ watch_pc' \in {"waiting", "sweeping", "storing"}
      BY <2>2 DEF WatchSweep, SweepReady, SweepEnds, TypeInv, TypeOK
    <3>4. QED
      BY <1>0, <2>2, <3>1, <3>2, <3>3
      DEF WatchSweep, TypeInv, TypeOK, CallInv, CallShape, RedisInv, threadVars
  <2>3. CASE WatchStore
    <3>1. PICK e \in to_store : /\ Setex(e.key, e.val, RedisTtl) \/ UNCHANGED redis
                                /\ to_store' = to_store \ {e}
      BY <2>3 DEF WatchStore
    <3>2. e.key \in Keys /\ e.val \in Values
      BY DEF TypeInv, TypeOK
    <3>3. redis' \in [Keys -> StoredValue \cup {Absent}] /\ RedisInv'
      <4>1. CASE UNCHANGED redis
        BY <4>1 DEF TypeInv, TypeOK, RedisInv
      <4>2. QED
        BY <3>1, <3>2, <4>1, TtlBounds, SetexType
    <3>4. QED
      BY <1>0, <2>3, <3>1, <3>3 DEF WatchStore, TypeInv, TypeOK, CallInv, CallShape, threadVars
  <2>4. QED
    BY <2>1, <2>2, <2>3 DEF WatchStep
<1>1. QED
  BY <1>0 DEF WatchStep, WatchTick, WatchSweep, WatchStore

\* One tick of the clock leaves a record a record.
LEMMA OlderRecord ==
    ASSUME NEW e \in StoredValue, e.left # 0
    PROVE  /\ [e EXCEPT !.left = @ - 1] \in StoredValue
           /\ [e EXCEPT !.left = @ - 1].left = e.left - 1
<1>1. e.left - 1 \in 0..MaxLeft
  BY DEF StoredValue
<1> DEFINE n == e.left - 1
<1> HIDE DEF n
<1>2. [e EXCEPT !.left = n] \in StoredValue /\ [e EXCEPT !.left = n].left = n
  BY <1>1 DEF StoredValue, n
<1>3. QED
  BY <1>2 DEF n

LEMMA TickType ==
    ASSUME TypeInv, Tick
    PROVE  TypeInv'
<1>1. container' \in [Keys -> StoredValue \cup {Absent}]
  <2>1. ASSUME NEW k \in Keys, Live(k)
        PROVE  [container[k] EXCEPT !.left = @ - 1] \in StoredValue
    <3>1. container[k] \in StoredValue /\ container[k].left # 0
      BY <2>1 DEF TypeInv, TypeOK, Live, StoredValue
    <3>2. QED
      BY <3>1, OlderRecord
  <2>2. \A k \in Keys : container'[k] \in StoredValue \cup {Absent}
    BY <2>1 DEF Tick, TypeInv, TypeOK
  <2>3. QED
    BY <2>2 DEF Tick
<1>2. redis' \in [Keys -> StoredValue \cup {Absent}] /\ RedisInv'
  <2>1. ASSUME NEW k \in Keys, redis[k] # Absent, redis[k].left # 1
        PROVE  /\ [redis[k] EXCEPT !.left = @ - 1] \in StoredValue
               /\ [redis[k] EXCEPT !.left = @ - 1].left # 0
    <3>1. redis[k] \in StoredValue /\ redis[k].left \in Int /\ redis[k].left # 0
      BY <2>1 DEF TypeInv, TypeOK, RedisInv, StoredValue
    <3>2. QED
      BY <2>1, <3>1, OlderRecord
  <2>2. ASSUME NEW k \in Keys
        PROVE  /\ redis'[k] \in StoredValue \cup {Absent}
               /\ redis'[k] # Absent => redis'[k].left # 0
    BY <2>1 DEF Tick, TypeInv, TypeOK
  <2>3. QED
    BY <2>2 DEF Tick, RedisInv
<1>3. QED
  BY <1>1, <1>2 DEF Tick, TypeInv, TypeOK, CallInv, CallShape, threadVars, watchVars

LEMMA TypeInvNext ==
    ASSUME TypeInv, [Next]_vars
    PROVE  TypeInv'
<1>1. CASE \E t \in Threads : BeginCall(t) \/ ThreadStep(t)
  BY <1>1, BeginType, ThreadType
<1>2. CASE WatchStep
  BY <1>2, WatchType
<1>3. CASE Tick
  BY <1>3, TickType
<1>4. CASE Restart
  BY <1>4 DEF Restart, TypeInv, TypeOK, CallInv, CallShape, RedisInv
<1>5. CASE UNCHANGED vars
  BY <1>5 DEF vars, TypeInv, TypeOK, CallInv, CallShape, RedisInv
<1>6. QED
  BY <1>1, <1>2, <1>3, <1>4, <1>5 DEF Next

LEMMA TypeInvariant == Spec => []TypeInv
  BY TypeInvInit, TypeInvNext, PTL DEF Spec

\* Every variable keeps its type: entries, calls, locks and the list of the
\* watch task hold what the code's types say, under any interleaving.
THEOREM TypeCorrect == Spec => []TypeOK
  BY TypeInvariant, PTL DEF TypeInv

-----------------------------------------------------------------------------
(* The lost buckets.  A step touches what a locked bucket guards only if   *)
(* it is a step of the environment.                                        *)

LEMMA OthersStay ==
    ASSUME TypeInv, NEW t \in Threads, BeginCall(t) \/ ThreadStep(t),
           NEW u \in Threads, u # t
    PROVE  pc'[u] = pc[u] /\ call'[u] = call[u]
<1> USE DEF TypeInv, TypeOK, Goto, Return, Miss
<1>1. CASE BeginCall(t)
  BY <1>1 DEF BeginCall, BeginRead, BeginSet, BeginSetWithTtl, BeginRemove, Begin
<1>2. CASE ReadSync(t)
  BY <1>2 DEF ReadSync
<1>3. CASE ReadAsync(t)
  BY <1>3 DEF ReadAsync
<1>4. CASE Remove(t)
  BY <1>4 DEF Remove
<1>5. CASE GetRedis(t)
  BY <1>5 DEF GetRedis
<1>6. CASE Fill(t) \/ SetSync(t) \/ SetRedis(t) \/ RemoveRedis(t)
  BY <1>6 DEF Fill, SetSync, SetRedis, RemoveRedis
<1>7. QED
  BY <1>1, <1>2, <1>3, <1>4, <1>5, <1>6 DEF ThreadStep

\* A thread at a place that needs the lock of a lost bucket does not move.
LEMMA WaitersStay ==
    ASSUME TypeInv, NEW t \in Threads, pc[t] \in {"read", "remove", "fill", "write"},
           ~Free(call[t].key)
    PROVE  ~BeginCall(t) /\ ~ThreadStep(t)
<1>1. ~BeginCall(t)
  BY DEF BeginCall, BeginRead, BeginSet, BeginSetWithTtl, BeginRemove, Begin
<1>2. ~ThreadStep(t)
  BY DEF ThreadStep, ReadSync, ReadAsync, Remove, GetRedis, Fill, SetSync, SetRedis,
         RemoveRedis, LockStep
<1>3. QED
  BY <1>1, <1>2

LEMMA LockedKeysStay ==
    ASSUME TypeInv, NEW k \in Keys, ~Free(k),
           WatchStep \/ \E t \in Threads : BeginCall(t) \/ ThreadStep(t)
    PROVE  container'[k] = container[k]
<1> USE DEF TypeInv, TypeOK
<1>1. CASE WatchStep
  <2>1. CASE WatchSweep
    <3>1. k \notin DueNow
      BY <2>1 DEF WatchSweep, SweepReady, DueNow, Free
    <3>2. QED
      BY <2>1, <3>1 DEF WatchSweep
  <2>2. CASE WatchTick \/ WatchStore
    BY <2>2 DEF WatchTick, WatchStore
  <2>3. QED
    BY <1>1, <2>1, <2>2 DEF WatchStep
<1>2. ASSUME NEW t \in Threads, BeginCall(t) \/ ThreadStep(t)
      PROVE  container'[k] = container[k]
  <2>1. CASE ReadAsync(t) \/ Remove(t) \/ Fill(t) \/ SetSync(t)
    <3>1. call[t].key # k
      BY <2>1 DEF ReadAsync, Remove, Fill, SetSync, LockStep
    <3>2. QED
      BY <2>1, <3>1 DEF ReadAsync, Remove, Fill, SetSync, Upsert
  <2>2. CASE BeginCall(t)
    BY <2>2 DEF BeginCall, BeginRead, BeginSet, BeginSetWithTtl, BeginRemove, Begin
  <2>3. CASE ReadSync(t) \/ GetRedis(t) \/ SetRedis(t) \/ RemoveRedis(t)
    BY <2>3 DEF ReadSync, GetRedis, SetRedis, RemoveRedis
  <2>4. QED
    BY <1>2, <2>1, <2>2, <2>3 DEF ThreadStep
<1>3. QED
  BY <1>1, <1>2

\* Of all steps only one kind takes a lock, and none gives one back.
TakesLock(t) ==
    /\ ReadSync(t)
    /\ Expired(call[t].key)
    /\ Goto(t, "remove")
    /\ bucket_lock' = [bucket_lock EXCEPT ![BucketOf[call[t].key]] = t]

LEMMA LocksStay ==
    ASSUME WatchStep \/ Tick \/ UNCHANGED vars \/ \E t \in Threads : BeginCall(t) \/ ThreadStep(t)
    PROVE  UNCHANGED bucket_lock \/ \E t \in Threads : TakesLock(t)
<1>1. CASE WatchStep
  BY <1>1 DEF WatchStep, WatchTick, WatchSweep, WatchStore, threadVars
<1>2. CASE Tick \/ UNCHANGED vars
  BY <1>2 DEF Tick, vars, threadVars
<1>3. ASSUME NEW t \in Threads, BeginCall(t) \/ ThreadStep(t)
      PROVE  UNCHANGED bucket_lock \/ TakesLock(t)
  <2>1. CASE BeginCall(t)
    BY <2>1 DEF BeginCall, BeginRead, BeginSet, BeginSetWithTtl, BeginRemove, Begin
  <2>2. CASE ReadSync(t)
    BY <2>2 DEF ReadSync, TakesLock
  <2>3. CASE ReadAsync(t) \/ Remove(t) \/ GetRedis(t)
    BY <2>3 DEF ReadAsync, Remove, GetRedis
  <2>4. CASE Fill(t) \/ SetSync(t) \/ SetRedis(t) \/ RemoveRedis(t)
    BY <2>4 DEF Fill, SetSync, SetRedis, RemoveRedis
  <2>5. QED
    BY <1>3, <2>1, <2>2, <2>3, <2>4 DEF ThreadStep
<1>4. QED
  BY <1>1, <1>2, <1>3

\* An expired entry under a lock outlives every step but a restart.
LEMMA LockedDeadStay ==
    ASSUME TypeInv, [Next]_vars, ~Restart, NEW k \in Keys, ~Free(k), ~Live(k)
    PROVE  container'[k] = container[k]
<1>1. CASE Tick
  BY <1>1 DEF Tick
<1>2. CASE UNCHANGED vars
  BY <1>2 DEF vars
<1>3. QED
  BY <1>1, <1>2, LockedKeysStay DEF Next

\* The two halves of WedgeInv, for one bucket and for one thread.
Holds(t, b) ==
    /\ bucket_lock[b] = t
    /\ pc[t] = "remove"
    /\ call[t].kind \in Readers
    /\ BucketOf[call[t].key] = b
    /\ Expired(call[t].key)

Waits(t) == pc[t] = "remove" /\ call[t].kind \in Readers

LEMMA WedgeInvHalves ==
    WedgeInv <=> /\ \A b \in Buckets : bucket_lock[b] # Nobody => \E t \in Threads : Holds(t, b)
                 /\ \A t \in Threads : Waits(t) => bucket_lock[BucketOf[call[t].key]] = t
  BY DEF WedgeInv, Holds, Waits

\* The thread that has lost a bucket keeps it, at the same place.
LEMMA HolderStays ==
    ASSUME TypeInv, [Next]_vars, ~Restart,
           NEW b \in Buckets, NEW t \in Threads, Holds(t, b)
    PROVE  Holds(t, b)'
<1> DEFINE k == call[t].key
<1>1. k \in Keys /\ BucketOf[k] = b /\ ~Free(k) /\ ~Live(k)
  <2>1. call[t] \in Call
    BY DEF Holds, TypeInv, TypeOK, CallInv, CallShape
  <2>2. QED
    BY <2>1, Records DEF Holds, Free, Expired, Live
<1>2. pc'[t] = pc[t] /\ call'[t] = call[t]
  <2>1. CASE WatchStep \/ Tick \/ UNCHANGED vars
    BY <2>1 DEF WatchStep, WatchTick, WatchSweep, WatchStore, Tick, vars, threadVars
  <2>2. ASSUME NEW u \in Threads, BeginCall(u) \/ ThreadStep(u)
        PROVE  pc'[t] = pc[t] /\ call'[t] = call[t]
    <3>1. u # t
      BY <1>1, <2>2, WaitersStay DEF Holds
    <3>2. QED
      BY <2>2, <3>1, OthersStay
  <2>3. QED
    BY <2>1, <2>2 DEF Next
<1>3. bucket_lock'[b] = t
  <2>1. CASE UNCHANGED bucket_lock
    BY <2>1 DEF Holds
  <2>2. ASSUME NEW u \in Threads, TakesLock(u)
        PROVE  bucket_lock'[b] = t
    <3>1. BucketOf[call[u].key] # b
      BY <2>2 DEF TakesLock, ReadSync, LockStep, Free, Holds
    <3>2. QED
      BY <2>2, <3>1 DEF TakesLock, Holds, TypeInv, TypeOK
  <2>3. QED
    BY <2>1, <2>2, LocksStay DEF Next
<1>4. container'[k] = container[k]
  BY <1>1, LockedDeadStay
<1>5. QED
  BY <1>2, <1>3, <1>4 DEF Holds, Expired

LEMMA WedgeInvInit == Init => WedgeInv
  BY DEF Init, WedgeInv

LEMMA WedgeInvNext ==
    ASSUME TypeInv, WedgeInv, [Next]_vars
    PROVE  WedgeInv'
<1>1. CASE Restart
  BY <1>1 DEF Restart, WedgeInv
<1>2. CASE ~Restart
  <2>1. ASSUME NEW b \in Buckets, bucket_lock'[b] # Nobody
        PROVE  \E t \in Threads : Holds(t, b)'
    <3>1. CASE bucket_lock[b] # Nobody
      <4>1. PICK t \in Threads : Holds(t, b)
        BY <3>1, WedgeInvHalves
      <4>2. QED
        BY <1>2, <4>1, HolderStays
    <3>2. CASE bucket_lock[b] = Nobody
      <4>1. PICK t \in Threads : TakesLock(t)
        BY <1>2, <2>1, <3>2, LocksStay DEF Next
      <4>2. BucketOf[call[t].key] = b /\ bucket_lock'[b] = t
        BY <2>1, <3>2, <4>1 DEF TakesLock, TypeInv, TypeOK
      <4>3. /\ pc'[t] = "remove"
            /\ call'[t] = call[t]
            /\ call[t].kind \in Readers
            /\ container' = container
        BY <4>1 DEF TakesLock, ReadSync, Goto, TypeInv, TypeOK
      <4>4. Holds(t, b)'
        BY <4>1, <4>2, <4>3 DEF Holds, TakesLock, Expired
      <4>5. QED
        BY <4>4
    <3>3. QED
      BY <3>1, <3>2
  <2>2. ASSUME NEW t \in Threads, Waits(t)'
        PROVE  (bucket_lock[BucketOf[call[t].key]] = t)'
    <3>1. CASE Waits(t)
      <4>1. PICK b \in Buckets : b = BucketOf[call[t].key]
        BY <3>1, Records DEF Waits, TypeInv, TypeOK, CallInv, CallShape
      <4>2. bucket_lock[b] = t
        BY <3>1, <4>1, WedgeInvHalves
      <4>3. Holds(t, b)
        <5>1. PICK u \in Threads : Holds(u, b)
          BY <4>2, WedgeInvHalves
        <5>2. QED
          BY <4>2, <5>1 DEF Holds
      <4>4. Holds(t, b)'
        BY <1>2, <4>3, HolderStays
      <4>5. QED
        BY <4>4 DEF Holds
    <3>2. CASE ~Waits(t)
      <4>1. TakesLock(t)
        <5>1. CASE ReadSync(t)
          BY <2>2, <3>2, <5>1
          DEF Waits, ReadSync, TakesLock, Miss, Goto, Return, LockStep, TypeInv, TypeOK
        <5>2. CASE ReadAsync(t)
          BY <2>2, <5>2
          DEF Waits, ReadAsync, Goto, Return, Readers, AsyncReaders, TypeInv, TypeOK
        <5>3. CASE Remove(t) \/ GetRedis(t)
          BY <2>2, <5>3 DEF Waits, Remove, GetRedis, Miss, Goto, Return, TypeInv, TypeOK
        <5>4. CASE Fill(t) \/ SetSync(t) \/ SetRedis(t) \/ RemoveRedis(t)
          BY <2>2, <5>4
          DEF Waits, Fill, SetSync, SetRedis, RemoveRedis, Goto, Return, TypeInv, TypeOK
        <5>5. CASE BeginCall(t)
          <6>1. call'[t].kind \notin Readers \/ pc'[t] # "remove"
            BY <5>5 DEF BeginCall, BeginRead, BeginSet, BeginSetWithTtl, BeginRemove, Begin,
                        Readers, TypeInv, TypeOK
          <6>2. QED
            BY <2>2, <6>1 DEF Waits
        <5>6. CASE ~BeginCall(t) /\ ~ThreadStep(t)
          <6>1. pc'[t] = pc[t] /\ call'[t] = call[t]
            BY <1>2, <5>6, OthersStay
            DEF Next, WatchStep, WatchTick, WatchSweep, WatchStore, Tick, vars, threadVars
          <6>2. QED
            BY <2>2, <3>2, <6>1 DEF Waits
        <5>7. QED
          BY <5>1, <5>2, <5>3, <5>4, <5>5, <5>6 DEF ThreadStep
      <4>2. call'[t] = call[t] /\ BucketOf[call[t].key] \in Buckets
        <5>1. call[t] \in Call
          BY <4>1 DEF TakesLock, ReadSync, LockStep, TypeInv, TypeOK, CallInv, CallShape
        <5>2. QED
          BY <4>1, <5>1, Records DEF TakesLock, Goto
      <4>3. QED
        BY <4>1, <4>2 DEF TakesLock, TypeInv, TypeOK
    <3>3. QED
      BY <3>1, <3>2
  <2>3. QED
    BY <2>1, <2>2 DEF WedgeInv, Holds, Waits
<1>3. QED
  BY <1>1, <1>2

LEMMA WedgeInvariant == Spec => [](TypeInv /\ WedgeInv)
<1>1. Init => TypeInv /\ WedgeInv
  BY TypeInvInit, WedgeInvInit
<1>2. TypeInv /\ WedgeInv /\ [Next]_vars => (TypeInv /\ WedgeInv)'
  BY TypeInvNext, WedgeInvNext
<1>3. QED
  BY <1>1, <1>2, PTL DEF Spec

\* A bucket of the map is held between two steps only by a synchronous read that
\* found an expired entry and now waits for that very bucket, and every such
\* read is in that position (redis_hashmap.rs 78-88 and 156-166).
THEOREM WedgeCharacterised == Spec => []WedgeInv
  BY WedgeInvariant, PTL

LEMMA WedgeKeptNext ==
    ASSUME TypeInv, WedgeInv, [Next]_vars, ~Restart
    PROVE  WedgeKept
<1> SUFFICES ASSUME NEW b \in Buckets, bucket_lock[b] # Nobody
             PROVE  /\ bucket_lock'[b] = bucket_lock[b]
                    /\ \A k \in Keys : BucketOf[k] = b /\ ~Live(k) => container'[k] = container[k]
                    /\ \A t \in Threads :
                         pc[t] \in {"read", "remove", "fill", "write"} /\ BucketOf[call[t].key] = b
                         => pc'[t] = pc[t]
  BY DEF WedgeKept
<1>1. bucket_lock'[b] = bucket_lock[b]
  <2>1. PICK t \in Threads : Holds(t, b)
    BY WedgeInvHalves
  <2>2. Holds(t, b)'
    BY <2>1, HolderStays
  <2>3. QED
    BY <2>1, <2>2 DEF Holds
<1>2. ASSUME NEW k \in Keys, BucketOf[k] = b, ~Live(k) PROVE container'[k] = container[k]
  BY <1>2, LockedDeadStay DEF Free
<1>3. ASSUME NEW t \in Threads, pc[t] \in {"read", "remove", "fill", "write"},
             BucketOf[call[t].key] = b
      PROVE  pc'[t] = pc[t]
  <2>1. ~BeginCall(t) /\ ~ThreadStep(t)
    BY <1>3, WaitersStay DEF Free
  <2>2. QED
    BY <2>1, OthersStay
    DEF Next, WatchStep, WatchTick, WatchSweep, WatchStore, Tick, vars, threadVars
<1>4. QED
  BY <1>1, <1>2, <1>3

\* A bucket held that way is lost until the process restarts, with every entry
\* that has expired in it and every call that needs it.
THEOREM WedgeForEver == Spec => WedgeIsPermanent
<1>1. TypeInv /\ WedgeInv /\ [Next]_vars => [Restart \/ WedgeKept]_vars
  BY WedgeKeptNext
<1>2. QED
  BY <1>1, WedgeInvariant, PTL DEF Spec, WedgeIsPermanent

-----------------------------------------------------------------------------
(* The promise.  What is known under a key, told copy by copy.             *)

Bringing(t, k, v) == pc[t] \in {"write", "persist"} /\ call[t].key = k /\ call[t].val = v
Carrying(t, k, v) == pc[t] = "fill" /\ call[t].key = k /\ call[t].val = v
Hot(k, v) == container[k] # Absent /\ container[k].val = v
Cold(k, v) == redis[k] # Absent /\ redis[k].val = v
Swept(k, v) == \E e \in to_store : e.key = k /\ e.val = v

LEMMA BroughtBy ==
    ASSUME NEW k \in Keys, NEW v
    PROVE  v \in Brought[k] <=> \E t \in Threads : Bringing(t, k, v)
  BY DEF Brought, Bringing

LEMMA KnownBy ==
    ASSUME NEW k \in Keys, NEW v
    PROVE  v \in Known[k] <=> Hot(k, v) \/ Cold(k, v) \/ Swept(k, v)
                               \/ \E t \in Threads : Carrying(t, k, v)
  BY DEF Known, Hot, Cold, Swept, Carrying

LEMMA BroughtType ==
    ASSUME TypeInv
    PROVE  Brought \in [Keys -> SUBSET Values]
<1>1. ASSUME NEW k \in Keys, NEW t \in Threads, NEW v, Bringing(t, k, v) PROVE v \in Values
  BY <1>1 DEF Bringing, TypeInv, CallInv, CallShape
<1>2. \A k \in Keys : Brought[k] \subseteq Values
  BY <1>1, BroughtBy
<1>3. QED
  BY <1>2 DEF Brought

LEMMA KnownType ==
    ASSUME TypeInv
    PROVE  Known \in [Keys -> SUBSET Values]
<1>1. ASSUME NEW k \in Keys, NEW v, Hot(k, v) \/ Cold(k, v) \/ Swept(k, v) PROVE v \in Values
  BY <1>1, Records DEF Hot, Cold, Swept, TypeInv, TypeOK
<1>2. ASSUME NEW k \in Keys, NEW t \in Threads, NEW v, Carrying(t, k, v) PROVE v \in Values
  BY <1>2 DEF Carrying, TypeInv, CallInv, CallShape
<1>3. \A k \in Keys : Known[k] \subseteq Values
  BY <1>1, <1>2, KnownBy
<1>4. QED
  BY <1>3 DEF Known

\* A step keeps the promise if every copy after it comes from a copy before it
\* or from a call that is bringing the value.
NoNewCall ==
    \A k \in Keys, v \in Values, t \in Threads : Bringing(t, k, v)' => Bringing(t, k, v)

Source(k, v) ==
    Hot(k, v) \/ Cold(k, v) \/ Swept(k, v) \/ \E t \in Threads : Carrying(t, k, v) \/ Bringing(t, k, v)

NoNewValue ==
    \A k \in Keys, v \in Values :
        /\ Hot(k, v)' => Source(k, v)
        /\ Cold(k, v)' => Source(k, v)
        /\ Swept(k, v)' => Source(k, v)
        /\ \A t \in Threads : Carrying(t, k, v)' => Source(k, v)

LEMMA KeepStep ==
    ASSUME TypeInv, TypeInv', NoNewCall, NoNewValue
    PROVE  Promise!Keep
<1>1. Brought' \in [Keys -> SUBSET Values] /\ Known' \in [Keys -> SUBSET Values]
  <2>1. (Brought \in [Keys -> SUBSET Values])'
    BY BroughtType, PTL
  <2>2. (Known \in [Keys -> SUBSET Values])'
    BY KnownType, PTL
  <2>3. QED
    BY <2>1, <2>2
<1>2. ASSUME NEW k \in Keys
      PROVE  Brought'[k] \subseteq Brought[k] /\ Known'[k] \subseteq Known[k] \cup Brought[k]
  <2>1. ASSUME NEW v \in Values, v \in Brought'[k] PROVE v \in Brought[k]
    <3>1. \E t \in Threads : Bringing(t, k, v)'
      BY <2>1 DEF Brought, Bringing
    <3>2. QED
      BY <3>1, BroughtBy DEF NoNewCall
  <2>2. ASSUME NEW v \in Values, v \in Known'[k] PROVE v \in Known[k] \cup Brought[k]
    <3>1. Hot(k, v)' \/ Cold(k, v)' \/ Swept(k, v)' \/ \E t \in Threads : Carrying(t, k, v)'
      BY <2>2 DEF Known, Hot, Cold, Swept, Carrying
    <3>2. Source(k, v)
      BY <3>1 DEF NoNewValue
    <3>3. QED
      BY <3>2, BroughtBy, KnownBy DEF Source
  <2>3. QED
    BY <1>1, <2>1, <2>2
<1>3. QED
  BY <1>1, <1>2 DEF Promise!Keep

\* A call to set brings its value and changes nothing that is known.
LEMMA BringStep ==
    ASSUME TypeInv, NEW t \in Threads, NEW k \in Keys, NEW v \in Values,
           NEW c \in Call, c.key = k, c.val = v, Begin(t, "write", c)
    PROVE  Promise!Bring
<1>1. pc[t] = "idle" /\ pc'[t] = "write" /\ call'[t] = c
  BY DEF Begin, TypeInv, TypeOK
<1>2. \A u \in Threads : u # t => pc'[u] = pc[u] /\ call'[u] = call[u]
  BY DEF Begin, TypeInv, TypeOK
<1>3. ASSUME NEW x \in Keys PROVE Brought'[x] = IF x = k THEN Brought[k] \cup {v} ELSE Brought[x]
  <2>1. ASSUME NEW w
        PROVE  (\E u \in Threads : Bringing(u, x, w)')
                 <=> (\E u \in Threads : Bringing(u, x, w)) \/ (x = k /\ w = v)
    BY <1>1, <1>2 DEF Bringing
  <2>2. \A w : w \in Brought'[x] <=> \E u \in Threads : Bringing(u, x, w)'
    BY DEF Brought, Bringing
  <2>3. \A w : w \in Brought[x] <=> \E u \in Threads : Bringing(u, x, w)
    BY BroughtBy
  <2>4. \A w : w \in Brought'[x] <=> w \in Brought[x] \/ (x = k /\ w = v)
    BY <2>1, <2>2, <2>3
  <2>5. QED
    BY <2>4
<1>4. Brought' = [Brought EXCEPT ![k] = @ \cup {v}]
  <2>1. Brought' = [x \in Keys |-> Brought'[x]] /\ Brought = [x \in Keys |-> Brought[x]]
    BY DEF Brought
  <2>2. QED
    BY <1>3, <2>1
<1>5. Known' = Known
  <2>1. ASSUME NEW x \in Keys PROVE Known'[x] = Known[x]
    <3>1. \A w : (\E u \in Threads : Carrying(u, x, w)') <=> \E u \in Threads : Carrying(u, x, w)
      BY <1>1, <1>2 DEF Carrying
    <3>2. \A w : /\ Hot(x, w)' <=> Hot(x, w)
                 /\ Cold(x, w)' <=> Cold(x, w)
                 /\ Swept(x, w)' <=> Swept(x, w)
      BY DEF Begin, Hot, Cold, Swept, watchVars
    <3>3. \A w : w \in Known'[x] <=> \/ Hot(x, w)' \/ Cold(x, w)' \/ Swept(x, w)'
                                     \/ \E u \in Threads : Carrying(u, x, w)'
      BY DEF Known, Hot, Cold, Swept, Carrying
    <3>4. \A w : w \in Known'[x] <=> w \in Known[x]
      BY <3>1, <3>2, <3>3, KnownBy
    <3>5. QED
      BY <3>4
  <2>2. Known' = [x \in Keys |-> Known'[x]] /\ Known = [x \in Keys |-> Known[x]]
    BY DEF Known
  <2>3. QED
    BY <2>1, <2>2
<1>6. QED
  BY <1>4, <1>5 DEF Promise!Bring

LEMMA BeginPromise ==
    ASSUME TypeInv, TypeInv', NEW t \in Threads, BeginCall(t)
    PROVE  Promise!Next
<1>1. CASE BeginSet(t)
  <2>1. PICK k \in Keys, v \in Values :
           Begin(t, "write", [kind |-> "session_set", key |-> k, val |-> v, ttl |-> Ttl])
    BY <1>1 DEF BeginSet
  <2> DEFINE c == [kind |-> "session_set", key |-> k, val |-> v, ttl |-> Ttl]
  <2>2. c \in Call /\ c.key = k /\ c.val = v
    BY TtlBounds DEF Call, Kinds, Writers
  <2>3. QED
    BY <2>1, <2>2, BringStep DEF Promise!Next
<1>2. CASE BeginSetWithTtl(t)
  <2>1. PICK k \in Keys, v \in Values, n \in CallerTtls :
           Begin(t, "write", [kind |-> "session_set_with_ttl", key |-> k, val |-> v, ttl |-> n])
    BY <1>2 DEF BeginSetWithTtl
  <2> DEFINE c == [kind |-> "session_set_with_ttl", key |-> k, val |-> v, ttl |-> n]
  <2>2. c \in Call /\ c.key = k /\ c.val = v
    BY TtlBounds DEF Call, Kinds, Writers
  <2>3. QED
    BY <2>1, <2>2, BringStep DEF Promise!Next
<1>3. CASE BeginRead(t) \/ BeginRemove(t)
  <2>1. pc'[t] \in {"read", "remove", "forget"} /\ UNCHANGED <<container, redis, to_store>>
    BY <1>3 DEF BeginRead, BeginRemove, Begin, TypeInv, TypeOK, watchVars
  <2>2. \A u \in Threads : u # t => pc'[u] = pc[u] /\ call'[u] = call[u]
    BY OthersStay
  <2>3. NoNewCall
    BY <2>1, <2>2 DEF NoNewCall, Bringing
  <2>4. NoNewValue
    BY <2>1, <2>2 DEF NoNewValue, Source, Hot, Cold, Swept, Carrying
  <2>5. QED
    BY <2>3, <2>4, KeepStep DEF Promise!Next
<1>4. QED
  BY <1>1, <1>2, <1>3 DEF BeginCall

LEMMA ThreadPromise ==
    ASSUME TypeInv, TypeInv', NEW t \in Threads, ThreadStep(t)
    PROVE  Promise!Next
<1> SUFFICES NoNewCall /\ NoNewValue
  BY KeepStep DEF Promise!Next
<1>0. call[t] \in Call /\ call[t].key \in Keys /\ pc[t] # "idle"
  BY Records DEF TypeInv, TypeOK, CallInv, CallShape, ThreadStep, ReadSync, ReadAsync, Remove,
         GetRedis, Fill, SetSync, SetRedis, RemoveRedis, LockStep
<1>1. \A u \in Threads : u # t => pc'[u] = pc[u] /\ call'[u] = call[u]
  BY OthersStay
<1> USE DEF NoNewCall, NoNewValue, Source, Bringing, Carrying, Hot, Cold, Swept, Goto, Return, Miss
<1>2. CASE ReadSync(t)
  <2>1. pc'[t] \in {"idle", "remove", "cold"}
    BY <1>2 DEF ReadSync, TypeInv, TypeOK
  <2>2. UNCHANGED <<container, redis, to_store>>
    BY <1>2 DEF ReadSync, watchVars
  <2>3. QED
    BY <1>1, <2>1, <2>2
<1>3. CASE ReadAsync(t)
  <2>1. pc'[t] \in {"idle", "remove"}
    BY <1>3 DEF ReadAsync, TypeInv, TypeOK
  <2>2. \A k \in Keys : container'[k] # Absent =>
           container[k] # Absent /\ container'[k].val = container[k].val
    <3>1. CASE UNCHANGED container
      BY <3>1
    <3>2. CASE Live(call[t].key) /\ Upsert(call[t].key, container[call[t].key].val, Ttl)
      BY <1>0, <3>2 DEF Upsert, Live, TypeInv, TypeOK
    <3>3. QED
      BY <1>3, <3>1, <3>2 DEF ReadAsync
  <2>3. UNCHANGED <<redis, to_store>>
    BY <1>3 DEF ReadAsync, watchVars
  <2>4. QED
    BY <1>1, <2>1, <2>2, <2>3
<1>4. CASE Remove(t)
  <2>1. pc'[t] \in {"idle", "cold"}
    BY <1>4 DEF Remove, TypeInv, TypeOK
  <2>2. \A k \in Keys : container'[k] # Absent => container'[k] = container[k]
    BY <1>0, <1>4 DEF Remove, TypeInv, TypeOK
  <2>3. UNCHANGED <<redis, to_store>>
    BY <1>4 DEF Remove, watchVars
  <2>4. NoNewCall
    BY <1>1, <2>1
  <2>5. NoNewValue
    BY <1>1, <2>1, <2>2, <2>3
  <2>6. QED
    BY <2>4, <2>5
<1>5. CASE GetRedis(t)
  <2>1. CASE pc'[t] = "idle"
    BY <1>0, <1>1, <1>5, <2>1 DEF GetRedis, watchVars
  <2>2. CASE /\ redis[call[t].key] # Absent
             /\ pc'[t] = "fill"
             /\ call'[t].key = call[t].key
             /\ call'[t].val = redis[call[t].key].val
    BY <1>0, <1>1, <1>5, <2>2 DEF GetRedis, watchVars
  <2>3. /\ pc'[t] = "idle" \/ pc'[t] = "fill"
        /\ pc'[t] = "fill" =>
             /\ redis[call[t].key] # Absent
             /\ call' = [call EXCEPT ![t].val = redis[call[t].key].val]
    BY <1>5 DEF GetRedis, RedisKey, TypeInv, TypeOK
  <2>4. ASSUME NEW v, call' = [call EXCEPT ![t].val = v]
        PROVE  call'[t].key = call[t].key /\ call'[t].val = v
    BY <1>0, <2>4 DEF TypeInv, TypeOK, Call
  <2>5. QED
    BY <2>1, <2>2, <2>3, <2>4
<1>6. CASE Fill(t)
  BY <1>0, <1>1, <1>6 DEF Fill, LockStep, Upsert, TypeInv, TypeOK, watchVars
<1>7. CASE SetSync(t)
  BY <1>0, <1>1, <1>7 DEF SetSync, LockStep, Upsert, TypeInv, TypeOK, watchVars
<1>8. CASE SetRedis(t)
  <2>1. ASSUME NEW k \in Keys
        PROVE  redis'[k] = redis[k] \/ (k = call[t].key /\ redis'[k].val = call[t].val)
    BY <1>8 DEF SetRedis, Setex, RedisKey, TypeInv, TypeOK
  <2>2. pc[t] = "persist" /\ pc'[t] = "idle" /\ UNCHANGED <<container, to_store>>
    BY <1>8 DEF SetRedis, TypeInv, TypeOK, watchVars
  <2>3. QED
    BY <1>0, <1>1, <2>1, <2>2
<1>9. CASE RemoveRedis(t)
  <2>1. \A k \in Keys : redis'[k] # Absent => redis'[k] = redis[k]
    BY <1>9 DEF RemoveRedis, RedisKey, TypeInv, TypeOK
  <2>2. pc'[t] = "idle" /\ UNCHANGED <<container, to_store>>
    BY <1>9 DEF RemoveRedis, TypeInv, TypeOK, watchVars
  <2>3. QED
    BY <1>0, <1>1, <2>1, <2>2
<1>10. QED
  BY <1>2, <1>3, <1>4, <1>5, <1>6, <1>7, <1>8, <1>9 DEF ThreadStep

LEMMA WatchPromise ==
    ASSUME TypeInv, TypeInv', WatchStep
    PROVE  Promise!Next
<1> SUFFICES NoNewCall /\ NoNewValue
  BY KeepStep DEF Promise!Next
<1>1. UNCHANGED threadVars
  BY DEF WatchStep, WatchTick, WatchSweep, WatchStore
<1> USE DEF NoNewCall, NoNewValue, Source, Bringing, Carrying, Hot, Cold, Swept, threadVars
<1>2. CASE WatchTick
  BY <1>1, <1>2 DEF WatchTick
<1>3. CASE WatchSweep
  <2>1. \A k \in Keys : container'[k] # Absent => container'[k] = container[k]
    BY <1>3 DEF WatchSweep
  <2>2. ASSUME NEW e \in to_store'
        PROVE  e \in to_store \/ (e.key \in DueNow /\ e.val = container[e.key].val)
    BY <1>3, <2>2 DEF WatchSweep
  <2>3. \A k \in DueNow : container[k] # Absent
    BY DEF DueNow, Expired
  <2>4. QED
    BY <1>1, <1>3, <2>1, <2>2, <2>3 DEF WatchSweep
<1>4. CASE WatchStore
  <2>1. PICK e \in to_store : /\ Setex(e.key, e.val, RedisTtl) \/ UNCHANGED redis
                              /\ to_store' = to_store \ {e}
    BY <1>4 DEF WatchStore
  <2>2. ASSUME NEW k \in Keys
        PROVE  redis'[k] = redis[k] \/ (k = e.key /\ redis'[k].val = e.val)
    BY <2>1 DEF Setex, TypeInv, TypeOK
  <2>3. QED
    BY <1>1, <1>4, <2>1, <2>2 DEF WatchStore
<1>5. QED
  BY <1>2, <1>3, <1>4 DEF WatchStep

LEMMA EnvironmentPromise ==
    ASSUME TypeInv, TypeInv', Tick \/ Restart
    PROVE  Promise!Next
<1> SUFFICES NoNewCall /\ NoNewValue
  BY KeepStep DEF Promise!Next
<1> USE DEF NoNewCall, NoNewValue, Source, Bringing, Carrying, Hot, Cold, Swept
<1>1. CASE Tick
  <2>1. ASSUME NEW e \in StoredValue PROVE [e EXCEPT !.left = @ - 1].val = e.val
    BY DEF StoredValue
  <2>2. \A k \in Keys : container'[k] # Absent => container[k] # Absent /\ container'[k].val = container[k].val
    BY <1>1, <2>1 DEF Tick, Live, TypeInv, TypeOK
  <2>3. \A k \in Keys : redis'[k] # Absent => redis[k] # Absent /\ redis'[k].val = redis[k].val
    BY <1>1, <2>1 DEF Tick, TypeInv, TypeOK
  <2>4. QED
    BY <1>1, <2>2, <2>3 DEF Tick, threadVars, watchVars
<1>2. CASE Restart
  BY <1>2 DEF Restart
<1>3. QED
  BY <1>1, <1>2

LEMMA PromiseInit == Init => Promise!Init
  BY DEF Init, Promise!Init, Brought, Known

LEMMA PromiseNext ==
    ASSUME TypeInv, TypeInv', [Next]_vars
    PROVE  [Promise!Next]_<<Brought, Known>>
<1>1. CASE Next
  BY <1>1, BeginPromise, ThreadPromise, WatchPromise, EnvironmentPromise DEF Next
<1>2. CASE UNCHANGED vars
  BY <1>2 DEF vars, Brought, Known
<1>3. QED
  BY <1>1, <1>2

\* The store implements its promise: memory, Redis, the watch task, failed
\* commands and restarts together never know a value that no call to set that
\* key brought, and never find again what they have lost.
THEOREM StoreKeepsPromise == Spec => KeepsPromise
<1>1. TypeInv /\ TypeInv' /\ [Next]_vars => [Promise!Next]_<<Brought, Known>>
  BY PromiseNext
<1>2. QED
  BY <1>1, PromiseInit, TypeInvariant, PTL DEF Spec, KeepsPromise, Promise!Spec
-----------------------------------------------------------------------------
(* The watch task.  Where an entry leaves memory, and a pair the list.     *)

\* A step takes out of memory only what has expired and joins the list of the
\* watch task, or what a call at "remove" was about to take.
TakenRightly ==
    \A k \in Keys : (container[k] # Absent /\ container'[k] = Absent) =>
        \/ Expired(k) /\ [key |-> k, val |-> container[k].val] \in to_store'
        \/ \E t \in Threads : pc[t] = "remove" /\ call[t].key = k /\ pc'[t] # "remove"

\* A pair leaves the list for Redis, or alone and because the command failed.
LeftRightly ==
    \A e \in to_store \ to_store' :
        \/ redis'[e.key] = [val |-> e.val, left |-> RedisTtl]
        \/ RedisMayFail /\ to_store' = to_store \ {e}

\* What upsert_sync writes is never the value that stands for no entry.
LEMMA UpsertTakesNothing ==
    ASSUME TypeInv, NEW k \in Keys, NEW v \in Values, NEW n \in 0..MaxLeft, Upsert(k, v, n),
           NEW x \in Keys, container[x] # Absent
    PROVE  container'[x] # Absent
<1>1. CASE x = k
  BY <1>1, Records DEF Upsert, TypeInv, TypeOK
<1>2. CASE x # k
  BY <1>2 DEF Upsert, TypeInv, TypeOK
<1>3. QED
  BY <1>1, <1>2

LEMMA ThreadTakesRightly ==
    ASSUME TypeInv, NEW t \in Threads, ThreadStep(t)
    PROVE  TakenRightly
<1>0. call[t] \in Call /\ call[t].key \in Keys /\ call[t].ttl \in 0..MaxLeft
  BY Records DEF TypeInv, TypeOK, CallInv, CallShape, ThreadStep, ReadSync, ReadAsync, Remove,
         GetRedis, Fill, SetSync, SetRedis, RemoveRedis, LockStep
<1> SUFFICES ASSUME NEW k \in Keys, container[k] # Absent, container'[k] = Absent
             PROVE  pc[t] = "remove" /\ call[t].key = k /\ pc'[t] # "remove"
  BY DEF TakenRightly
<1>1. CASE Remove(t)
  <2>1. pc[t] = "remove" /\ call[t].key = k
    BY <1>0, <1>1 DEF Remove, LockStep, TypeInv, TypeOK
  <2>2. pc'[t] \in {"idle", "cold"}
    BY <1>1 DEF Remove, Miss, Goto, Return, TypeInv, TypeOK
  <2>3. QED
    BY <2>1, <2>2
<1>2. CASE ReadAsync(t)
  <2>1. Live(call[t].key) /\ Upsert(call[t].key, container[call[t].key].val, Ttl)
    BY <1>2 DEF ReadAsync
  <2>2. container[call[t].key].val \in Values
    BY <1>0, <2>1, Records DEF Live, TypeInv, TypeOK
  <2>3. QED
    BY <1>0, <2>1, <2>2, TtlBounds, UpsertTakesNothing
<1>3. CASE Fill(t)
  <2>1. call[t].val \in Values
    BY <1>3 DEF Fill, LockStep, TypeInv, CallInv, CallShape
  <2>2. QED
    BY <1>0, <1>3, <2>1, TtlBounds, UpsertTakesNothing DEF Fill
<1>4. CASE SetSync(t)
  <2>1. call[t].val \in Values
    BY <1>4 DEF SetSync, LockStep, TypeInv, CallInv, CallShape
  <2>2. QED
    BY <1>0, <1>4, <2>1, UpsertTakesNothing DEF SetSync
<1>5. CASE ReadSync(t) \/ GetRedis(t) \/ SetRedis(t) \/ RemoveRedis(t)
  BY <1>5 DEF ReadSync, GetRedis, SetRedis, RemoveRedis
<1>6. QED
  BY <1>1, <1>2, <1>3, <1>4, <1>5 DEF ThreadStep

\* A sweep takes what it takes to its list; nothing leaves the list meanwhile.
LEMMA SweepTakesRightly ==
    ASSUME TypeInv, WatchSweep
    PROVE  TakenRightly /\ LeftRightly
<1>1. /\ container' = [k \in Keys |-> IF k \in DueNow THEN Absent ELSE container[k]]
      /\ to_store' = to_store \cup {[key |-> k, val |-> container[k].val] : k \in DueNow}
  BY DEF WatchSweep
<1>2. ASSUME NEW k \in Keys, container[k] # Absent, container'[k] = Absent
      PROVE  Expired(k) /\ [key |-> k, val |-> container[k].val] \in to_store'
  <2>1. k \in DueNow
    BY <1>1, <1>2
  <2>2. QED
    BY <1>1, <2>1 DEF DueNow
<1>3. QED
  BY <1>1, <1>2 DEF TakenRightly, LeftRightly

\* SETEX with redis_ttl, which is not 0, puts the pair in Redis as it is.
LEMMA StoreLeavesRightly ==
    ASSUME TypeInv, WatchStore
    PROVE  TakenRightly /\ LeftRightly
<1>1. PICK e \in to_store : /\ Setex(e.key, e.val, RedisTtl) \/ (RedisMayFail /\ UNCHANGED redis)
                            /\ to_store' = to_store \ {e}
  BY DEF WatchStore
<1>2. e.key \in Keys
  BY DEF TypeInv, TypeOK
<1>3. CASE Setex(e.key, e.val, RedisTtl)
  <2>1. redis'[e.key] = [val |-> e.val, left |-> RedisTtl]
    BY <1>2, <1>3 DEF Setex, TypeInv, TypeOK
  <2>2. QED
    BY <1>1, <2>1 DEF LeftRightly, TakenRightly, WatchStore
<1>4. CASE RedisMayFail /\ UNCHANGED redis
  BY <1>1, <1>4 DEF LeftRightly, TakenRightly, WatchStore
<1>5. QED
  BY <1>1, <1>3, <1>4

\* The clock takes nothing out of memory: what expires stays until it is taken.
LEMMA TickTakesNothing ==
    ASSUME TypeInv, Tick
    PROVE  TakenRightly /\ LeftRightly
<1>1. ASSUME NEW k \in Keys, container[k] # Absent PROVE container'[k] # Absent
  <2>1. CASE Live(k)
    <3>1. container[k] \in StoredValue /\ container[k].left # 0
      BY <1>1, <2>1 DEF Live, TypeInv, TypeOK
    <3>2. [container[k] EXCEPT !.left = @ - 1] \in StoredValue
      BY <3>1, OlderRecord
    <3>3. QED
      BY <2>1, <3>2, Records DEF Tick
  <2>2. CASE ~Live(k)
    BY <1>1, <2>2 DEF Tick
  <2>3. QED
    BY <2>1, <2>2
<1>2. QED
  BY <1>1 DEF TakenRightly, LeftRightly, Tick, watchVars

LEMMA SweepKeepsNext ==
    ASSUME TypeInv, [Next]_vars, ~Restart
    PROVE  TakenRightly /\ LeftRightly
<1>1. ASSUME NEW t \in Threads, BeginCall(t) PROVE TakenRightly /\ LeftRightly
  BY <1>1 DEF BeginCall, BeginRead, BeginSet, BeginSetWithTtl, BeginRemove, Begin, watchVars,
              TakenRightly, LeftRightly
<1>2. ASSUME NEW t \in Threads, ThreadStep(t) PROVE TakenRightly /\ LeftRightly
  <2>1. UNCHANGED to_store
    BY <1>2 DEF ThreadStep, ReadSync, ReadAsync, Remove, GetRedis, Fill, SetSync, SetRedis,
                RemoveRedis, watchVars
  <2>2. QED
    BY <1>2, <2>1, ThreadTakesRightly DEF LeftRightly
<1>3. CASE WatchTick \/ UNCHANGED vars
  BY <1>3 DEF WatchTick, vars, TakenRightly, LeftRightly
<1>4. QED
  BY <1>1, <1>2, <1>3, SweepTakesRightly, StoreLeavesRightly, TickTakesNothing DEF Next, WatchStep

\* Whatever the calls, the clock and Redis do, the watch task never takes a live
\* entry out of memory and never lets go of a pair it has not tried to store.
THEOREM SweepsKeepValues == Spec => SweepKeepsValues
<1>1. TypeInv /\ [Next]_vars =>
        [(watch_pc # "waiting" /\ ~Restart) => TakenRightly /\ LeftRightly]_vars
  BY SweepKeepsNext
<1>2. QED
  BY <1>1, TypeInvariant, PTL DEF Spec, SweepKeepsValues, TakenRightly, LeftRightly
=============================================================================
