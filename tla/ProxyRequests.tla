---------------------------- MODULE ProxyRequests ----------------------------
(***************************************************************************)
(* The life of HTTP requests in the proxy service: request_filter with its *)
(* chain of modules, upstream_peer, response_filter and logging            *)
(* (proxy/service_request_filter.rs, proxy/service.rs, and the pingora     *)
(* wrapper in ksbh-bin/src/proxy/mod.rs), ModuleHost::call_module, the     *)
(* channel to the metrics service and its consumer.                        *)
(*                                                                         *)
(* A request is a task of the proxy runtime.  It steps only while it has   *)
(* one of the NumWorkers worker threads, and gives the thread up where the *)
(* code awaits: the client's next bytes, the write of a response, the      *)
(* upstream, a place in the channel.  Waiting for the bucket of the module *)
(* map is not an await: it blocks the thread.                              *)
(*                                                                         *)
(* The store of sessions and scores appears by what SessionStore shows of  *)
(* it: a call may never return, since a read of an expired value waits for *)
(* itself and every later call for the bucket waits for that read          *)
(* (redis_hashmap.rs 78-88).                                               *)
(***************************************************************************)
EXTENDS Integers, Sequences, FiniteSets

CONSTANTS
    Requests,       \* the requests of the instance
    NumWorkers,     \* config.threads
    Modules,        \* module types
    Loaded,         \* those ModuleHost has loaded from a library
    Stateful,       \* those that read the sessions or the scores of the store
    NumBuckets,     \* the buckets of ModuleHost::modules are 1..NumBuckets
    BucketOf,       \* the bucket of a module type
    Chain,          \* req_match.modules: the modules of the route of a request
    Backend,        \* req_match.backend of the route of a request
    Capacity,       \* of the channel to the metrics service
    WritesMayFail,  \* TRUE if the client may be gone when a response is written
    Nobody          \* the owner of a bucket that is free

Buckets == 1..NumBuckets
Decisions == {"400", "404", "500"}    \* ProxyDecision::StopProcessing

ASSUME ProxyRequestsAssumption ==
    /\ IsFiniteSet(Requests)
    /\ NumWorkers \in Nat \ {0}
    /\ NumBuckets \in Nat \ {0}
    /\ Loaded \subseteq Modules
    /\ Stateful \subseteq Modules
    /\ BucketOf \in [Modules -> Buckets]
    /\ Chain \in [Requests -> Seq(Modules)]
    /\ Backend \in [Requests -> {"service", "static", "500"}]
    /\ Capacity \in Nat \ {0}
    /\ WritesMayFail \in BOOLEAN
    /\ Nobody \notin Requests

VARIABLES
    pc,               \* where a request stands
    running,          \* the requests that occupy a worker thread
    step,             \* the index in its chain of the module a request is at
    module_lock,      \* the request that holds the OccupiedEntry in bucket b, or Nobody
    modules_metrics,  \* ctx.modules_metrics: for each module called, whether it replied
    valid,            \* whether ctx.valid_request_information is there
    decision,         \* the StopProcessing that request_filter returned, or "none"
    peer,             \* where upstream_peer sends the request, or "none"
    written,          \* session.response_written(): by a "module", from "upstream", or "no"
    channel,          \* the RequestMetrics on their way to the metrics service
    recorded,         \* the requests log_request has counted
    metrics_service   \* "recv", or "wedged" in a log_request that does not return

vars == <<pc, running, step, module_lock, modules_metrics, valid, decision, peer,
          written, channel, recorded, metrics_service>>
answerVars == <<valid, decision, peer, written>>
metricVars == <<channel, recorded, metrics_service>>

TypeOK ==
    /\ pc \in [Requests -> {"new", "chain", "filter", "wedged", "writing", "upstream", "log",
                           "send", "done"}]
    /\ running \in SUBSET Requests
    /\ Cardinality(running) <= NumWorkers
    /\ step \in [Requests -> Nat \ {0}]
    /\ module_lock \in [Buckets -> Requests \cup {Nobody}]
    /\ modules_metrics \in [Requests -> Seq(BOOLEAN)]
    /\ valid \in [Requests -> BOOLEAN]
    /\ decision \in [Requests -> Decisions \cup {"none"}]
    /\ peer \in [Requests -> {"none", "service", "static", "404", "500"}]
    /\ written \in [Requests -> {"no", "module", "upstream"}]
    /\ channel \in Seq(Requests)
    /\ Len(channel) <= Capacity
    /\ recorded \in SUBSET Requests
    /\ metrics_service \in {"recv", "wedged"}

Init ==
    /\ pc = [r \in Requests |-> "new"]
    /\ running = {}
    /\ step = [r \in Requests |-> 1]
    /\ module_lock = [b \in Buckets |-> Nobody]
    /\ modules_metrics = [r \in Requests |-> <<>>]
    /\ valid = [r \in Requests |-> FALSE]
    /\ decision = [r \in Requests |-> "none"]
    /\ peer = [r \in Requests |-> "none"]
    /\ written = [r \in Requests |-> "no"]
    /\ channel = <<>>
    /\ recorded = {}
    /\ metrics_service = "recv"

-----------------------------------------------------------------------------
(* Helpers.                                                                *)

Bucket(r) == BucketOf[Chain[r][step[r]]]
Release(r) == module_lock' = [module_lock EXCEPT ![Bucket(r)] = Nobody]
Goto(r, at) == pc' = [pc EXCEPT ![r] = at]
Suspend(r) == running' = running \ {r}

\* The module of this step has not replied: modules_metrics notes it and the
\* loop goes on, whether the module passed, failed or could not be found.
NextModule(r) ==
    /\ modules_metrics' = [modules_metrics EXCEPT ![r] = Append(@, FALSE)]
    /\ step' = [step EXCEPT ![r] = @ + 1]
    /\ Goto(r, "chain")

AtMost(n) == Len(channel) <= n
HasRoomForOneMore == AtMost(Capacity)   \* mutant: one place too many
HasRoom == Len(channel) < Capacity

-----------------------------------------------------------------------------
(* Scheduling.                                                             *)

\* A free worker takes up a task that awaits nothing, or whose await is over.
Schedule(r) ==
    /\ r \notin running
    /\ pc[r] \notin {"send", "done"}
    /\ Cardinality(running) < NumWorkers
    /\ running' = running \cup {r}
    /\ UNCHANGED <<pc, step, module_lock, modules_metrics, answerVars, metricVars>>

-----------------------------------------------------------------------------
(* request_filter.                                                         *)

\* The client has no address, the request does not parse, no route matches or
\* the body cannot be read.  The wrapper only looks for ModuleReplied, and
\* ctx.proxy_decision is never set: upstream_peer finds no valid request.
Reject(r) ==
    /\ r \in running
    /\ pc[r] = "new"
    /\ \E d \in Decisions : decision' = [decision EXCEPT ![r] = d]
    /\ peer' = [peer EXCEPT ![r] = "404"]
    /\ Goto(r, "upstream")
    /\ Suspend(r)
    /\ UNCHANGED <<step, module_lock, modules_metrics, valid, written, metricVars>>

\* find_route has a match and the chain begins.
Route(r) ==
    /\ r \in running
    /\ pc[r] = "new"
    /\ valid' = [valid EXCEPT ![r] = TRUE]
    /\ Goto(r, "chain")
    /\ UNCHANGED <<running, step, module_lock, modules_metrics, decision, peer, written, metricVars>>

\* call_module: get_sync locks the bucket of the module type, and the entry is
\* kept until the call returns.  A type that is not loaded is ModuleNotFound.
SharedLookup(r) ==                      \* mutant: the entry is only read, not owned
    /\ r \in running
    /\ pc[r] = "chain"
    /\ step[r] <= Len(Chain[r])
    /\ module_lock' = [module_lock EXCEPT ![Bucket(r)] = r]
    /\ Goto(r, "filter")
    /\ UNCHANGED <<running, step, modules_metrics, answerVars, metricVars>>

GetModule(r) ==
    /\ r \in running
    /\ pc[r] = "chain"
    /\ step[r] <= Len(Chain[r])
    /\ module_lock[Bucket(r)] = Nobody
    /\ IF Chain[r][step[r]] \in Loaded
         THEN /\ module_lock' = [module_lock EXCEPT ![Bucket(r)] = r]
              /\ Goto(r, "filter")
              /\ UNCHANGED <<step, modules_metrics>>
         ELSE /\ NextModule(r)
              /\ UNCHANGED module_lock
    /\ UNCHANGED <<running, answerVars, metricVars>>

\* The module's request_filter, under the lock: it replies, or it passes, or its
\* reply cannot be turned into a response, which is only logged; or its call of the
\* store does not return, and it keeps the thread and the entry.
Filter(r) ==
    /\ r \in running
    /\ pc[r] = "filter"
    /\ \/ /\ Goto(r, "writing")
          /\ Suspend(r)
          /\ UNCHANGED <<step, module_lock, modules_metrics>>
       \/ /\ NextModule(r)
          /\ Release(r)
          /\ UNCHANGED running
       \/ /\ Chain[r][step[r]] \in Stateful
          /\ Goto(r, "wedged")
          /\ UNCHANGED <<running, step, module_lock, modules_metrics>>
    /\ UNCHANGED <<answerVars, metricVars>>

\* write_response completes, still under the lock.  The chain stops if the
\* session has a response; it has none if the header could not be written.
WriteResponseAndGoOn(r) ==              \* mutant: the chain does not stop
    /\ r \in running
    /\ pc[r] = "writing"
    /\ Release(r)
    /\ written' = [written EXCEPT ![r] = "module"]
    /\ NextModule(r)
    /\ UNCHANGED <<running, valid, decision, peer, metricVars>>

WriteResponseKeepsLock(r) ==            \* mutant: a failed write leaks the entry
    /\ r \in running
    /\ pc[r] = "writing"
    /\ NextModule(r)
    /\ UNCHANGED <<running, module_lock, answerVars, metricVars>>

WriteResponse(r) ==
    /\ r \in running
    /\ pc[r] = "writing"
    /\ Release(r)
    /\ \/ /\ written' = [written EXCEPT ![r] = "module"]
          /\ modules_metrics' = [modules_metrics EXCEPT ![r] = Append(@, TRUE)]
          /\ Goto(r, "log")
          /\ UNCHANGED step
       \/ /\ WritesMayFail
          /\ NextModule(r)
          /\ UNCHANGED written
    /\ UNCHANGED <<running, valid, decision, peer, metricVars>>

\* No module replied: ContinueProcessing, and upstream_peer picks the backend.
ChainEnds(r) ==
    /\ r \in running
    /\ pc[r] = "chain"
    /\ step[r] > Len(Chain[r])
    /\ peer' = [peer EXCEPT ![r] = Backend[r]]
    /\ Goto(r, "upstream")
    /\ Suspend(r)
    /\ UNCHANGED <<step, module_lock, modules_metrics, valid, decision, written, metricVars>>

\* The upstream's response, or pingora's error page, goes to the client.
Respond(r) ==
    /\ r \in running
    /\ pc[r] = "upstream"
    /\ \/ written' = [written EXCEPT ![r] = "upstream"]
       \/ WritesMayFail /\ UNCHANGED written
    /\ Goto(r, "log")
    /\ UNCHANGED <<running, step, module_lock, modules_metrics, valid, decision, peer, metricVars>>

-----------------------------------------------------------------------------
(* logging and the metrics service.                                        *)

\* A routed request that was answered is sent to the metrics service; send
\* awaits a place when the channel is full.
TryLog(r) ==                            \* mutant: try_send instead of send
    /\ r \in running
    /\ pc[r] = "log"
    /\ channel' = IF valid[r] /\ written[r] # "no" /\ HasRoom THEN Append(channel, r) ELSE channel
    /\ Goto(r, "done")
    /\ Suspend(r)
    /\ UNCHANGED <<step, module_lock, modules_metrics, answerVars, recorded, metrics_service>>

Log(r) ==
    /\ r \in running
    /\ pc[r] = "log"
    /\ IF valid[r] /\ written[r] # "no"
         THEN \/ /\ HasRoom
                 /\ channel' = Append(channel, r)
                 /\ Goto(r, "done")
              \/ /\ ~HasRoom
                 /\ Goto(r, "send")
                 /\ UNCHANGED channel
         ELSE Goto(r, "done") /\ UNCHANGED channel
    /\ Suspend(r)
    /\ UNCHANGED <<step, module_lock, modules_metrics, answerVars, recorded, metrics_service>>

\* The channel has room again for a task that waits for it.
Send(r) ==
    /\ pc[r] = "send"
    /\ HasRoom
    /\ Cardinality(running) < NumWorkers
    /\ channel' = Append(channel, r)
    /\ Goto(r, "done")
    /\ UNCHANGED <<running, step, module_lock, modules_metrics, answerVars, recorded, metrics_service>>

\* The task of MetricsService, on a thread of its own: recv and log_request, whose
\* read of the score may not return.
LogRequest ==
    /\ metrics_service = "recv"
    /\ channel # <<>>
    /\ channel' = Tail(channel)
    /\ \/ recorded' = recorded \cup {Head(channel)} /\ UNCHANGED metrics_service
       \/ metrics_service' = "wedged" /\ UNCHANGED recorded
    /\ UNCHANGED <<pc, running, step, module_lock, modules_metrics, answerVars>>

-----------------------------------------------------------------------------

RequestStep(r) ==
    \/ Reject(r) \/ Route(r) \/ GetModule(r) \/ Filter(r) \/ WriteResponse(r)
    \/ ChainEnds(r) \/ Respond(r) \/ Log(r) \/ Send(r)

Next ==
    \/ \E r \in Requests : Schedule(r) \/ RequestStep(r)
    \/ LogRequest

Spec == Init /\ [][Next]_vars

\* The runtime polls tasks as long as it has a free worker, threads run, clients and
\* upstreams answer or disconnect, and modules and log_request return or are wedged
\* in the store.
Fairness ==
    /\ \A r \in Requests : WF_vars(Schedule(r)) /\ WF_vars(RequestStep(r))
    /\ WF_vars(LogRequest)

FairSpec == Spec /\ Fairness

-----------------------------------------------------------------------------
(* Properties.                                                             *)

\* A module's filter, and the write of the response it asked for, exclude every
\* other call to a module of the same bucket: the entry is owned from get_sync
\* to the return of call_module, across the await (module_host.rs 96-173), and for
\* ever by a call that does not return.
Called == {"filter", "wedged", "writing"}
LockInv ==
    /\ \A r \in Requests : pc[r] \in Called =>
         /\ step[r] \in 1..Len(Chain[r])
         /\ module_lock[Bucket(r)] = r
    /\ \A b \in Buckets : module_lock[b] # Nobody =>
         /\ pc[module_lock[b]] \in Called
         /\ Bucket(module_lock[b]) = b

\* A request reaches its backend only when each module of its chain was called
\* and none has answered; a module's answer is the last thing its chain does; and
\* a request that was stopped before its chain never reaches the backend.
ChainRespected ==
    \A r \in Requests :
       LET calls == modules_metrics[r] IN
       /\ Len(calls) = step[r] - 1 \/ (written[r] = "module" /\ Len(calls) = step[r])
       /\ \A i \in 1..Len(calls) : calls[i] => i = Len(calls) /\ written[r] = "module"
       /\ written[r] = "module" => Len(calls) > 0 /\ calls[Len(calls)] /\ peer[r] = "none"
       /\ decision[r] # "none" => calls = <<>> /\ peer[r] \in {"none", "404"}
       /\ (peer[r] # "none" /\ decision[r] = "none") => Len(calls) = Len(Chain[r]) /\ peer[r] = Backend[r]

-----------------------------------------------------------------------------
(* How the proxy can come to a halt.                                       *)

Owner(r) == module_lock[Bucket(r)]

\* r is in get_sync, and another request has the entry.
Waits(r) ==
    /\ pc[r] = "chain"
    /\ step[r] <= Len(Chain[r])
    /\ Owner(r) # Nobody

\* Every worker is in a call that does not return, or waits in get_sync for such a
\* call or for an owner that has no worker left to finish its write: the deadlock of
\* holding an entry across an await.
Exhausted ==
    /\ Cardinality(running) = NumWorkers
    /\ \A r \in running : pc[r] = "wedged" \/ (Waits(r) /\ (Owner(r) \notin running \/ pc[Owner(r)] = "wedged"))

\* What can keep a request from its end.
Halted(r) ==
    \/ pc[r] = "wedged"
    \/ Waits(r) /\ pc[Owner(r)] = "wedged"
    \/ pc[r] = "send" /\ ~HasRoom /\ metrics_service = "wedged"
    \/ Exhausted

\* A request that is halted stays so: no step of another request, of the scheduler or
\* of the metrics service frees it.  The proxy has no timeout and no recovery here.
HaltIsPermanent == [][\A r \in Requests : Halted(r) => Halted(r)']_vars

\* The guards of a request's steps: it has a thread and does not wait, or a free
\* worker can take it up.
Able(r) ==
    \/ r \in running /\ pc[r] \in {"new", "filter", "writing", "upstream", "log"}
    \/ r \in running /\ pc[r] = "chain" /\ ~Waits(r)
    \/ /\ Cardinality(running) < NumWorkers
       /\ \/ r \notin running /\ pc[r] \notin {"send", "done"}
          \/ pc[r] = "send" /\ HasRoom

\* When nothing can move, every request that is not finished is halted in one of
\* those ways: a leaked entry, a missed wakeup or a lost place would leave one that
\* waits for nothing.
OnlyHalts ==
    (metrics_service = "wedged" \/ channel = <<>>) /\ (\A r \in Requests : ~Able(r))
      => \A r \in Requests : pc[r] = "done" \/ Halted(r)

\* Unless a call is wedged in the store, the workers are exhausted only by more
\* requests at a time than there are workers.
InFlight == running \cup {r \in Requests : pc[r] \notin {"new", "done"}}
ExhaustedByMore ==
    Exhausted => (\E r \in running : pc[r] = "wedged") \/ Cardinality(InFlight) > NumWorkers

\* Every request is finished or halted in the end.
FinishesUnlessHalted == \A r \in Requests : <>(pc[r] = "done" \/ Halted(r))

\* The score of a session counts every answer to a routed request, also when the
\* channel was full, unless the workers or the metrics service come to a halt.
AnswersAreRecorded ==
    \A r \in Requests :
       (valid[r] /\ written[r] # "no") ~> (r \in recorded \/ Exhausted \/ metrics_service = "wedged")

=============================================================================
