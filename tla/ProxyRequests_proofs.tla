------------------------ MODULE ProxyRequests_proofs ------------------------
(***************************************************************************)
(* Theorems about ProxyRequests, for all requests, workers, modules,       *)
(* buckets, chains and capacities.                                         *)
(***************************************************************************)
EXTENDS ProxyRequests, FiniteSetTheorems, TLAPS

USE ProxyRequestsAssumption DEF Called

-----------------------------------------------------------------------------
(* Types.                                                                  *)

\* Threads are only ever taken one by one while one is free.
LEMMA RunningStep ==
    ASSUME running \in SUBSET Requests, Cardinality(running) <= NumWorkers, NEW r \in Requests,
           \/ UNCHANGED running
           \/ Suspend(r)
           \/ Cardinality(running) < NumWorkers /\ running' = running \cup {r}
    PROVE  running' \in SUBSET Requests /\ Cardinality(running') <= NumWorkers
<1>1. IsFiniteSet(running) /\ Cardinality(running) \in Nat
  BY FS_Subset, FS_CardinalityType
<1>2. CASE UNCHANGED running
  BY <1>2
<1>3. CASE Suspend(r)
  <2>1. Cardinality(running \ {r}) <= Cardinality(running) /\ Cardinality(running \ {r}) \in Nat
    BY <1>1, FS_Subset, FS_CardinalityType
  <2>2. QED
    BY <1>1, <1>3, <2>1 DEF Suspend
<1>4. CASE Cardinality(running) < NumWorkers /\ running' = running \cup {r}
  <2>1. Cardinality(running \cup {r}) \in {Cardinality(running), Cardinality(running) + 1}
    BY <1>1, FS_AddElement
  <2>2. QED
    BY <1>1, <1>4, <2>1
<1>5. QED
  BY <1>2, <1>3, <1>4

LEMMA InitType == Init => TypeOK
  BY FS_EmptySet DEF Init, TypeOK, Buckets

\* Every step of a request either leaves its thread alone or takes or leaves one.
LEMMA RequestRunning ==
    ASSUME TypeOK, NEW r \in Requests, Schedule(r) \/ RequestStep(r)
    PROVE  running' \in SUBSET Requests /\ Cardinality(running') <= NumWorkers
<1>1. \/ UNCHANGED running
      \/ Suspend(r)
      \/ Cardinality(running) < NumWorkers /\ running' = running \cup {r}
  BY DEF Schedule, RequestStep, Reject, Route, GetModule, Filter, WriteResponse, ChainEnds,
         Respond, Log, Send
<1>2. QED
  BY <1>1, RunningStep DEF TypeOK

\* Going on in the chain.
LEMMA NextModuleType ==
    ASSUME TypeOK, NEW r \in Requests, NextModule(r)
    PROVE  /\ modules_metrics' \in [Requests -> Seq(BOOLEAN)]
           /\ step' \in [Requests -> Nat \ {0}]
           /\ pc' = [pc EXCEPT ![r] = "chain"]
<1>1. Append(modules_metrics[r], FALSE) \in Seq(BOOLEAN)
  BY DEF TypeOK
<1>2. QED
  BY <1>1 DEF NextModule, Goto, TypeOK

\* The bucket of a module in the chain is a bucket.
LEMMA BucketType ==
    ASSUME NEW r \in Requests, step[r] \in 1..Len(Chain[r]) PROVE Bucket(r) \in Buckets
<1>1. Chain[r] \in Seq(Modules)
  OBVIOUS
<1>2. Chain[r][step[r]] \in Modules
  BY <1>1
<1>3. QED
  BY <1>2 DEF Bucket

LEMMA RequestType ==
    ASSUME TypeOK, NEW r \in Requests, Schedule(r) \/ RequestStep(r)
    PROVE  TypeOK'
<1> USE DEF TypeOK
<1>0. running' \in SUBSET Requests /\ Cardinality(running') <= NumWorkers
  BY RequestRunning
<1>1. CASE Schedule(r)
  BY <1>0, <1>1 DEF Schedule, answerVars, metricVars
<1>2. CASE Reject(r) \/ Route(r) \/ ChainEnds(r) \/ Respond(r)
  <2>1. CASE Reject(r)
    BY <1>0, <2>1 DEF Reject, Goto, metricVars
  <2>2. CASE Route(r)
    BY <1>0, <2>2 DEF Route, Goto, metricVars
  <2>3. CASE ChainEnds(r)
    BY <1>0, <2>3 DEF ChainEnds, Goto, metricVars
  <2>4. CASE Respond(r)
    BY <1>0, <2>4 DEF Respond, Goto, metricVars
  <2>5. QED
    BY <1>2, <2>1, <2>2, <2>3, <2>4
<1>3. CASE GetModule(r)
  <2>1. CASE Chain[r][step[r]] \in Loaded
    <3>1. module_lock' \in [Buckets -> Requests \cup {Nobody}]
      <4>1. module_lock' = [module_lock EXCEPT ![Bucket(r)] = r]
        BY <1>3, <2>1 DEF GetModule
      <4>2. QED
        BY <4>1
    <3>2. pc' = [pc EXCEPT ![r] = "filter"] /\ UNCHANGED <<step, modules_metrics>>
      BY <1>3, <2>1 DEF GetModule, Goto
    <3>3. QED
      BY <1>0, <1>3, <3>1, <3>2 DEF GetModule, answerVars, metricVars
  <2>2. CASE Chain[r][step[r]] \notin Loaded
    BY <1>0, <1>3, <2>2, NextModuleType DEF GetModule, answerVars, metricVars
  <2>3. QED
    BY <2>1, <2>2
<1>4. CASE Filter(r)
  <2>1. CASE Goto(r, "writing") /\ UNCHANGED <<step, module_lock, modules_metrics>>
    BY <1>0, <1>4, <2>1 DEF Filter, Goto, answerVars, metricVars
  <2>2. CASE NextModule(r) /\ Release(r)
    BY <1>0, <1>4, <2>2, NextModuleType DEF Filter, Release, answerVars, metricVars
  <2>3. CASE Goto(r, "wedged") /\ UNCHANGED <<step, module_lock, modules_metrics>>
    BY <1>0, <1>4, <2>3 DEF Filter, Goto, answerVars, metricVars
  <2>4. QED
    BY <1>4, <2>1, <2>2, <2>3 DEF Filter
<1>5. CASE WriteResponse(r)
  <2>1. module_lock' \in [Buckets -> Requests \cup {Nobody}]
    BY <1>5 DEF WriteResponse, Release
  <2>2. CASE NextModule(r) /\ UNCHANGED written
    BY <1>0, <1>5, <2>1, <2>2, NextModuleType DEF WriteResponse, metricVars
  <2>3. CASE /\ written' = [written EXCEPT ![r] = "module"]
             /\ modules_metrics' = [modules_metrics EXCEPT ![r] = Append(@, TRUE)]
             /\ Goto(r, "log") /\ UNCHANGED step
    <3>1. Append(modules_metrics[r], TRUE) \in Seq(BOOLEAN)
      OBVIOUS
    <3>2. modules_metrics' \in [Requests -> Seq(BOOLEAN)]
      BY <2>3, <3>1
    <3>3. QED
      BY <1>0, <1>5, <2>1, <2>3, <3>2 DEF WriteResponse, Goto, metricVars
  <2>4. QED
    BY <1>5, <2>2, <2>3 DEF WriteResponse
<1>6. CASE Log(r) \/ Send(r)
  <2>1. channel' = channel \/ (HasRoom /\ channel' = Append(channel, r))
    BY <1>6 DEF Log, Send
  <2>2. channel' \in Seq(Requests) /\ Len(channel') <= Capacity
    <3>1. CASE channel' = channel
      BY <3>1
    <3>2. CASE HasRoom /\ channel' = Append(channel, r)
      BY <3>2 DEF HasRoom
    <3>3. QED
      BY <2>1, <3>1, <3>2
  <2>3. QED
    BY <1>0, <1>6, <2>2 DEF Log, Send, Goto, answerVars
<1>7. QED
  BY <1>1, <1>2, <1>3, <1>4, <1>5, <1>6 DEF RequestStep

LEMMA StepType == ASSUME TypeOK, [Next]_vars PROVE TypeOK'
<1>1. CASE UNCHANGED vars
  BY <1>1 DEF vars, answerVars, metricVars, TypeOK
<1>2. CASE LogRequest
  <2>1. /\ Head(channel) \in Requests
        /\ Tail(channel) \in Seq(Requests)
        /\ Len(Tail(channel)) <= Capacity
    BY <1>2 DEF LogRequest, TypeOK
  <2>2. QED
    BY <1>2, <2>1 DEF LogRequest, answerVars, TypeOK
<1>3. QED
  BY <1>1, <1>2, RequestType DEF Next

\* Every variable keeps its type: no more tasks run than there are threads, and
\* the channel never holds more than its capacity.
THEOREM TypeCorrect == Spec => []TypeOK
<1>1. QED
  BY InitType, StepType, PTL DEF Spec

-----------------------------------------------------------------------------
(* The entries of the modules.                                             *)

\* Where a call stands to its bucket before and after a step of another request.
LEMMA OthersKeep ==
    ASSUME TypeOK, NEW r \in Requests, Schedule(r) \/ RequestStep(r), NEW q \in Requests, q # r
    PROVE  /\ pc'[q] = pc[q] /\ step'[q] = step[q] /\ modules_metrics'[q] = modules_metrics[q]
           /\ valid'[q] = valid[q] /\ decision'[q] = decision[q]
           /\ peer'[q] = peer[q] /\ written'[q] = written[q]
<1> USE DEF TypeOK
<1>1. CASE Schedule(r)
  BY <1>1 DEF Schedule, answerVars
<1>2. CASE Reject(r) \/ Route(r) \/ ChainEnds(r) \/ Respond(r)
  BY <1>2 DEF Reject, Route, ChainEnds, Respond, Goto
<1>3. CASE GetModule(r) \/ Filter(r)
  BY <1>3 DEF GetModule, Filter, NextModule, Goto, answerVars
<1>4. CASE WriteResponse(r)
  BY <1>4 DEF WriteResponse, NextModule, Goto
<1>5. CASE Log(r) \/ Send(r)
  BY <1>5 DEF Log, Send, Goto, answerVars
<1>6. QED
  BY <1>1, <1>2, <1>3, <1>4, <1>5 DEF RequestStep

\* What a step of a request does to the locks: it takes its own, gives it back, or
\* leaves all as they are and does not enter or leave a call.
LEMMA LockStep ==
    ASSUME TypeOK, NEW r \in Requests, Schedule(r) \/ RequestStep(r)
    PROVE  \/ /\ pc[r] = "chain" /\ pc'[r] = "filter" /\ step'[r] = step[r]
              /\ step[r] \in 1..Len(Chain[r])
              /\ module_lock[Bucket(r)] = Nobody
              /\ module_lock' = [module_lock EXCEPT ![Bucket(r)] = r]
           \/ /\ pc[r] \in Called /\ pc'[r] \notin Called
              /\ module_lock' = [module_lock EXCEPT ![Bucket(r)] = Nobody]
           \/ /\ UNCHANGED module_lock
              /\ pc'[r] \in Called <=> pc[r] \in Called
              /\ pc[r] \in Called => step'[r] = step[r]
<1> USE DEF TypeOK
<1>1. CASE Schedule(r)
  BY <1>1 DEF Schedule
<1>2. CASE Reject(r) \/ Route(r) \/ ChainEnds(r) \/ Respond(r)
  BY <1>2 DEF Reject, Route, ChainEnds, Respond, Goto
<1>3. CASE GetModule(r)
  <2>1. step[r] \in 1..Len(Chain[r])
    <3>1. Chain[r] \in Seq(Modules)
      OBVIOUS
    <3>2. Len(Chain[r]) \in Nat
      BY <3>1
    <3>3. QED
      BY <1>3, <3>2 DEF GetModule
  <2>2. CASE Chain[r][step[r]] \in Loaded
    BY <1>3, <2>1, <2>2 DEF GetModule, Goto
  <2>3. CASE Chain[r][step[r]] \notin Loaded
    BY <1>3, <2>3 DEF GetModule, NextModule, Goto
  <2>4. QED
    BY <2>2, <2>3
<1>4. CASE Filter(r)
  BY <1>4 DEF Filter, NextModule, Goto, Release
<1>5. CASE WriteResponse(r)
  BY <1>5 DEF WriteResponse, NextModule, Goto, Release
<1>6. CASE Log(r) \/ Send(r)
  BY <1>6 DEF Log, Send, Goto
<1>7. QED
  BY <1>1, <1>2, <1>3, <1>4, <1>5, <1>6 DEF RequestStep


LEMMA LockStepInv ==
    ASSUME TypeOK, LockInv, NEW r \in Requests, Schedule(r) \/ RequestStep(r)
    PROVE  LockInv'
<1> DEFINE In(q) == pc[q] \in Called
           InNext(q) == pc'[q] \in Called
           At(q) == BucketOf[Chain[q][step[q]]]
           AtNext(q) == BucketOf[Chain[q][step'[q]]]
<1>1. \A q \in Requests : q # r => /\ InNext(q) <=> In(q)
                                   /\ step'[q] = step[q] /\ AtNext(q) = At(q)
  BY OthersKeep
<1>2. /\ \A q \in Requests : In(q) => /\ step[q] \in 1..Len(Chain[q])
                                      /\ module_lock[At(q)] = q
      /\ \A b \in Buckets : module_lock[b] # Nobody => /\ In(module_lock[b])
                                                       /\ At(module_lock[b]) = b
  BY DEF LockInv, Bucket
<1>3. module_lock \in [Buckets -> Requests \cup {Nobody}]
  BY DEF TypeOK
<1>4. \A q \in Requests : In(q) => At(q) \in Buckets
  BY <1>2, BucketType DEF Bucket
<1> SUFFICES /\ \A q \in Requests : InNext(q) => /\ step'[q] \in 1..Len(Chain[q])
                                                 /\ module_lock'[AtNext(q)] = q
             /\ \A b \in Buckets : module_lock'[b] # Nobody => /\ InNext(module_lock'[b])
                                                               /\ AtNext(module_lock'[b]) = b
  BY DEF LockInv, Bucket
<1>5. CASE /\ pc[r] = "chain" /\ pc'[r] = "filter" /\ step'[r] = step[r]
           /\ step[r] \in 1..Len(Chain[r])
           /\ module_lock[Bucket(r)] = Nobody
           /\ module_lock' = [module_lock EXCEPT ![Bucket(r)] = r]
  <2>1. At(r) \in Buckets /\ AtNext(r) = At(r) /\ Bucket(r) = At(r) /\ ~In(r) /\ InNext(r)
    BY <1>5, BucketType DEF Bucket
  <2> HIDE DEF In, InNext, At, AtNext
  <2>2. \A b \in Buckets : module_lock'[b] = IF b = At(r) THEN r ELSE module_lock[b]
    BY <1>3, <1>5, <2>1
  <2>3. \A q \in Requests : In(q) => At(q) # At(r)
    BY <1>2, <1>5, <2>1
  <2>4. ASSUME NEW q \in Requests, InNext(q)
        PROVE  step'[q] \in 1..Len(Chain[q]) /\ module_lock'[AtNext(q)] = q
    <3>1. CASE q = r
      BY <1>5, <2>1, <2>2, <3>1
    <3>2. CASE q # r
      <4>1. In(q) /\ step'[q] = step[q] /\ AtNext(q) = At(q)
        BY <1>1, <2>4, <3>2
      <4>2. QED
        BY <1>2, <1>4, <2>2, <2>3, <4>1
    <3>3. QED
      BY <3>1, <3>2
  <2>5. ASSUME NEW b \in Buckets, module_lock'[b] # Nobody
        PROVE  InNext(module_lock'[b]) /\ AtNext(module_lock'[b]) = b
    <3>1. CASE b = At(r)
      BY <2>1, <2>2, <3>1
    <3>2. CASE b # At(r)
      <4>1. module_lock'[b] = module_lock[b] /\ module_lock[b] \in Requests
        BY <1>3, <2>2, <2>5, <3>2
      <4>2. In(module_lock[b]) /\ module_lock[b] # r
        BY <1>2, <2>1, <2>5, <4>1
      <4>3. QED
        BY <1>1, <1>2, <2>5, <4>1, <4>2
    <3>3. QED
      BY <3>1, <3>2
  <2>6. QED
    BY <2>4, <2>5
<1>6. CASE /\ In(r) /\ ~InNext(r)
           /\ module_lock' = [module_lock EXCEPT ![Bucket(r)] = Nobody]
  <2>1. Bucket(r) = At(r)
    BY DEF Bucket
  <2> HIDE DEF In, InNext, At, AtNext
  <2>2. QED
    BY <1>1, <1>2, <1>3, <1>4, <1>6, <2>1
<1>7. CASE UNCHANGED module_lock /\ (InNext(r) <=> In(r)) /\ (In(r) => step'[r] = step[r])
  <2>1. In(r) => AtNext(r) = At(r)
    BY <1>7
  <2> HIDE DEF In, InNext, At, AtNext
  <2>2. QED
    BY <1>1, <1>2, <1>3, <1>4, <1>7, <2>1
<1>8. QED
  BY <1>5, <1>6, <1>7, LockStep

\* From get_sync to the return of call_module, across the await of the write, the
\* entry of a module belongs to one request, and to nobody otherwise.
THEOREM EntryIsOwned == Spec => []LockInv
<1>1. Init => TypeOK /\ LockInv
  BY InitType DEF Init, LockInv
<1>2. ASSUME TypeOK, LockInv, [Next]_vars PROVE LockInv'
  <2>1. CASE UNCHANGED <<pc, step, module_lock>>
    BY <1>2, <2>1 DEF LockInv, Bucket
  <2>2. QED
    BY <1>2, <2>1, LockStepInv DEF Next, vars, LogRequest
<1>3. (TypeOK /\ LockInv) /\ [Next]_vars => (TypeOK /\ LockInv)'
  BY <1>2, StepType
<1>4. QED
  BY <1>1, <1>3, PTL DEF Spec

-----------------------------------------------------------------------------
(* How the proxy can come to a halt.                                       *)

\* A request in a call that does not return, or in get_sync for an entry that
\* another has, makes no step of its own.
LEMMA StandsStill ==
    ASSUME TypeOK, NEW r \in Requests, pc[r] = "wedged" \/ Waits(r)
    PROVE  ~RequestStep(r)
<1>1. Chain[r] \in Seq(Modules) /\ Len(Chain[r]) \in Nat /\ step[r] \in Nat
  <2>1. Chain[r] \in Seq(Modules)
    OBVIOUS
  <2>2. QED
    BY <2>1 DEF TypeOK
<1>2. ~GetModule(r) /\ ~ChainEnds(r)
  BY <1>1 DEF GetModule, ChainEnds, Waits, Owner
<1>3. QED
  BY <1>2 DEF RequestStep, Reject, Route, Filter, WriteResponse, Respond, Log, Send, Waits

\* When the workers are exhausted no request makes a step.
LEMMA ExhaustionStops ==
    ASSUME TypeOK, Exhausted, NEW q \in Requests PROVE ~Schedule(q) /\ ~RequestStep(q)
<1>1. ~(Cardinality(running) < NumWorkers)
  BY DEF Exhausted
<1>2. RequestStep(q) => q \in running
  BY <1>1 DEF RequestStep, Reject, Route, GetModule, Filter, WriteResponse, ChainEnds, Respond, Log, Send
<1>3. q \in running => ~RequestStep(q)
  BY StandsStill DEF Exhausted
<1>4. QED
  BY <1>1, <1>2, <1>3 DEF Schedule

\* A wedged call stays where it is.
LEMMA WedgedStays ==
    ASSUME TypeOK, NEW q \in Requests, Schedule(q) \/ RequestStep(q),
           NEW r \in Requests, pc[r] = "wedged"
    PROVE  pc'[r] = "wedged"
<1>1. CASE q = r
  BY <1>1, StandsStill DEF Schedule
<1>2. CASE q # r
  BY <1>2, OthersKeep
<1>3. QED
  BY <1>1, <1>2

\* A request that waits for a wedged call goes on waiting for it.
LEMMA WaitStays ==
    ASSUME TypeOK, LockInv, NEW q \in Requests, Schedule(q) \/ RequestStep(q),
           NEW r \in Requests, Waits(r), pc[Owner(r)] = "wedged"
    PROVE  Waits(r)' /\ pc'[Owner(r)'] = "wedged"
<1>1. pc'[r] = pc[r] /\ step'[r] = step[r]
  <2>1. CASE q = r
    BY <2>1, StandsStill DEF Schedule
  <2>2. CASE q # r
    BY <2>2, OthersKeep
  <2>3. QED
    BY <2>1, <2>2
<1>2. Bucket(r)' = Bucket(r)
  BY <1>1 DEF Bucket
<1>3. Bucket(r) \in Buckets /\ Owner(r) \in Requests
  <2>1. Chain[r] \in Seq(Modules) /\ Len(Chain[r]) \in Nat
    <3>1. Chain[r] \in Seq(Modules)
      OBVIOUS
    <3>2. QED
      BY <3>1
  <2>2. step[r] \in 1..Len(Chain[r])
    BY <2>1 DEF Waits, TypeOK
  <2>3. Bucket(r) \in Buckets
    BY <2>2, BucketType
  <2>4. QED
    BY <2>3 DEF Waits, Owner, TypeOK
<1>4. pc'[Owner(r)] = "wedged"
  BY <1>3, WedgedStays
<1>5. module_lock'[Bucket(r)] = Owner(r)
  <2>1. CASE UNCHANGED module_lock
    BY <2>1 DEF Owner
  <2>2. CASE module_lock[Bucket(q)] = Nobody /\ module_lock' = [module_lock EXCEPT ![Bucket(q)] = q]
    <3>1. Bucket(q) # Bucket(r)
      BY <2>2 DEF Waits, Owner
    <3>2. QED
      BY <1>3, <2>2, <3>1 DEF Owner, TypeOK
  <2>3. CASE /\ pc[q] \in Called /\ pc'[q] \notin Called
             /\ module_lock' = [module_lock EXCEPT ![Bucket(q)] = Nobody]
    <3>1. module_lock[Bucket(q)] = q
      BY <2>3 DEF LockInv
    <3>2. q # Owner(r)
      BY <1>4, <2>3
    <3>3. Bucket(q) # Bucket(r)
      BY <3>1, <3>2 DEF Owner
    <3>4. QED
      BY <1>3, <2>3, <3>3 DEF Owner, TypeOK
  <2>4. QED
    BY <2>1, <2>2, <2>3, LockStep
<1>6. Owner(r)' = Owner(r)
  BY <1>2, <1>5 DEF Owner
<1>7. QED
  BY <1>1, <1>4, <1>6 DEF Waits

LEMMA HaltStays ==
    ASSUME TypeOK, LockInv, [Next]_vars, NEW r \in Requests, Halted(r) PROVE Halted(r)'
<1>0. ASSUME UNCHANGED <<pc, running, step, module_lock>>
      PROVE  /\ (pc[r] = "wedged" \/ (Waits(r) /\ pc[Owner(r)] = "wedged") \/ Exhausted) => Halted(r)'
             /\ pc'[r] = pc[r]
  <2>1. ASSUME NEW q \in Requests PROVE Owner(q)' = Owner(q)
    BY <1>0 DEF Owner, Bucket
  <2>2. ASSUME NEW q \in Requests, Waits(q) PROVE Waits(q)'
    BY <1>0, <2>1, <2>2 DEF Waits
  <2>3. ASSUME Exhausted PROVE Exhausted'
    <3>1. running' = running /\ running \subseteq Requests
      BY <1>0 DEF TypeOK
    <3>2. ASSUME NEW q \in running
          PROVE  pc'[q] = "wedged" \/ (Waits(q)' /\ (Owner(q)' \notin running' \/ pc'[Owner(q)'] = "wedged"))
      <4>1. q \in Requests /\ pc' = pc
        BY <1>0, <3>1
      <4>2. pc[q] = "wedged" \/ (Waits(q) /\ (Owner(q) \notin running \/ pc[Owner(q)] = "wedged"))
        BY <2>3 DEF Exhausted
      <4>3. Owner(q)' = Owner(q) /\ (Waits(q) => Waits(q)')
        BY <2>1, <2>2, <4>1
      <4>4. QED
        BY <3>1, <4>1, <4>2, <4>3
    <3>3. QED
      BY <2>3, <3>1, <3>2 DEF Exhausted
  <2>4. CASE Waits(r) /\ pc[Owner(r)] = "wedged"
    <3>1. Waits(r)' /\ pc'[Owner(r)'] = "wedged"
      BY <1>0, <2>1, <2>2, <2>4
    <3>2. QED
      BY <1>0, <3>1 DEF Halted
  <2>5. QED
    BY <1>0, <2>3, <2>4 DEF Halted
<1>1. CASE UNCHANGED vars
  <2>1. UNCHANGED <<pc, running, step, module_lock, channel, metrics_service>>
    BY <1>1 DEF vars, metricVars
  <2>2. CASE pc[r] = "send" /\ ~HasRoom /\ metrics_service = "wedged"
    BY <1>0, <2>1, <2>2 DEF Halted, HasRoom
  <2>3. QED
    BY <1>0, <2>1, <2>2 DEF Halted
<1>2. CASE LogRequest
  <2>1. UNCHANGED <<pc, running, step, module_lock>> /\ metrics_service = "recv"
    BY <1>2 DEF LogRequest
  <2>2. pc[r] = "wedged" \/ (Waits(r) /\ pc[Owner(r)] = "wedged") \/ Exhausted
    BY <2>1 DEF Halted
  <2>3. QED
    BY <1>0, <2>1, <2>2
<1>3. CASE \E q \in Requests : Schedule(q) \/ RequestStep(q)
  <2>1. PICK q \in Requests : Schedule(q) \/ RequestStep(q)
    BY <1>3
  <2>2. ~Exhausted
    BY <2>1, ExhaustionStops
  <2>3. CASE pc[r] = "wedged"
    BY <2>1, <2>3, WedgedStays DEF Halted
  <2>4. CASE Waits(r) /\ pc[Owner(r)] = "wedged"
    BY <2>1, <2>4, WaitStays DEF Halted
  <2>5. CASE pc[r] = "send" /\ ~HasRoom /\ metrics_service = "wedged"
    <3>1. UNCHANGED <<channel, metrics_service>>
      BY <2>1, <2>5 DEF Schedule, RequestStep, Reject, Route, GetModule, Filter, WriteResponse,
             ChainEnds, Respond, Log, Send, metricVars
    <3>2. pc'[r] = "send"
      <4>1. CASE q = r
        BY <2>1, <2>5, <4>1 DEF Schedule, RequestStep, Reject, Route, GetModule, Filter,
               WriteResponse, ChainEnds, Respond, Log, Send
      <4>2. CASE q # r
        BY <2>1, <2>5, <4>2, OthersKeep
      <4>3. QED
        BY <4>1, <4>2
    <3>3. QED
      BY <2>5, <3>1, <3>2 DEF Halted, HasRoom
  <2>6. QED
    BY <2>2, <2>3, <2>4, <2>5 DEF Halted
<1>4. QED
  BY <1>1, <1>2, <1>3 DEF Next

\* A request that is halted is halted for good: neither the end of another request,
\* nor a worker that comes free, nor the metrics service lets it go on.
THEOREM HaltsForGood == Spec => HaltIsPermanent
<1>1. TypeOK /\ LockInv /\ [Next]_vars => [\A r \in Requests : Halted(r) => Halted(r)']_vars
  BY HaltStays
<1>2. QED
  BY <1>1, TypeCorrect, EntryIsOwned, PTL DEF Spec, HaltIsPermanent

\* A request has no worker while it waits for a place in the channel, and none when
\* it is done.
RunsInv == \A r \in running : pc[r] \notin {"send", "done"}

LEMMA RunsStep == ASSUME TypeOK, RunsInv, [Next]_vars PROVE RunsInv'
<1>1. CASE UNCHANGED <<pc, running>>
  BY <1>1 DEF RunsInv
<1>2. ASSUME NEW q \in Requests, Schedule(q) \/ RequestStep(q) PROVE RunsInv'
  <2>1. SUFFICES ASSUME NEW r \in running' PROVE pc'[r] \notin {"send", "done"}
    BY DEF RunsInv
  <2>2. r \in Requests
    BY <1>2, RequestRunning
  <2>3. CASE r # q
    <3>1. r \in running
      BY <1>2, <2>3 DEF Schedule, RequestStep, Reject, Route, GetModule, Filter, WriteResponse,
             ChainEnds, Respond, Log, Send, Suspend
    <3>2. QED
      BY <1>2, <2>2, <2>3, <3>1, OthersKeep DEF RunsInv
  <2>4. CASE r = q
    <3>1. CASE Schedule(q)
      BY <2>4, <3>1 DEF Schedule
    <3>2. CASE Reject(q) \/ ChainEnds(q) \/ Log(q)
      BY <2>4, <3>2 DEF Reject, ChainEnds, Log, Suspend
    <3>3. CASE Route(q) \/ GetModule(q) \/ Filter(q) \/ WriteResponse(q) \/ Respond(q)
      BY <2>4, <3>3 DEF Route, GetModule, Filter, WriteResponse, Respond, NextModule, Goto, TypeOK
    <3>4. CASE Send(q)
      BY <2>4, <3>4 DEF Send, RunsInv
    <3>5. QED
      BY <1>2, <3>1, <3>2, <3>3, <3>4 DEF RequestStep
  <2>5. QED
    BY <2>3, <2>4
<1>3. QED
  BY <1>1, <1>2 DEF Next, vars, LogRequest

LEMMA RunsAlways == Spec => []RunsInv
<1>1. Init => RunsInv
  BY DEF Init, RunsInv
<1>2. QED
  BY <1>1, RunsStep, TypeCorrect, PTL DEF Spec

\* A request that waits does so for another request that is in a call.
LEMMA OwnerCalls ==
    ASSUME TypeOK, LockInv, NEW r \in Requests, Waits(r)
    PROVE  Owner(r) \in Requests /\ pc[Owner(r)] \in Called
<1>1. Chain[r] \in Seq(Modules) /\ Len(Chain[r]) \in Nat
  <2>1. Chain[r] \in Seq(Modules)
    OBVIOUS
  <2>2. QED
    BY <2>1
<1>2. step[r] \in 1..Len(Chain[r])
  BY <1>1 DEF Waits, TypeOK
<1>3. Bucket(r) \in Buckets
  BY <1>2, BucketType
<1>4. QED
  BY <1>3 DEF Waits, Owner, LockInv, TypeOK

LEMMA StillIsHalted == ASSUME TypeOK, LockInv, RunsInv PROVE OnlyHalts
<1> SUFFICES ASSUME metrics_service = "wedged" \/ channel = <<>>,
                    \A r \in Requests : ~Able(r), NEW r \in Requests, pc[r] # "done"
             PROVE  Halted(r)
  BY DEF OnlyHalts
<1>1. ASSUME NEW q \in running PROVE pc[q] = "wedged" \/ Waits(q)
  <2>1. q \in Requests /\ pc[q] \notin {"send", "done"}
    BY DEF TypeOK, RunsInv
  <2>2. QED
    BY <2>1 DEF Able, TypeOK
<1>2. CASE Cardinality(running) < NumWorkers
  <2>1. \A q \in Requests : q \notin running => pc[q] \in {"send", "done"}
    BY <1>2 DEF Able
  <2>2. CASE r \in running /\ Waits(r)
    <3>1. Owner(r) \in Requests /\ pc[Owner(r)] \in Called
      BY <2>2, OwnerCalls
    <3>2. Owner(r) \in running
      BY <2>1, <3>1
    <3>3. pc[Owner(r)] = "wedged"
      BY <1>1, <3>1, <3>2 DEF Waits
    <3>4. QED
      BY <2>2, <3>3 DEF Halted
  <2>3. CASE r \notin running
    <3>1. pc[r] = "send" /\ ~HasRoom
      BY <1>2, <2>1, <2>3 DEF Able
    <3>2. channel # <<>>
      BY <3>1 DEF HasRoom
    <3>3. QED
      BY <3>1, <3>2 DEF Halted
  <2>4. QED
    BY <1>1, <2>2, <2>3 DEF Halted
<1>3. CASE Cardinality(running) = NumWorkers
  <2>1. ASSUME NEW q \in running, Waits(q), Owner(q) \in running PROVE pc[Owner(q)] = "wedged"
    <3>1. q \in Requests
      BY DEF TypeOK
    <3>2. pc[Owner(q)] \in Called
      BY <2>1, <3>1, OwnerCalls
    <3>3. QED
      BY <1>1, <2>1, <3>2 DEF Waits
  <2>2. QED
    BY <1>1, <1>3, <2>1 DEF Halted, Exhausted
<1>4. QED
  <2>1. IsFiniteSet(running) /\ Cardinality(running) \in Nat /\ Cardinality(running) <= NumWorkers
    BY FS_Subset, FS_CardinalityType DEF TypeOK
  <2>2. QED
    BY <1>2, <1>3, <2>1

\* Where nothing moves any more, each request is finished, or is in a call of the
\* store that does not return, or waits for such a call, for the metrics service in
\* one, or for a worker that will never come: there is no other way to halt.
THEOREM NoOtherHalt == Spec => []OnlyHalts
<1>1. QED
  BY StillIsHalted, TypeCorrect, EntryIsOwned, RunsAlways, PTL

LEMMA MoreInFlight == ASSUME TypeOK, LockInv PROVE ExhaustedByMore
<1> SUFFICES ASSUME Exhausted, \A r \in running : pc[r] # "wedged"
             PROVE  Cardinality(InFlight) > NumWorkers
  BY DEF ExhaustedByMore
<1>1. running \in SUBSET Requests /\ IsFiniteSet(running) /\ IsFiniteSet(Requests)
  BY FS_Subset DEF TypeOK
<1>2. PICK r \in running : TRUE
  <2>1. Cardinality(running) = NumWorkers
    BY DEF Exhausted
  <2>2. QED
    BY <2>1, FS_EmptySet
<1>3. r \in Requests /\ Waits(r) /\ (Owner(r) \notin running \/ pc[Owner(r)] = "wedged")
  BY <1>1, <1>2 DEF Exhausted
<1>4. Owner(r) \in Requests \ running /\ pc[Owner(r)] \in Called
  BY <1>3, OwnerCalls
<1>5. running \cup {Owner(r)} \subseteq InFlight /\ InFlight \subseteq Requests
  BY <1>1, <1>4 DEF InFlight
<1>6. IsFiniteSet(InFlight) /\ Cardinality(InFlight) \in Nat
  BY <1>1, <1>5, FS_Subset, FS_CardinalityType
<1>7. Cardinality(running \cup {Owner(r)}) = NumWorkers + 1
  BY <1>1, <1>4, FS_AddElement DEF Exhausted
<1>8. Cardinality(running \cup {Owner(r)}) <= Cardinality(InFlight)
  BY <1>5, <1>6, FS_Subset
<1>9. QED
  BY <1>6, <1>7, <1>8

\* While no worker is in a call that does not return, the workers can be exhausted
\* only by more requests in flight at a time than there are workers: as long as there
\* are no more, the await under the entry does not bring the proxy to a halt.
THEOREM ExhaustionTakesMore == Spec => []ExhaustedByMore
<1>1. QED
  BY MoreInFlight, TypeCorrect, EntryIsOwned, PTL

-----------------------------------------------------------------------------
(* The chain.  ChainRespected says nothing of where a request stands; what *)
(* each place of the code may rely on is needed to carry it.               *)

\* No module has replied to r, and those before step[r] were called.
Unanswered(r) ==
    /\ written[r] # "module"
    /\ Len(modules_metrics[r]) = step[r] - 1
    /\ \A i \in 1..Len(modules_metrics[r]) : ~modules_metrics[r][i]

InChain(r) ==
    Unanswered(r) /\ decision[r] = "none" /\ peer[r] = "none" /\ step[r] <= Len(Chain[r]) + 1

Stopped(r) == Unanswered(r) /\ decision[r] # "none" /\ peer[r] = "404" /\ modules_metrics[r] = <<>>

Forwarded(r) == Unanswered(r) /\ decision[r] = "none" /\ peer[r] = Backend[r] /\ step[r] = Len(Chain[r]) + 1

\* The module at step[r] has replied, and it was the first.
Replied(r) ==
    /\ written[r] = "module" /\ decision[r] = "none" /\ peer[r] = "none"
    /\ Len(modules_metrics[r]) = step[r]
    /\ \A i \in 1..step[r] : modules_metrics[r][i] <=> i = step[r]

Progress(r) ==
    /\ pc[r] = "new" => InChain(r) /\ modules_metrics[r] = <<>>
    /\ pc[r] \in {"chain"} \cup Called => InChain(r)
    /\ pc[r] \in Called => step[r] <= Len(Chain[r])
    /\ pc[r] = "upstream" => Stopped(r) \/ Forwarded(r)
    /\ pc[r] \in {"log", "send", "done"} => Stopped(r) \/ Forwarded(r) \/ Replied(r)

LEMMA ProgressRespects == ASSUME TypeOK, \A r \in Requests : Progress(r) PROVE ChainRespected
<1> SUFFICES ASSUME NEW r \in Requests
             PROVE  LET calls == modules_metrics[r] IN
                    /\ Len(calls) = step[r] - 1 \/ (written[r] = "module" /\ Len(calls) = step[r])
                    /\ \A i \in 1..Len(calls) : calls[i] => i = Len(calls) /\ written[r] = "module"
                    /\ written[r] = "module" => Len(calls) > 0 /\ calls[Len(calls)] /\ peer[r] = "none"
                    /\ decision[r] # "none" => calls = <<>> /\ peer[r] \in {"none", "404"}
                    /\ (peer[r] # "none" /\ decision[r] = "none") =>
                           Len(calls) = Len(Chain[r]) /\ peer[r] = Backend[r]
  BY DEF ChainRespected
<1>1. /\ Len(modules_metrics[r]) \in Nat /\ step[r] \in Nat \ {0}
      /\ Len(Chain[r]) \in Nat
  <2>1. Chain[r] \in Seq(Modules) /\ modules_metrics[r] \in Seq(BOOLEAN)
    BY DEF TypeOK
  <2>2. QED
    BY <2>1 DEF TypeOK
<1>2. InChain(r) \/ Stopped(r) \/ Forwarded(r) \/ Replied(r)
  BY DEF Progress, TypeOK
<1>3. CASE InChain(r)
  BY <1>1, <1>3 DEF InChain, Unanswered
<1>4. CASE Stopped(r)
  BY <1>1, <1>4 DEF Stopped, Unanswered
<1>5. CASE Forwarded(r)
  BY <1>1, <1>5 DEF Forwarded, Unanswered
<1>6. CASE Replied(r)
  BY <1>1, <1>6 DEF Replied
<1>7. QED
  BY <1>2, <1>3, <1>4, <1>5, <1>6

\* A request that goes on in its chain has called one module more.
LEMMA NextModuleProgress ==
    ASSUME TypeOK, NEW r \in Requests, InChain(r), step[r] <= Len(Chain[r]), NextModule(r),
           UNCHANGED <<decision, peer, written>>
    PROVE  Progress(r)'
<1>1. /\ modules_metrics[r] \in Seq(BOOLEAN) /\ step[r] \in Nat
      /\ Chain[r] \in Seq(Modules)
  BY DEF TypeOK
<1>2. /\ modules_metrics'[r] = Append(modules_metrics[r], FALSE)
      /\ step'[r] = step[r] + 1 /\ pc'[r] = "chain"
  BY DEF NextModule, Goto, TypeOK
<1>3. /\ Len(modules_metrics'[r]) = step'[r] - 1
      /\ \A i \in 1..Len(modules_metrics'[r]) : ~modules_metrics'[r][i]
  BY <1>1, <1>2 DEF InChain, Unanswered
<1>4. step'[r] <= Len(Chain[r]) + 1
  BY <1>1, <1>2
<1>5. QED
  BY <1>2, <1>3, <1>4 DEF InChain, Unanswered, Progress

LEMMA RequestProgress ==
    ASSUME TypeOK, NEW r \in Requests, Progress(r), Schedule(r) \/ RequestStep(r)
    PROVE  Progress(r)'
<1>0. /\ modules_metrics[r] \in Seq(BOOLEAN) /\ step[r] \in Nat \ {0}
      /\ Chain[r] \in Seq(Modules) /\ Len(Chain[r]) \in Nat
  <2>1. Chain[r] \in Seq(Modules)
    OBVIOUS
  <2>2. QED
    BY <2>1 DEF TypeOK
<1>1. CASE Schedule(r)
  BY <1>1 DEF Schedule, answerVars, Progress, InChain, Stopped, Forwarded, Replied, Unanswered
<1>2. CASE Reject(r)
  BY <1>2 DEF Reject, Goto, Decisions, TypeOK, Progress, InChain, Stopped, Unanswered
<1>3. CASE Route(r)
  BY <1>3 DEF Route, Goto, TypeOK, Progress, InChain, Unanswered
<1>4. CASE GetModule(r)
  <2>1. InChain(r) /\ step[r] <= Len(Chain[r])
    BY <1>4 DEF GetModule, Progress
  <2>2. CASE NextModule(r)
    BY <1>4, <2>1, <2>2, NextModuleProgress DEF GetModule, answerVars
  <2>3. CASE Goto(r, "filter") /\ UNCHANGED <<step, modules_metrics>>
    BY <1>4, <2>1, <2>3 DEF GetModule, Goto, answerVars, TypeOK, Progress, InChain, Unanswered
  <2>4. QED
    BY <1>4, <2>2, <2>3 DEF GetModule
<1>5. CASE Filter(r)
  <2>1. InChain(r) /\ step[r] <= Len(Chain[r])
    BY <1>5 DEF Filter, Progress
  <2>2. CASE NextModule(r)
    BY <1>5, <2>1, <2>2, NextModuleProgress DEF Filter, answerVars
  <2>3. CASE (Goto(r, "writing") \/ Goto(r, "wedged")) /\ UNCHANGED <<step, modules_metrics>>
    BY <1>5, <2>1, <2>3 DEF Filter, Goto, Called, answerVars, TypeOK, Progress, InChain, Unanswered
  <2>4. QED
    BY <1>5, <2>2, <2>3 DEF Filter
<1>6. CASE WriteResponse(r)
  <2>1. InChain(r) /\ step[r] <= Len(Chain[r])
    BY <1>6 DEF WriteResponse, Progress
  <2>2. CASE NextModule(r) /\ UNCHANGED written
    BY <1>6, <2>1, <2>2, NextModuleProgress DEF WriteResponse
  <2>3. CASE /\ written' = [written EXCEPT ![r] = "module"]
             /\ modules_metrics' = [modules_metrics EXCEPT ![r] = Append(@, TRUE)]
             /\ Goto(r, "log") /\ UNCHANGED step
    <3>1. /\ modules_metrics'[r] = Append(modules_metrics[r], TRUE)
          /\ written'[r] = "module" /\ pc'[r] = "log" /\ step'[r] = step[r]
      BY <2>3 DEF Goto, TypeOK
    <3>2. Len(modules_metrics[r]) = step[r] - 1
          /\ \A i \in 1..Len(modules_metrics[r]) : ~modules_metrics[r][i]
      BY <2>1 DEF InChain, Unanswered
    <3>3. /\ Len(modules_metrics'[r]) = step'[r]
          /\ \A i \in 1..step'[r] : modules_metrics'[r][i] <=> i = step'[r]
      BY <1>0, <3>1, <3>2
    <3>4. decision'[r] = "none" /\ peer'[r] = "none"
      BY <1>6, <2>1 DEF WriteResponse, InChain
    <3>5. QED
      BY <3>1, <3>3, <3>4 DEF Replied, Progress
  <2>4. QED
    BY <1>6, <2>2, <2>3 DEF WriteResponse
<1>7. CASE ChainEnds(r)
  <2>1. InChain(r) /\ step[r] = Len(Chain[r]) + 1
    BY <1>0, <1>7 DEF ChainEnds, Progress, InChain
  <2>2. QED
    BY <1>7, <2>1 DEF ChainEnds, Goto, TypeOK, Progress, InChain, Forwarded, Unanswered
<1>8. CASE Respond(r)
  <2>1. Stopped(r) \/ Forwarded(r)
    BY <1>8 DEF Respond, Progress
  <2>2. pc'[r] = "log" /\ written'[r] # "module"
    BY <1>8, <2>1 DEF Respond, Goto, TypeOK, Stopped, Forwarded, Unanswered
  <2>3. QED
    BY <1>8, <2>1, <2>2 DEF Respond, Progress, Stopped, Forwarded, Unanswered
<1>9. CASE Log(r) \/ Send(r)
  <2>1. Stopped(r) \/ Forwarded(r) \/ Replied(r)
    BY <1>9 DEF Log, Send, Progress
  <2>2. pc'[r] \in {"send", "done"}
    BY <1>9 DEF Log, Send, Goto, TypeOK
  <2>3. UNCHANGED <<step, modules_metrics, decision, peer, written>>
    BY <1>9 DEF Log, Send, answerVars
  <2>4. QED
    BY <2>1, <2>2, <2>3 DEF Progress, Stopped, Forwarded, Replied, Unanswered
<1>10. QED
  BY <1>1, <1>2, <1>3, <1>4, <1>5, <1>6, <1>7, <1>8, <1>9 DEF RequestStep

\* A backend is reached only after the whole chain has been called without a
\* reply, a reply ends the chain, and a stopped request reaches no backend.
THEOREM BackendAfterChain == Spec => []ChainRespected
<1> DEFINE Inv == TypeOK /\ \A r \in Requests : Progress(r)
<1>1. Init => Inv
  <2>1. ASSUME Init, NEW r \in Requests PROVE Progress(r)
    <3>1. Chain[r] \in Seq(Modules)
      OBVIOUS
    <3>2. QED
      BY <2>1, <3>1 DEF Init, Progress, InChain, Unanswered
  <2>2. QED
    BY <2>1, InitType
<1>2. ASSUME Inv, [Next]_vars PROVE Inv'
  <2>1. CASE UNCHANGED <<pc, step, modules_metrics, answerVars>>
    <3>1. ASSUME NEW r \in Requests PROVE Progress(r)'
      BY <1>2, <2>1 DEF answerVars, Progress, InChain, Stopped, Forwarded, Replied, Unanswered
    <3>2. QED
      BY <1>2, <3>1, StepType
  <2>2. ASSUME NEW q \in Requests, Schedule(q) \/ RequestStep(q), NEW r \in Requests
        PROVE  Progress(r)'
    <3>1. CASE r = q
      BY <1>2, <2>2, <3>1, RequestProgress
    <3>2. CASE r # q
      <4>1. /\ pc'[r] = pc[r] /\ step'[r] = step[r] /\ modules_metrics'[r] = modules_metrics[r]
            /\ decision'[r] = decision[r] /\ peer'[r] = peer[r] /\ written'[r] = written[r]
        BY <1>2, <2>2, <3>2, OthersKeep
      <4>2. Progress(r)
        BY <1>2
      <4> HIDE DEF Called
      <4>3. QED
        BY <4>1, <4>2 DEF Progress, InChain, Stopped, Forwarded, Replied, Unanswered
    <3>3. QED
      BY <3>1, <3>2
  <2>3. CASE Next
    BY <1>2, <2>1, <2>2, <2>3, StepType DEF Next, LogRequest
  <2>4. UNCHANGED vars => UNCHANGED <<pc, step, modules_metrics, answerVars>>
    BY DEF vars, answerVars
  <2>5. QED
    BY <1>2, <2>1, <2>3, <2>4
<1>3. Inv => ChainRespected
  BY ProgressRespects
<1>4. QED
  BY <1>1, <1>2, <1>3, PTL DEF Spec

=============================================================================
