------------------------- MODULE StaticFiles_proofs -------------------------
(***************************************************************************)
(* For all files, requests, versions and ranges: answers are fresh, and    *)
(* break off only across a replacement.                                    *)
(***************************************************************************)
EXTENDS StaticFiles, TLAPS

\* What a place of the code knows.
Arrived == [at : {"look"}, file : Files, tag : {Tag[v] : v \in Versions} \cup {None},
            range : Ranges]
Seen == [at : {"lookup"}, file : Files, tag : {Tag[v] : v \in Versions} \cup {None},
         range : Ranges, saw : Versions]
Answered == [at : {"respond"}, file : Files, tag : {Tag[v] : v \in Versions} \cup {None},
             range : Ranges, saw : Versions, meta : FileMeta]
Written == [at : {"write", "aborted"}, file : Files, saw : Versions, meta : FileMeta,
            offset : Nat, end : Nat]

\* An entry maps the version that it describes or a later one.
Sound(meta, f) == meta \in FileMeta /\ meta.of <= meta.mapped /\ meta.mapped <= latest[f]

CacheInv == \A f \in Files : cache[f] # None => Sound(cache[f], f)

TaskTypeInv(r) ==
    \/ task[r] = Idle
    \/ task[r] \in Arrived \cup Seen \cup Answered \cup Written

TaskInv(r) ==
    /\ TaskTypeInv(r)
    /\ task[r].at \in {"lookup"} \cup Answering => task[r].saw <= latest[task[r].file]
    /\ task[r].at \in Answering =>
        Sound(task[r].meta, task[r].file) /\ task[r].meta.of = task[r].saw
    /\ task[r].at \in {"write", "aborted"} =>
        task[r].offset <= task[r].end /\ task[r].end <= Length[task[r].meta.of]
    /\ task[r].at = "aborted" => Length[task[r].meta.mapped] < Length[task[r].meta.of]

FilesInv ==
    /\ latest \in [Files -> 0..MaxVersions]
    /\ there \in [Files -> BOOLEAN]
    /\ \A f \in Files : there[f] => latest[f] > 0
    /\ DOMAIN cache = Files /\ DOMAIN task = Requests

IInv == FilesInv /\ CacheInv /\ \A r \in Requests : TaskInv(r)

LEMMA InitIInv == Init => IInv
<1> SUFFICES ASSUME Init PROVE IInv
  OBVIOUS
<1>1. FilesInv
  <2>1. latest \in [Files -> 0..MaxVersions]
    BY StaticAssumption DEF Init, StaticAssumption
  <2>2. there \in [Files -> BOOLEAN] /\ \A f \in Files : there[f] <=> latest[f] = 1
    BY DEF Init
  <2>3. DOMAIN cache = Files /\ DOMAIN task = Requests
    BY DEF Init
  <2> QED BY <2>1, <2>2, <2>3 DEF FilesInv
<1>2. CacheInv
  BY DEF Init, CacheInv
<1>3. ASSUME NEW r \in Requests PROVE TaskInv(r)
  <2>1. task[r] = Idle /\ task[r].at = "idle"
    BY DEF Init, Idle
  <2> QED BY <2>1 DEF TaskInv, TaskTypeInv, Answering
<1> QED BY <1>1, <1>2, <1>3 DEF IInv

\* Files only get newer: what is sound stays so.
LEMMA FilesChange ==
    ASSUME IInv, NEW f \in Files, Replace(f) \/ Delete(f)
    PROVE  IInv'
<1>1. FilesInv'
  <2> USE StaticAssumption DEF IInv, FilesInv, StaticAssumption
  <2>1. CASE Replace(f)
    <3>1. latest' \in [Files -> 0..MaxVersions] /\ there' \in [Files -> BOOLEAN]
      BY <2>1 DEF Replace
    <3>2. \A g \in Files : there'[g] => latest'[g] > 0
      BY <2>1 DEF Replace
    <3> QED BY <2>1, <3>1, <3>2 DEF Replace
  <2>2. CASE Delete(f)
    BY <2>2 DEF Delete
  <2> QED BY <2>1, <2>2
<1>2. \A g \in Files : latest[g] \in Nat /\ latest'[g] \in Nat /\ latest[g] <= latest'[g]
  BY StaticAssumption DEF IInv, FilesInv, Replace, Delete, StaticAssumption
<1>3. \A g \in Files : \A meta : Sound(meta, g) => Sound(meta, g)'
  BY <1>2, StaticAssumption DEF Sound, FileMeta, Versions, StaticAssumption
<1>4. cache' = cache /\ task' = task
  BY DEF Replace, Delete
<1>5. CacheInv'
  BY <1>3, <1>4 DEF IInv, CacheInv
<1>6. ASSUME NEW r \in Requests PROVE TaskInv(r)'
  <2>1. TaskInv(r)
    BY DEF IInv
  <2>2. TaskTypeInv(r)'
    BY <1>4, <2>1 DEF TaskInv, TaskTypeInv
  <2>3. task[r].at \in {"lookup"} \cup Answering => task[r].file \in Files /\ task[r].saw \in Nat
    BY <2>1, StaticAssumption
    DEF TaskInv, TaskTypeInv, Idle, Arrived, Seen, Answered, Written, Answering, Versions,
        StaticAssumption
  <2> QED BY <1>2, <1>3, <1>4, <2>1, <2>2, <2>3 DEF TaskInv
<1> QED BY <1>1, <1>5, <1>6 DEF IInv

\* A step of one request, with what it leaves in the cache.
LEMMA RequestSteps ==
    ASSUME IInv, NEW r \in Requests, NEW state, Become(r, state),
           UNCHANGED <<latest, there>>, FilesInv', CacheInv', TaskInv(r)'
    PROVE  IInv'
<1>1. ASSUME NEW s \in Requests, s # r PROVE TaskInv(s)'
  <2>1. task'[s] = task[s]
    BY <1>1 DEF Become, IInv, FilesInv
  <2> QED BY <2>1 DEF IInv, TaskInv, TaskTypeInv, Sound
<1> QED BY <1>1 DEF IInv

LEMMA RequestArrives ==
    ASSUME IInv, NEW r \in Requests, NEW f \in Files, NEW range \in Ranges,
           NEW tag \in {Tag[v] : v \in Versions} \cup {None}, Arrive(r, f, tag, range)
    PROVE  IInv'
<1> DEFINE state == [at |-> "look", file |-> f, tag |-> tag, range |-> range]
<1>1. Become(r, state) /\ UNCHANGED <<latest, there, cache>>
  BY DEF Arrive
<1>2. task'[r] = state /\ FilesInv'
  BY <1>1 DEF Become, IInv, FilesInv
<1>3. CacheInv'
  BY <1>1 DEF IInv, CacheInv, Sound
<1>4. TaskInv(r)'
  BY <1>2 DEF TaskInv, TaskTypeInv, Arrived, Answering
<1> QED BY <1>1, <1>2, <1>3, <1>4, RequestSteps

LEMMA RequestEnds ==
    ASSUME IInv, NEW r \in Requests, End(r), UNCHANGED <<latest, there, cache>>
    PROVE  IInv'
<1>1. task'[r] = Idle /\ task'[r].at = "idle" /\ FilesInv'
  BY DEF End, Become, Idle, IInv, FilesInv
<1>2. CacheInv'
  BY DEF IInv, CacheInv, Sound
<1>3. TaskInv(r)'
  BY <1>1 DEF TaskInv, TaskTypeInv, Answering
<1> QED BY <1>1, <1>2, <1>3, RequestSteps DEF End

LEMMA RequestLooks ==
    ASSUME IInv, NEW r \in Requests, Look(r)
    PROVE  IInv'
<1> DEFINE t == task[r]
           state == [at |-> "lookup", file |-> t.file, tag |-> t.tag, range |-> t.range,
                     saw |-> latest[t.file]]
<1>1. t \in Arrived
  BY DEF IInv, TaskInv, TaskTypeInv, Look, Idle, Arrived, Seen, Answered, Written
<1>2. /\ Become(r, state) /\ UNCHANGED <<latest, there, cache>>
      /\ there[t.file]
  BY DEF Look
<1>3. task'[r] = state /\ FilesInv'
  BY <1>2 DEF Become, IInv, FilesInv
<1>4. CacheInv'
  BY <1>2 DEF IInv, CacheInv, Sound
<1>5. t.file \in Files /\ latest[t.file] \in Versions
  BY <1>1, <1>2, StaticAssumption DEF Arrived, IInv, FilesInv, Versions, StaticAssumption
<1>6. state \in Seen
  BY <1>1, <1>5 DEF Arrived, Seen
<1>7. TaskInv(r)'
  BY <1>2, <1>3, <1>5, <1>6, StaticAssumption
  DEF TaskInv, TaskTypeInv, Answering, Versions, StaticAssumption
<1> QED BY <1>2, <1>3, <1>4, <1>7, RequestSteps

\* From the cache or from the file, what a request is given is sound and of the
\* version that it saw.
LEMMA RequestLooksUp ==
    ASSUME IInv, NEW r \in Requests, Hit(r) \/ Miss(r)
    PROVE  IInv'
<1> DEFINE t == task[r]
           f == t.file
           meta == cache'[f]
           state == With(t, meta)
<1>1. t \in Seen /\ f \in Files /\ t.saw \in Versions /\ t.saw <= latest[f]
  BY DEF IInv, TaskInv, TaskTypeInv, Hit, Miss, Idle, Arrived, Seen, Answered, Written, Answering
<1>2. /\ Become(r, state) /\ UNCHANGED <<latest, there>>
      /\ \A g \in Files \ {f} : cache'[g] = cache[g]
      /\ DOMAIN cache' = Files
  BY <1>1 DEF Hit, Miss, IInv, FilesInv
<1>3. Sound(meta, f) /\ meta.of = t.saw
  <2>1. CASE Hit(r)
    BY <1>1, <2>1 DEF Hit, Cached, IInv, CacheInv
  <2>2. CASE Miss(r)
    <3>1. meta = [of |-> t.saw, mapped |-> latest[f]]
      BY <1>1, <2>2 DEF Miss, Map, IInv, FilesInv
    <3>2. latest[f] \in Versions
      BY <1>1, <2>2, StaticAssumption DEF Miss, IInv, FilesInv, Versions, StaticAssumption
    <3> QED BY <1>1, <3>1, <3>2, StaticAssumption DEF Sound, FileMeta, Versions, StaticAssumption
  <2> QED BY <2>1, <2>2
<1>4. task'[r] = state /\ FilesInv'
  BY <1>2 DEF Become, IInv, FilesInv
<1>5. CacheInv'
  BY <1>2, <1>3 DEF IInv, CacheInv, Sound
<1> HIDE DEF meta
<1>6. state \in Answered /\ state.file = f /\ state.saw = t.saw /\ state.meta = meta
  BY <1>1, <1>3 DEF With, Seen, Answered, Sound
<1>7. state.at = "respond"
  BY DEF With
<1> HIDE DEF state
<1>8. TaskInv(r)'
  BY <1>1, <1>2, <1>3, <1>4, <1>6, <1>7 DEF TaskInv, TaskTypeInv, Sound
<1> QED BY <1>2, <1>4, <1>5, <1>8, RequestSteps

LEMMA RequestResponds ==
    ASSUME IInv, NEW r \in Requests, Respond(r)
    PROVE  IInv'
<1> DEFINE t == task[r]
           length == Length[t.meta.of]
           ranged == Within(t.range, length)
           offset == IF ranged THEN t.range[1] ELSE 0
           end == IF ranged THEN t.range[2] + 1 ELSE length
           state == [at |-> "write", file |-> t.file, saw |-> t.saw, meta |-> t.meta,
                     offset |-> offset, end |-> end]
<1>1. /\ t \in Answered /\ t.saw <= latest[t.file]
      /\ Sound(t.meta, t.file) /\ t.meta.of = t.saw
  BY DEF IInv, TaskInv, TaskTypeInv, Respond, Idle, Arrived, Seen, Answered, Written, Answering
<1>2. Become(r, state) /\ UNCHANGED <<latest, there, cache>>
  BY DEF Respond
<1>3. task'[r] = state /\ FilesInv'
  BY <1>2 DEF Become, IInv, FilesInv
<1>4. CacheInv'
  BY <1>2 DEF IInv, CacheInv, Sound
<1>5. length \in Nat
  BY <1>1, StaticAssumption DEF Answered, FileMeta, StaticAssumption
<1>6. offset \in Nat /\ end \in Nat /\ offset <= end /\ end <= length
  <2>1. CASE ranged
    <3>1. t.range \in Nat \X Nat
      BY <1>1, <2>1, StaticAssumption DEF Answered, Within, StaticAssumption
    <3> QED BY <1>5, <2>1, <3>1 DEF Within
  <2>2. CASE ~ranged
    BY <1>5, <2>2
  <2> QED BY <2>1, <2>2
<1> HIDE DEF offset, end
<1>7. state \in Written
  BY <1>1, <1>6 DEF Answered, Written
<1>8. TaskInv(r)'
  BY <1>1, <1>2, <1>3, <1>6, <1>7 DEF TaskInv, TaskTypeInv, Sound
<1> QED BY <1>2, <1>3, <1>4, <1>8, RequestSteps

LEMMA RequestWrites ==
    ASSUME IInv, NEW r \in Requests, WriteChunk(r) \/ Abort(r)
    PROVE  IInv'
<1> DEFINE t == task[r]
<1>1. /\ t \in Written /\ t.saw <= latest[t.file]
      /\ Sound(t.meta, t.file) /\ t.meta.of = t.saw
      /\ t.offset <= t.end /\ t.end <= Length[t.meta.of] /\ t.at = "write"
  BY DEF IInv, TaskInv, TaskTypeInv, WriteChunk, Abort, Idle, Arrived, Seen, Answered, Written,
         Answering
<1>2. UNCHANGED <<latest, there, cache>>
  BY DEF WriteChunk, Abort
<1>3. CacheInv'
  BY <1>2 DEF IInv, CacheInv, Sound
<1>4. /\ ChunkEnd(t) \in Nat /\ ChunkEnd(t) <= t.end
      /\ Length[t.meta.of] \in Nat /\ Length[t.meta.mapped] \in Nat
  BY <1>1, StaticAssumption DEF Written, FileMeta, ChunkEnd, StaticAssumption
<1>5. CASE WriteChunk(r)
  <2> DEFINE state == [t EXCEPT !.offset = ChunkEnd(t)]
  <2>1. Become(r, state) /\ task'[r] = state /\ FilesInv'
    BY <1>2, <1>5 DEF WriteChunk, Become, IInv, FilesInv
  <2>2. /\ state \in Written /\ state.at = "write" /\ state.file = t.file /\ state.saw = t.saw
        /\ state.meta = t.meta /\ state.end = t.end /\ state.offset = ChunkEnd(t)
    BY <1>1, <1>4 DEF Written
  <2> HIDE DEF state
  <2>3. TaskInv(r)'
    BY <1>1, <1>2, <1>4, <2>1, <2>2 DEF TaskInv, TaskTypeInv, Sound
  <2> QED BY <1>2, <1>3, <2>1, <2>3, RequestSteps
<1>6. CASE Abort(r)
  <2> DEFINE state == [t EXCEPT !.at = "aborted"]
  <2>1. Become(r, state) /\ task'[r] = state /\ FilesInv'
    BY <1>2, <1>6 DEF Abort, Become, IInv, FilesInv
  <2>2. /\ state \in Written /\ state.at = "aborted" /\ state.file = t.file /\ state.saw = t.saw
        /\ state.meta = t.meta /\ state.end = t.end /\ state.offset = t.offset
    BY <1>1 DEF Written
  <2>3. Length[t.meta.mapped] < Length[t.meta.of]
    BY <1>1, <1>4, <1>6 DEF Abort, Written
  <2> HIDE DEF state
  <2>4. TaskInv(r)'
    BY <1>1, <1>2, <2>1, <2>2, <2>3 DEF TaskInv, TaskTypeInv, Sound
  <2> QED BY <1>2, <1>3, <2>1, <2>4, RequestSteps
<1> QED BY <1>5, <1>6

LEMMA IInvStep == IInv /\ [Next]_vars => IInv'
<1> SUFFICES ASSUME IInv, [Next]_vars PROVE IInv'
  OBVIOUS
<1>1. CASE \E f \in Files : Replace(f) \/ Delete(f)
  BY <1>1, FilesChange
<1>2. CASE \E r \in Requests, f \in Files, range \in Ranges :
             \E tag \in {Tag[v] : v \in Versions} \cup {None} : Arrive(r, f, tag, range)
  BY <1>2, RequestArrives
<1>3. CASE \E r \in Requests : Step(r)
  <2>1. PICK r \in Requests : Step(r)
    BY <1>3
  <2>2. CASE NotThere(r) \/ Vanished(r) \/ Matched(r) \/ Finish(r) \/ Leave(r)
    BY <2>2, RequestEnds DEF NotThere, Vanished, Matched, Finish, Leave
  <2> QED BY <2>1, <2>2, RequestLooks, RequestLooksUp, RequestResponds, RequestWrites DEF Step
<1>4. CASE UNCHANGED vars
  BY <1>4 DEF vars, IInv, FilesInv, CacheInv, TaskInv, TaskTypeInv, Sound
<1> QED BY <1>1, <1>2, <1>3, <1>4 DEF Next

-----------------------------------------------------------------------------

\* Every variable keeps its type; in particular the range that an answer is made
\* of lies within the length of the version that its header describes.
THEOREM TypeCorrect == Spec => []TypeOK
<1>1. IInv => TypeOK
  <2> SUFFICES ASSUME IInv PROVE TypeOK
    OBVIOUS
  <2>1. ASSUME NEW f \in Files, cache[f] # None PROVE cache[f] \in FileMeta
    BY <2>1 DEF IInv, CacheInv, Sound
  <2>2. ASSUME NEW r \in Requests
        PROVE  /\ task[r].at \in {"idle", "look", "lookup"} \cup Answering
               /\ task[r].at # "idle" => task[r].file \in Files
               /\ task[r].at = "lookup" => task[r].saw \in Versions
               /\ task[r].at \in Answering =>
                   task[r].saw \in Versions /\ task[r].meta \in FileMeta
               /\ task[r].at \in {"write", "aborted"} =>
                   /\ task[r].end \in 0..Length[task[r].meta.of]
                   /\ task[r].offset \in 0..task[r].end
    <3>1. TaskInv(r)
      BY DEF IInv
    <3>2. CASE task[r] = Idle
      BY <3>2 DEF Idle, Answering
    <3>3. CASE task[r] \in Arrived \cup Seen \cup Answered
      BY <3>3 DEF Arrived, Seen, Answered, Answering
    <3>4. CASE task[r] \in Written
      <4>1. Length[task[r].meta.of] \in Nat
        BY <3>4, StaticAssumption DEF Written, FileMeta, StaticAssumption
      <4> QED BY <3>1, <3>4, <4>1 DEF TaskInv, Written, Answering
    <3> QED BY <3>1, <3>2, <3>3, <3>4 DEF TaskInv, TaskTypeInv
  <2> QED BY <2>1, <2>2 DEF TypeOK, IInv, FilesInv
<1> QED BY <1>1, InitIInv, IInvStep, PTL DEF Spec

\* What a request is answered with is at least as new as the file was when the
\* request looked at it, for any number of requests, files and replacements.
THEOREM AnswersStayFresh == Spec => []AnswersAreFresh
<1>1. IInv => AnswersAreFresh
  <2> SUFFICES ASSUME IInv, NEW r \in Requests, task[r].at \in Answering
               PROVE  task[r].meta.mapped \in task[r].saw..latest[task[r].file]
    BY DEF AnswersAreFresh
  <2>1. /\ Sound(task[r].meta, task[r].file) /\ task[r].meta.of = task[r].saw
        /\ task[r].meta \in FileMeta /\ task[r].file \in Files
    BY DEF IInv, TaskInv, TaskTypeInv, Idle, Arrived, Seen, Answered, Written, Answering
  <2> QED BY <2>1, StaticAssumption
          DEF Sound, FileMeta, Versions, IInv, FilesInv, StaticAssumption
<1> QED BY <1>1, InitIInv, IInvStep, PTL DEF Spec

\* A cache entry that describes the present version maps it.
THEOREM EntriesDescribeTheirMap == Spec => []DescribedAsMapped
<1>1. IInv => DescribedAsMapped
  BY StaticAssumption
  DEF DescribedAsMapped, IInv, FilesInv, CacheInv, Sound, FileMeta, Versions, StaticAssumption
<1> QED BY <1>1, InitIInv, IInvStep, PTL DEF Spec

\* No range that a client asks for makes an answer break off: only a shorter
\* version that took the file's place between the look at it and its opening.
THEOREM NoRangeAborts == Spec => []AbortsOnlyAcrossReplacement
<1>1. IInv => AbortsOnlyAcrossReplacement
  <2> SUFFICES ASSUME IInv, NEW r \in Requests, task[r].at = "aborted"
               PROVE  /\ task[r].meta.of < task[r].meta.mapped
                      /\ Length[task[r].meta.mapped] < Length[task[r].meta.of]
    BY DEF AbortsOnlyAcrossReplacement
  <2>1. /\ task[r].meta.of <= task[r].meta.mapped /\ task[r].meta \in FileMeta
        /\ Length[task[r].meta.mapped] < Length[task[r].meta.of]
    BY DEF IInv, TaskInv, Sound, Answering
  <2> QED BY <2>1, StaticAssumption DEF FileMeta, Versions, StaticAssumption
<1> QED BY <1>1, InitIInv, IInvStep, PTL DEF Spec
=============================================================================
