------------------------- MODULE SessionScore_proofs -------------------------
(***************************************************************************)
(* Theorems about SessionScore, for all sessions, requests, costs, ttls,   *)
(* thresholds and word sizes.                                              *)
(***************************************************************************)
EXTENDS SessionScore, TLAPS

USE SessionScoreAssumption

\* The two operations on a u64 stay in it, and the sum is monotone.
LEMMA Saturation ==
    ASSUME NEW x \in Score, NEW n \in Nat
    PROVE  /\ SaturatingAdd(x, n) \in Score /\ x <= SaturatingAdd(x, n)
           /\ SaturatingSub(x, n) \in Score /\ SaturatingSub(x, n) <= x
           /\ \A y \in Score : x <= y => SaturatingAdd(x, n) <= SaturatingAdd(y, n)
  BY DEF Score, SaturatingAdd, SaturatingSub

LEMMA ScoreType ==
    ASSUME TypeOK, NEW s \in Sessions
    PROVE  ScoreOf(s) \in Score /\ (scores[s] # Absent => scores[s].val \in Score)
  BY DEF TypeOK, ScoreOf, Score, Entry

-----------------------------------------------------------------------------
(* Types.                                                                  *)

LEMMA InitType == Init => TypeOK
  BY DEF Init, TypeOK, Score, Record

LEMMA RequestType ==
    ASSUME TypeOK, NEW r \in Requests, Arrive(r) \/ Solve(r) \/ RequestStep(r)
    PROVE  TypeOK'
<1> USE DEF TypeOK
<1>1. SessionOf[r] \in Sessions
  OBVIOUS
<1>2. CASE Arrive(r) \/ Solve(r)
  BY <1>2 DEF Arrive, Solve, Goto, Decide, consumerVars, historyVars
<1>3. CASE RateLimit(r)
  BY <1>3 DEF RateLimit, Goto, Decide, consumerVars, historyVars, Verdicts
<1>4. CASE GoodBoyRead(r)
  <2>1. CASE scores[SessionOf[r]] # Absent
    <3>1. read' \in [Requests -> Score]
      BY <1>1, <1>4, <2>1, ScoreType DEF GoodBoyRead
    <3>2. past' \in [Sessions -> {"exact", "credited", "taken"}]
      BY <1>4, <2>1 DEF GoodBoyRead, Note
    <3>3. QED
      BY <1>4, <2>1, <3>1, <3>2 DEF GoodBoyRead, Goto, consumerVars
  <2>2. CASE scores[SessionOf[r]] = Absent
    BY <1>4, <2>2 DEF GoodBoyRead, Goto, Decide, consumerVars, Verdicts
  <2>3. QED
    BY <2>1, <2>2
<1>5. CASE GoodBoyWrite(r)
  <2>1. SaturatingSub(read[r], Credit) \in Score
    BY Saturation
  <2>2. scores' \in [Sessions -> Entry \cup {Absent}]
    BY <1>5, <2>1 DEF GoodBoyWrite, SetSync, Entry
  <2>3. read' \in [Requests -> Score]
    BY <1>5 DEF GoodBoyWrite, Score
  <2>4. QED
    BY <1>5, <2>2, <2>3 DEF GoodBoyWrite, Goto, Decide, consumerVars, historyVars, Verdicts
<1>6. CASE Answer(r)
  <2>1. verdict[r] \in Verdicts
    BY <1>6 DEF Answer
  <2>2. \A c \in Costs[verdict[r]] : [session |-> SessionOf[r], cost |-> c] \in Record
    BY <2>1 DEF Record
  <2>3. channel' \in Seq(Record)
    <3>1. \A m \in Record : Append(channel, m) \in Seq(Record)
      OBVIOUS
    <3>2. CASE channel' = channel
      BY <3>2
    <3>3. ASSUME NEW c \in Costs[verdict[r]],
                 channel' = Append(channel, [session |-> SessionOf[r], cost |-> c])
          PROVE  channel' \in Seq(Record)
      <4> DEFINE m == [session |-> SessionOf[r], cost |-> c]
      <4>1. m \in Record /\ channel' = Append(channel, m)
        BY <2>2, <3>3
      <4> HIDE DEF m
      <4>2. QED
        BY <3>1, <4>1
    <3>4. QED
      BY <1>6, <3>2, <3>3 DEF Answer
  <2>4. QED
    BY <1>6, <2>3 DEF Answer, Goto, consumerVars, historyVars
<1>7. QED
  BY <1>2, <1>3, <1>4, <1>5, <1>6 DEF RequestStep

LEMMA ConsumerType ==
    ASSUME TypeOK, ConsumerStep
    PROVE  TypeOK'
<1> USE DEF TypeOK
<1>1. CASE Recv
  <2>1. record' \in Record /\ channel' \in Seq(Record)
    BY <1>1 DEF Recv
  <2>2. QED
    BY <1>1, <2>1 DEF Recv, creditVars, historyVars
<1>2. CASE LogRequestRead
  <2>1. record.session \in Sessions
    BY <1>2 DEF LogRequestRead, Record
  <2>2. QED
    BY <1>2, <2>1, ScoreType DEF LogRequestRead, creditVars, historyVars
<1>3. CASE LogRequestWrite
  <2>1. record.session \in Sessions /\ record.cost \in Nat
    BY <1>3 DEF LogRequestWrite, Record
  <2>2. NextScore \in Score /\ SaturatingAdd(logged[record.session], record.cost) \in Score
    BY <2>1, Saturation DEF NextScore
  <2>3. scores' \in [Sessions -> Entry \cup {Absent}]
    BY <1>3, <2>1, <2>2 DEF LogRequestWrite, SetSync, Entry
  <2>4. logged' \in [Sessions -> Score]
    BY <1>3, <2>1, <2>2 DEF LogRequestWrite
  <2>5. counted' \in Score
    BY <1>3 DEF LogRequestWrite, Score
  <2>6. QED
    BY <1>3, <2>3, <2>4, <2>5 DEF LogRequestWrite, creditVars
<1>4. QED
  BY <1>1, <1>2, <1>3 DEF ConsumerStep

LEMMA TickScores ==
    ASSUME TypeOK, Tick, NEW s \in Sessions
    PROVE  scores'[s] \in Entry \cup {Absent} /\ ScoreOf(s)' = ScoreOf(s)
<1>1. scores'[s] = IF scores[s] # Absent /\ scores[s].left > 0
                   THEN [scores[s] EXCEPT !.left = @ - 1] ELSE scores[s]
  BY DEF Tick, TypeOK
<1>2. CASE scores[s] # Absent /\ scores[s].left > 0
  <2>1. PICK v \in Score, n \in 0..Ttl : scores[s] = [val |-> v, left |-> n]
    BY <1>2 DEF TypeOK, Entry
  <2>2. scores'[s] = [val |-> v, left |-> n - 1] /\ n - 1 \in 0..Ttl
    BY <1>1, <1>2, <2>1
  <2>3. scores'[s] \in Entry
    BY <2>2 DEF Entry
  <2>4. QED
    BY <1>2, <2>1, <2>2, <2>3 DEF ScoreOf
<1>3. CASE ~(scores[s] # Absent /\ scores[s].left > 0)
  BY <1>1, <1>3 DEF ScoreOf, TypeOK
<1>4. QED
  BY <1>2, <1>3

LEMMA StoreType ==
    ASSUME TypeOK, Tick \/ \E s \in Sessions : Sweep(s) \/ Hang(s)
    PROVE  TypeOK'
<1>1. CASE Tick
  <2>1. scores' = [s \in Sessions |-> scores'[s]]
    BY <1>1 DEF Tick
  <2>2. scores' \in [Sessions -> Entry \cup {Absent}]
    BY <1>1, <2>1, TickScores
  <2>3. QED
    BY <1>1, <2>2 DEF Tick, TypeOK, creditVars, consumerVars, historyVars
<1>2. CASE \E s \in Sessions : Sweep(s) \/ Hang(s)
  BY <1>2 DEF Sweep, Hang, TypeOK, creditVars, consumerVars, historyVars
<1>3. QED
  BY <1>1, <1>2

LEMMA StepType == ASSUME TypeOK, [Next]_vars PROVE TypeOK'
<1>1. CASE UNCHANGED vars
  BY <1>1 DEF vars, creditVars, consumerVars, historyVars, TypeOK
<1>2. CASE Next
  BY <1>2, RequestType, ConsumerType, StoreType DEF Next
<1>3. QED
  BY <1>1, <1>2

\* Every variable keeps its type: in particular no operation on a score leaves
\* the word it is stored in.
THEOREM TypeCorrect == Spec => []TypeOK
<1>1. QED
  BY InitType, StepType, PTL DEF Spec

-----------------------------------------------------------------------------
(* The invariant behind NoOvercount: a score that a call has read and has  *)
(* yet to write back is no more than what was added either.                *)

OvercountInv ==
    /\ NoOvercount
    /\ consumer_pc = "write" => counted <= logged[record.session]
    /\ \A r \in Requests : pc[r] = "write" => read[r] <= logged[SessionOf[r]]

\* What is added to a session only grows.
LEMMA LoggedGrows ==
    ASSUME TypeOK, [Next]_vars, NEW s \in Sessions
    PROVE  logged[s] \in Score /\ logged'[s] \in Score /\ logged[s] <= logged'[s]
<1>1. logged[s] \in Score
  BY DEF TypeOK
<1>2. CASE LogRequestWrite
  <2>1. record.session \in Sessions /\ record.cost \in Nat
    BY <1>2 DEF LogRequestWrite, Record, TypeOK
  <2>2. logged'[s] = logged[s] \/ logged'[s] = SaturatingAdd(logged[s], record.cost)
    BY <1>2, <2>1 DEF LogRequestWrite, TypeOK
  <2>3. /\ SaturatingAdd(logged[s], record.cost) \in Score
        /\ logged[s] <= SaturatingAdd(logged[s], record.cost)
    BY <1>1, <2>1, Saturation
  <2>4. QED
    BY <1>1, <2>2, <2>3 DEF Score
<1>3. CASE UNCHANGED logged
  BY <1>1, <1>3 DEF Score
<1>4. LogRequestWrite \/ UNCHANGED logged
  BY DEF Next, vars, historyVars, Arrive, Solve, RequestStep, RateLimit, GoodBoyRead, GoodBoyWrite,
         Answer, ConsumerStep, Recv, LogRequestRead, Tick, Sweep, Hang
<1>5. QED
  BY <1>2, <1>3, <1>4

\* The score of a session after a step, and what was added to it: as before, gone,
\* or written by one of two.
LEMMA ScoreStep ==
    ASSUME TypeOK, [Next]_vars, NEW s \in Sessions
    PROVE  \/ ScoreOf(s)' = ScoreOf(s) /\ logged'[s] = logged[s]
           \/ Sweep(s) /\ ScoreOf(s)' = 0
           \/ /\ LogRequestWrite /\ record.session = s /\ ScoreOf(s)' = NextScore
              /\ logged'[s] = SaturatingAdd(logged[s], record.cost)
           \/ \E r \in Requests : /\ GoodBoyWrite(r) /\ SessionOf[r] = s
                                  /\ ScoreOf(s)' = SaturatingSub(read[r], Credit)
<1>1. CASE UNCHANGED <<scores, logged>>
  BY <1>1 DEF ScoreOf
<1>2. CASE Tick
  BY <1>2, TickScores DEF Tick, historyVars
<1>3. ASSUME NEW u \in Sessions, Sweep(u)
      PROVE  \/ ScoreOf(s)' = ScoreOf(s) /\ logged'[s] = logged[s]
             \/ Sweep(s) /\ ScoreOf(s)' = 0
  BY <1>3 DEF Sweep, ScoreOf, TypeOK
<1>4. ASSUME NEW u \in Sessions, NEW v \in Score, SetSync(u, v)
      PROVE  ScoreOf(s)' = IF s = u THEN v ELSE ScoreOf(s)
  <2>1. scores'[s] = IF s = u THEN [val |-> v, left |-> Ttl] ELSE scores[s]
    BY <1>4 DEF SetSync, TypeOK
  <2>2. [val |-> v, left |-> Ttl] # Absent
    BY DEF Entry
  <2>3. QED
    BY <2>1, <2>2 DEF ScoreOf
<1>5. CASE LogRequestWrite
  <2>1. record.session \in Sessions /\ record.cost \in Nat
    BY <1>5 DEF LogRequestWrite, Record, TypeOK
  <2>2. NextScore \in Score
    BY <2>1, Saturation DEF NextScore, TypeOK
  <2>3. SetSync(record.session, NextScore)
    BY <1>5 DEF LogRequestWrite
  <2>4. logged'[s] = IF s = record.session THEN SaturatingAdd(logged[s], record.cost) ELSE logged[s]
    BY <1>5, <2>1 DEF LogRequestWrite, TypeOK
  <2>5. QED
    BY <1>4, <1>5, <2>1, <2>2, <2>3, <2>4
<1>6. ASSUME NEW r \in Requests, GoodBoyWrite(r)
      PROVE  \/ ScoreOf(s)' = ScoreOf(s) /\ logged'[s] = logged[s]
             \/ SessionOf[r] = s /\ ScoreOf(s)' = SaturatingSub(read[r], Credit)
  <2>1. SaturatingSub(read[r], Credit) \in Score /\ SessionOf[r] \in Sessions
    BY Saturation DEF TypeOK
  <2>2. SetSync(SessionOf[r], SaturatingSub(read[r], Credit))
    BY <1>6 DEF GoodBoyWrite
  <2>3. UNCHANGED logged
    BY <1>6 DEF GoodBoyWrite, historyVars
  <2>4. QED
    BY <1>4, <2>1, <2>2, <2>3
<1>7. \/ UNCHANGED <<scores, logged>> \/ Tick \/ LogRequestWrite
      \/ \E u \in Sessions : Sweep(u)
      \/ \E r \in Requests : GoodBoyWrite(r)
  <2>1. CASE ConsumerStep
    BY <2>1 DEF ConsumerStep, Recv, LogRequestRead, historyVars
  <2>2. ASSUME NEW r \in Requests, Arrive(r) \/ Solve(r) \/ RequestStep(r)
        PROVE  UNCHANGED <<scores, logged>> \/ GoodBoyWrite(r)
    BY <2>2 DEF Arrive, Solve, RequestStep, RateLimit, GoodBoyRead, Answer, historyVars
  <2>3. QED
    BY <2>1, <2>2 DEF Next, vars, historyVars, Hang
<1>8. QED
  BY <1>1, <1>2, <1>3, <1>5, <1>6, <1>7

\* A request about to write a credit was so before or has just read the score.
LEMMA CreditStep ==
    ASSUME TypeOK, [Next]_vars, NEW r \in Requests, pc'[r] = "write"
    PROVE  \/ pc[r] = "write" /\ read'[r] = read[r] /\ ~GoodBoyWrite(r)
           \/ /\ GoodBoyRead(r) /\ UNCHANGED <<scores, logged>>
              /\ read'[r] = ScoreOf(SessionOf[r])
              /\ past'[SessionOf[r]] # "exact"
<1>1. CASE UNCHANGED <<pc, read>>
  BY <1>1 DEF GoodBoyWrite, Goto, TypeOK
<1>2. ASSUME NEW q \in Requests, q # r, Arrive(q) \/ Solve(q) \/ RequestStep(q)
      PROVE  pc[r] = "write" /\ read'[r] = read[r] /\ ~GoodBoyWrite(r)
  BY <1>2 DEF Arrive, Solve, RequestStep, RateLimit, GoodBoyRead, GoodBoyWrite, Answer, Goto, TypeOK
<1>3. CASE Arrive(r) \/ Solve(r) \/ RateLimit(r) \/ GoodBoyWrite(r) \/ Answer(r)
  BY <1>3 DEF Arrive, Solve, RateLimit, GoodBoyWrite, Answer, Goto, TypeOK
<1>4. CASE GoodBoyRead(r)
  BY <1>4 DEF GoodBoyRead, Goto, Note, ScoreOf, TypeOK
<1>5. QED
  BY <1>1, <1>2, <1>3, <1>4 DEF Next, vars, creditVars, RequestStep, ConsumerStep, Recv,
     LogRequestRead, LogRequestWrite, Tick, Sweep, Hang

\* log_request about to write was so before or has just read the score.
LEMMA CountStep ==
    ASSUME TypeOK, [Next]_vars, consumer_pc' = "write"
    PROVE  /\ UNCHANGED record /\ record \in Record /\ ~LogRequestWrite
           /\ \/ consumer_pc = "write" /\ UNCHANGED counted
              \/ /\ LogRequestRead /\ UNCHANGED <<scores, logged, past>>
                 /\ counted' = ScoreOf(record.session)
<1>1. CASE UNCHANGED <<consumer_pc, record, counted>>
  BY <1>1 DEF LogRequestWrite, TypeOK
<1>2. CASE ConsumerStep
  BY <1>2 DEF ConsumerStep, Recv, LogRequestRead, LogRequestWrite, TypeOK, historyVars
<1>3. QED
  BY <1>1, <1>2 DEF Next, vars, consumerVars, Arrive, Solve, RequestStep, RateLimit, GoodBoyRead,
     GoodBoyWrite, Answer, Tick, Sweep, Hang

\* The history of a session never goes back, and a sweep is remembered.
LEMMA PastStep ==
    ASSUME TypeOK, [Next]_vars, NEW s \in Sessions
    PROVE  /\ past'[s] = "exact" => past[s] = "exact"
           /\ past[s] = "taken" => past'[s] = "taken"
           /\ Sweep(s) => past'[s] = "taken"
<1>1. CASE UNCHANGED past
  <2>1. ~Sweep(s) \/ past'[s] = "taken"
    BY DEF Sweep, TypeOK
  <2>2. QED
    BY <1>1, <2>1
<1>2. ASSUME NEW r \in Requests, GoodBoyRead(r), ~UNCHANGED past
      PROVE  /\ past'[s] = "exact" => past[s] = "exact"
             /\ past[s] = "taken" => past'[s] = "taken"
             /\ Sweep(s) => past'[s] = "taken"
  BY <1>2 DEF GoodBoyRead, Note, Sweep, TypeOK
<1>3. ASSUME NEW u \in Sessions, Sweep(u)
      PROVE  /\ past'[s] = "exact" => past[s] = "exact"
             /\ past[s] = "taken" => past'[s] = "taken"
             /\ Sweep(s) => past'[s] = "taken"
  BY <1>3 DEF Sweep, TypeOK
<1>4. QED
  BY <1>1, <1>2, <1>3 DEF Next, vars, historyVars, Arrive, Solve, RequestStep, RateLimit,
     GoodBoyWrite, Answer, ConsumerStep, Recv, LogRequestRead, LogRequestWrite, Tick, Hang

LEMMA OvercountStep ==
    ASSUME TypeOK, TypeOK', OvercountInv, [Next]_vars
    PROVE  OvercountInv'
<1>1. ASSUME NEW s \in Sessions PROVE ScoreOf(s)' <= logged'[s]
  <2>1. logged[s] \in Score /\ logged'[s] \in Score /\ logged[s] <= logged'[s]
    BY LoggedGrows
  <2>2. CASE ScoreOf(s)' = ScoreOf(s)
    BY <2>1, <2>2, ScoreType DEF OvercountInv, NoOvercount, Score
  <2>3. CASE ScoreOf(s)' = 0
    BY <2>1, <2>3 DEF Score
  <2>4. CASE /\ LogRequestWrite /\ record.session = s /\ ScoreOf(s)' = NextScore
             /\ logged'[s] = SaturatingAdd(logged[s], record.cost)
    <3>1. counted \in Score /\ counted <= logged[s] /\ record.cost \in Nat
      BY <2>4 DEF LogRequestWrite, OvercountInv, Record, TypeOK
    <3>2. SaturatingAdd(counted, record.cost) <= SaturatingAdd(logged[s], record.cost)
      BY <2>1, <3>1, Saturation
    <3>3. QED
      BY <2>4, <3>2 DEF NextScore
  <2>5. ASSUME NEW r \in Requests, GoodBoyWrite(r), SessionOf[r] = s,
               ScoreOf(s)' = SaturatingSub(read[r], Credit)
        PROVE  ScoreOf(s)' <= logged'[s]
    <3>1. read[r] \in Score /\ read[r] <= logged[s]
      BY <2>5 DEF GoodBoyWrite, OvercountInv, TypeOK
    <3>2. /\ SaturatingSub(read[r], Credit) \in Score
          /\ SaturatingSub(read[r], Credit) <= read[r]
      BY <3>1, Saturation
    <3>3. QED
      BY <2>1, <2>5, <3>1, <3>2 DEF Score
  <2>6. QED
    BY <2>2, <2>3, <2>4, <2>5, ScoreStep
<1>2. consumer_pc' = "write" => counted' <= logged'[record'.session]
  <2>1. SUFFICES ASSUME consumer_pc' = "write" PROVE counted' <= logged'[record.session]
    BY CountStep
  <2>2. record.session \in Sessions
    BY <2>1, CountStep DEF Record
  <2>3. /\ logged[record.session] \in Score /\ logged'[record.session] \in Score
        /\ logged[record.session] <= logged'[record.session]
    BY <2>2, LoggedGrows
  <2>4. CASE consumer_pc = "write" /\ UNCHANGED counted
    BY <2>3, <2>4 DEF OvercountInv, TypeOK, Score
  <2>5. CASE UNCHANGED logged /\ counted' = ScoreOf(record.session)
    BY <2>2, <2>5 DEF OvercountInv, NoOvercount
  <2>6. QED
    BY <2>1, <2>4, <2>5, CountStep
<1>3. ASSUME NEW r \in Requests, pc'[r] = "write" PROVE read'[r] <= logged'[SessionOf[r]]
  <2>1. /\ logged[SessionOf[r]] \in Score /\ logged'[SessionOf[r]] \in Score
        /\ logged[SessionOf[r]] <= logged'[SessionOf[r]]
    BY LoggedGrows
  <2>2. CASE pc[r] = "write" /\ read'[r] = read[r]
    BY <2>1, <2>2 DEF OvercountInv, TypeOK, Score
  <2>3. CASE UNCHANGED logged /\ read'[r] = ScoreOf(SessionOf[r])
    BY <2>3 DEF OvercountInv, NoOvercount
  <2>4. QED
    BY <1>3, <2>2, <2>3, CreditStep
<1>4. QED
  BY <1>1, <1>2, <1>3 DEF OvercountInv, NoOvercount

\* However the calls of log_request and good_boy interleave, and whatever expires
\* between them, no answer counts twice: a score is never more than what
\* log_request has added to it.
THEOREM NeverOvercounts == Spec => []NoOvercount
<1>1. Init => TypeOK /\ OvercountInv
  BY InitType DEF Init, OvercountInv, NoOvercount, ScoreOf
<1>2. (TypeOK /\ OvercountInv) /\ [Next]_vars => (TypeOK /\ OvercountInv)'
  BY StepType, OvercountStep
<1>3. TypeOK /\ OvercountInv => NoOvercount
  BY DEF OvercountInv
<1>4. QED
  BY <1>1, <1>2, <1>3, PTL DEF Spec

-----------------------------------------------------------------------------
(* The invariant behind FallsByCreditOnly: there is one credit at a time,  *)
(* what it has read is no more than the score, and what log_request has    *)
(* read is no less, unless the watch task took the score out between.      *)

OneCredit ==
    \A q, r \in Requests :
        pc[q] \in {"credit", "write"} /\ pc[r] \in {"credit", "write"} => q = r

FallInv ==
    /\ OneCredit
    /\ \A r \in Requests : pc[r] = "write" /\ past[SessionOf[r]] # "taken" =>
           read[r] <= ScoreOf(SessionOf[r])
    /\ \A s \in Sessions :
           consumer_pc = "write" /\ record.session = s /\ past[s] # "taken" => ScoreOf(s) <= counted

LEMMA OneCreditStep == ASSUME TypeOK, OneCredit, [Next]_vars PROVE OneCredit'
<1>1. CASE UNCHANGED pc
  BY <1>1 DEF OneCredit
<1>2. ASSUME NEW r \in Requests, Solve(r) PROVE OneCredit'
  BY <1>2 DEF Solve, Goto, OneCredit, TypeOK
<1>3. ASSUME NEW r \in Requests, Arrive(r) \/ RequestStep(r) PROVE OneCredit'
  <2>1. \A q \in Requests : pc'[q] \in {"credit", "write"} => pc[q] \in {"credit", "write"}
    BY <1>3 DEF Arrive, RequestStep, RateLimit, GoodBoyRead, GoodBoyWrite, Answer, Goto, TypeOK
  <2>2. QED
    BY <2>1 DEF OneCredit
<1>4. QED
  BY <1>1, <1>2, <1>3 DEF Next, vars, creditVars, ConsumerStep, Recv, LogRequestRead,
     LogRequestWrite, Tick, Sweep, Hang

\* log_request never writes back less than the score it overwrites.
LEMMA CountRaises ==
    ASSUME TypeOK, FallInv, LogRequestWrite, past[record.session] # "taken"
    PROVE  ScoreOf(record.session) <= NextScore
<1>1. record.session \in Sessions /\ record.cost \in Nat /\ counted \in Score
  BY DEF LogRequestWrite, Record, TypeOK
<1>2. ScoreOf(record.session) <= counted
  BY <1>1 DEF LogRequestWrite, FallInv
<1>3. counted <= NextScore /\ NextScore \in Score
  BY <1>1, Saturation DEF NextScore
<1>4. QED
  BY <1>1, <1>2, <1>3, ScoreType DEF Score

LEMMA ScoreTypeNext ==
    ASSUME TypeOK', NEW s \in Sessions PROVE ScoreOf(s)' \in Score
  BY DEF TypeOK, ScoreOf, Score, Entry

LEMMA FallStep ==
    ASSUME TypeOK, TypeOK', FallInv, [Next]_vars
    PROVE  FallInv'
<1>1. OneCredit'
  BY OneCreditStep DEF FallInv
<1>2. ASSUME NEW r \in Requests, NEW s \in Sessions, s = SessionOf[r],
             pc'[r] = "write", past'[s] # "taken"
      PROVE  read'[r] <= ScoreOf(s)'
  <2>1. past[s] # "taken" /\ ~Sweep(s)
    BY <1>2, PastStep
  <2>2. ScoreOf(s) \in Score /\ ScoreOf(s)' \in Score
    BY ScoreType, ScoreTypeNext
  <2>3. CASE pc[r] = "write" /\ read'[r] = read[r] /\ ~GoodBoyWrite(r)
    <3>1. read[r] \in Score /\ read[r] <= ScoreOf(s)
      BY <1>2, <2>1, <2>3 DEF FallInv, TypeOK
    <3>2. CASE ScoreOf(s)' = ScoreOf(s)
      BY <2>3, <3>1, <3>2
    <3>3. CASE LogRequestWrite /\ record.session = s /\ ScoreOf(s)' = NextScore
      <4>1. ScoreOf(s) <= NextScore
        BY <2>1, <3>3, CountRaises
      <4>2. QED
        BY <2>2, <2>3, <3>1, <3>3, <4>1 DEF Score
    <3>4. ASSUME NEW q \in Requests, GoodBoyWrite(q) PROVE FALSE
      BY <2>3, <3>4 DEF GoodBoyWrite, FallInv, OneCredit
    <3>5. QED
      BY <2>1, <3>2, <3>3, <3>4, ScoreStep
  <2>4. CASE UNCHANGED scores /\ read'[r] = ScoreOf(s)
    BY <2>2, <2>4 DEF ScoreOf, Score
  <2>5. QED
    BY <1>2, <2>3, <2>4, CreditStep
<1>3. ASSUME NEW s \in Sessions, consumer_pc' = "write", record'.session = s, past'[s] # "taken"
      PROVE  ScoreOf(s)' <= counted'
  <2>1. record' = record /\ record.session = s /\ ~LogRequestWrite
    BY <1>3, CountStep
  <2>2. past[s] # "taken" /\ ~Sweep(s)
    BY <1>3, PastStep
  <2>3. ScoreOf(s) \in Score /\ ScoreOf(s)' \in Score
    BY ScoreType, ScoreTypeNext
  <2>4. CASE consumer_pc = "write" /\ UNCHANGED counted
    <3>1. counted \in Score /\ ScoreOf(s) <= counted
      BY <2>1, <2>2, <2>4 DEF FallInv, TypeOK
    <3>2. CASE ScoreOf(s)' = ScoreOf(s)
      BY <2>4, <3>1, <3>2
    <3>3. ASSUME NEW r \in Requests, GoodBoyWrite(r), SessionOf[r] = s,
                 ScoreOf(s)' = SaturatingSub(read[r], Credit)
          PROVE  ScoreOf(s)' <= counted
      <4>1. read[r] \in Score /\ read[r] <= ScoreOf(s)
        BY <2>2, <3>3 DEF GoodBoyWrite, FallInv, TypeOK
      <4>2. SaturatingSub(read[r], Credit) \in Score /\ SaturatingSub(read[r], Credit) <= read[r]
        BY <4>1, Saturation
      <4>3. QED
        BY <2>3, <3>1, <3>3, <4>1, <4>2 DEF Score
    <3>4. QED
      BY <2>1, <2>2, <2>4, <3>2, <3>3, ScoreStep
  <2>5. CASE UNCHANGED scores /\ counted' = ScoreOf(s)
    BY <2>3, <2>5 DEF ScoreOf, Score
  <2>6. QED
    BY <1>3, <2>1, <2>4, <2>5, CountStep
<1>4. QED
  BY <1>1, <1>2, <1>3 DEF FallInv

\* A score that has never expired falls only where a credit is written back, for
\* log_request never writes back less than it finds.
THEOREM FallsOnlyByCredit == Spec => FallsByCreditOnly
<1>1. Init => TypeOK /\ FallInv
  BY InitType DEF Init, FallInv, OneCredit
<1>2. (TypeOK /\ FallInv) /\ [Next]_vars => (TypeOK /\ FallInv)'
  BY StepType, FallStep
<1>3. ASSUME TypeOK, FallInv, [Next]_vars, NEW s \in Sessions,
             past'[s] # "taken", ScoreOf(s)' < ScoreOf(s)
      PROVE  \E r \in Requests : SessionOf[r] = s /\ pc[r] = "write" /\ pc'[r] = "answer"
  <2>1. past[s] # "taken" /\ ~Sweep(s)
    BY <1>3, PastStep
  <2>2. TypeOK'
    BY <1>3, StepType
  <2>3. ScoreOf(s) \in Score /\ ScoreOf(s)' \in Score
    BY <1>3, <2>2, ScoreType, ScoreTypeNext
  <2>4. ~(LogRequestWrite /\ record.session = s /\ ScoreOf(s)' = NextScore)
    <3>1. SUFFICES ASSUME LogRequestWrite, record.session = s, ScoreOf(s)' = NextScore
                   PROVE  FALSE
      OBVIOUS
    <3>2. ScoreOf(s) <= NextScore
      BY <1>3, <2>1, <3>1, CountRaises
    <3>3. QED
      BY <1>3, <2>3, <3>1, <3>2 DEF Score
  <2>5. PICK r \in Requests : GoodBoyWrite(r) /\ SessionOf[r] = s
    BY <1>3, <2>1, <2>3, <2>4, ScoreStep DEF Score
  <2>6. QED
    BY <1>3, <2>5 DEF GoodBoyWrite, Goto, TypeOK
<1>4. TypeOK /\ FallInv /\ [Next]_vars =>
         [\A s \in Sessions :
            past'[s] # "taken" /\ ScoreOf(s)' < ScoreOf(s)
            => \E r \in Requests : SessionOf[r] = s /\ pc[r] = "write" /\ pc'[r] = "answer"]_vars
  BY <1>3
<1>5. QED
  BY <1>1, <1>2, <1>4, PTL DEF Spec, FallsByCreditOnly

-----------------------------------------------------------------------------
(* The invariant behind ExactUnlessCredited: before the first credit and   *)
(* the first expiry nobody but log_request can write the score.            *)

ExactInv ==
    /\ ExactUnlessCredited
    /\ \A s \in Sessions :
           consumer_pc = "write" /\ record.session = s /\ past[s] = "exact" => counted = ScoreOf(s)
    /\ \A r \in Requests : pc[r] = "write" => past[SessionOf[r]] # "exact"

LEMMA ExactStep ==
    ASSUME TypeOK, ExactInv, [Next]_vars
    PROVE  ExactInv'
<1>1. ASSUME NEW s \in Sessions, past'[s] = "exact" PROVE ScoreOf(s)' = logged'[s]
  <2>1. past[s] = "exact" /\ ~Sweep(s)
    BY <1>1, PastStep
  <2>2. \A r \in Requests : GoodBoyWrite(r) => SessionOf[r] # s
    BY <2>1 DEF GoodBoyWrite, ExactInv
  <2>3. ScoreOf(s) = logged[s]
    BY <2>1 DEF ExactInv, ExactUnlessCredited
  <2>4. CASE /\ LogRequestWrite /\ record.session = s /\ ScoreOf(s)' = NextScore
             /\ logged'[s] = SaturatingAdd(logged[s], record.cost)
    BY <2>1, <2>3, <2>4 DEF LogRequestWrite, ExactInv, NextScore
  <2>5. QED
    BY <2>1, <2>2, <2>3, <2>4, ScoreStep
<1>2. ASSUME NEW s \in Sessions, consumer_pc' = "write", record'.session = s, past'[s] = "exact"
      PROVE  counted' = ScoreOf(s)'
  <2>1. record' = record /\ record.session = s /\ ~LogRequestWrite
    BY <1>2, CountStep
  <2>2. past[s] = "exact" /\ ~Sweep(s)
    BY <1>2, PastStep
  <2>3. CASE consumer_pc = "write" /\ UNCHANGED counted
    <3>1. \A r \in Requests : GoodBoyWrite(r) => SessionOf[r] # s
      BY <2>2 DEF GoodBoyWrite, ExactInv
    <3>2. ScoreOf(s)' = ScoreOf(s)
      BY <2>1, <2>2, <3>1, ScoreStep
    <3>3. counted = ScoreOf(s)
      BY <2>1, <2>2, <2>3 DEF ExactInv
    <3>4. QED
      BY <2>3, <3>2, <3>3
  <2>4. CASE UNCHANGED scores /\ counted' = ScoreOf(s)
    BY <2>4 DEF ScoreOf
  <2>5. QED
    BY <1>2, <2>1, <2>3, <2>4, CountStep
<1>3. ASSUME NEW r \in Requests, pc'[r] = "write" PROVE past'[SessionOf[r]] # "exact"
  BY <1>3, CreditStep, PastStep DEF ExactInv
<1>4. QED
  BY <1>1, <1>2, <1>3 DEF ExactInv, ExactUnlessCredited

\* Up to the first credit and the first expiry the score of a session is the sum
\* of everything that was added to it, although it is read and written apart.
THEOREM ExactBeforeCredit == Spec => []ExactUnlessCredited
<1>1. Init => TypeOK /\ ExactInv
  BY InitType DEF Init, ExactInv, ExactUnlessCredited, ScoreOf
<1>2. (TypeOK /\ ExactInv) /\ [Next]_vars => (TypeOK /\ ExactInv)'
  BY StepType, ExactStep
<1>3. TypeOK /\ ExactInv => ExactUnlessCredited
  BY DEF ExactInv
<1>4. QED
  BY <1>1, <1>2, <1>3, PTL DEF Spec
=============================================================================
