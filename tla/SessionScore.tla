---------------------------- MODULE SessionScore ----------------------------
(***************************************************************************)
(* The score of a session: the metrics service counts each answer          *)
(* (Metrics::log_request), the proof-of-work module has credit taken off   *)
(* (host_metrics_good_boy) and the rate limit module compares the score    *)
(* with its threshold (host_metrics_get_score).                            *)
(*                                                                         *)
(* log_request and good_boy read the score, compute and write it back; the *)
(* store guards the read and the write, but not what is between them.      *)
(* There is one consumer of the channel, and one credit at a time because  *)
(* call_module owns the entry of the proof-of-work module meanwhile.       *)
(*                                                                         *)
(* Scores are only ever read from memory (get_hot_sync), so a restart is   *)
(* the initial state.  An expired score that is read before the watch task *)
(* has taken it out hangs its reader, see SessionStore.                    *)
(***************************************************************************)
EXTENDS Integers, Sequences

CONSTANTS
    Sessions,    \* session ids
    Requests,    \* requests under way; each is reused for the client's next one
    SessionOf,   \* the session of the client of a request
    MaxScore,    \* the largest u64
    Threshold,   \* score_threshold
    Credit,      \* what good_boy takes off: 50
    Costs,       \* calculate_score() of an answer, by what became of the request
    Ttl,         \* RedisHashMap::ttl, in ticks
    Capacity,    \* of the channel to the metrics service
    MaySolve,    \* TRUE if clients solve challenges
    MayExpire,   \* TRUE if time passes for the entries of the store
    Absent       \* no score, no record

Verdicts == {"served", "limited", "solved"}
Score == 0..MaxScore
Entry == [val : Score, left : 0..Ttl]
Record == [session : Sessions, cost : Nat]

ASSUME SessionScoreAssumption ==
    /\ SessionOf \in [Requests -> Sessions]
    /\ MaxScore \in Nat
    /\ Threshold \in Nat
    /\ Credit \in Nat
    /\ Costs \in [Verdicts -> SUBSET Nat]
    /\ Ttl \in Nat \ {0}
    /\ Capacity \in Nat \ {0}
    /\ MaySolve \in BOOLEAN
    /\ MayExpire \in BOOLEAN
    /\ Absent \notin Entry \cup Record

VARIABLES
    scores,       \* the store in memory: session -> Entry or Absent
    hung,         \* the bucket of the session is lost to a reader of an expired entry
    pc,           \* where a request stands
    verdict,      \* what became of the last request
    read,         \* the score good_boy has read
    channel,      \* the records on their way to the metrics service
    consumer_pc,  \* where log_request stands
    record,       \* the record it counts, or Absent
    counted,      \* the score it has read
    logged,       \* history: what log_request has added to a session in all
    past          \* history: "exact", then "credited", then "taken" by the watch task

creditVars == <<pc, verdict, read>>
consumerVars == <<consumer_pc, record, counted>>
historyVars == <<logged, past>>
vars == <<scores, hung, creditVars, channel, consumerVars, historyVars>>

TypeOK ==
    /\ scores \in [Sessions -> Entry \cup {Absent}]
    /\ hung \in [Sessions -> BOOLEAN]
    /\ pc \in [Requests -> {"idle", "limit", "credit", "write", "answer"}]
    /\ verdict \in [Requests -> Verdicts \cup {"none"}]
    /\ \A r \in Requests : pc[r] = "answer" => verdict[r] # "none"
    /\ read \in [Requests -> Score]
    /\ channel \in Seq(Record)
    /\ consumer_pc \in {"recv", "read", "write"}
    /\ record \in Record \cup {Absent}
    /\ consumer_pc # "recv" => record # Absent
    /\ counted \in Score
    /\ logged \in [Sessions -> Score]
    /\ past \in [Sessions -> {"exact", "credited", "taken"}]

Init ==
    /\ scores = [s \in Sessions |-> Absent]
    /\ hung = [s \in Sessions |-> FALSE]
    /\ pc = [r \in Requests |-> "idle"]
    /\ verdict = [r \in Requests |-> "none"]
    /\ read = [r \in Requests |-> 0]
    /\ channel = <<>>
    /\ consumer_pc = "recv"
    /\ record = Absent
    /\ counted = 0
    /\ logged = [s \in Sessions |-> 0]
    /\ past = [s \in Sessions |-> "exact"]

-----------------------------------------------------------------------------
(* Helpers.                                                                *)

UncheckedAdd(x, y) == x + y                            \* mutant: more than a u64 holds
SaturatingAdd(x, y) == IF x + y > MaxScore THEN MaxScore ELSE x + y

WrappingSub(x, y) == (x + MaxScore + 1 - y) % (MaxScore + 1)   \* mutant: below 0 it wraps
SaturatingSub(x, y) == IF x < y THEN 0 ELSE x - y

Expired(s) == scores[s] # Absent /\ scores[s].left = 0
Readable(s) == ~hung[s] /\ ~Expired(s)

\* get_score: no entry, or one that cannot be read as a number, is 0.
ScoreOf(s) == IF scores[s] = Absent THEN 0 ELSE scores[s].val

\* set_sync of the store.
SetSync(s, v) == scores' = [scores EXCEPT ![s] = [val |-> v, left |-> Ttl]]

Goto(r, at) == pc' = [pc EXCEPT ![r] = at]
Decide(r, v) == verdict' = [verdict EXCEPT ![r] = v]
Note(s, what) == past' = [past EXCEPT ![s] = IF @ = "taken" THEN @ ELSE what]

-----------------------------------------------------------------------------
(* The requests and their modules.                                         *)

\* The next request of a client, on a route with the rate limit module.
Arrive(r) ==
    /\ pc[r] = "idle"
    /\ Goto(r, "limit")
    /\ Decide(r, "none")
    /\ UNCHANGED <<scores, hung, read, channel, consumerVars, historyVars>>

\* The rate limit module: 429 above the threshold.
RateLimit(r) ==
    /\ pc[r] = "limit"
    /\ Readable(SessionOf[r])
    /\ Decide(r, IF ScoreOf(SessionOf[r]) > Threshold THEN "limited" ELSE "served")
    /\ Goto(r, "answer")
    /\ UNCHANGED <<scores, hung, read, channel, consumerVars, historyVars>>

\* The client sends a proof that holds, and the call owns the module's entry.
Solve(r) ==
    /\ MaySolve
    /\ pc[r] = "idle"
    /\ \A q \in Requests : pc[q] \notin {"credit", "write"}
    /\ Goto(r, "credit")
    /\ Decide(r, "none")
    /\ UNCHANGED <<scores, hung, read, channel, consumerVars, historyVars>>

\* good_boy reads the score; without one there is nothing to take off.
GoodBoyRead(r) ==
    /\ pc[r] = "credit"
    /\ LET s == SessionOf[r] IN
       /\ Readable(s)
       /\ \/ /\ scores[s] # Absent
             /\ read' = [read EXCEPT ![r] = scores[s].val]
             /\ Note(s, "credited")
             /\ Goto(r, "write")
             /\ UNCHANGED verdict
          \/ /\ scores[s] = Absent
             /\ Decide(r, "solved")
             /\ Goto(r, "answer")
             /\ UNCHANGED <<read, past>>
    /\ UNCHANGED <<scores, hung, channel, consumerVars, logged>>

GoodBoyWrite(r) ==
    /\ pc[r] = "write"
    /\ ~hung[SessionOf[r]]
    /\ SetSync(SessionOf[r], SaturatingSub(read[r], Credit))
    /\ Decide(r, "solved")
    /\ read' = [read EXCEPT ![r] = 0]
    /\ Goto(r, "answer")
    /\ UNCHANGED <<hung, channel, consumerVars, historyVars>>

\* logging: the answer's record waits for a place in the channel; an answer that
\* could not be written leaves none.
Answer(r) ==
    /\ pc[r] = "answer"
    /\ \/ /\ Len(channel) < Capacity
          /\ \E c \in Costs[verdict[r]] :
                channel' = Append(channel, [session |-> SessionOf[r], cost |-> c])
       \/ UNCHANGED channel
    /\ Goto(r, "idle")
    /\ UNCHANGED <<scores, hung, verdict, read, consumerVars, historyVars>>

RequestStep(r) == RateLimit(r) \/ GoodBoyRead(r) \/ GoodBoyWrite(r) \/ Answer(r)

-----------------------------------------------------------------------------
(* The metrics service.                                                    *)

Recv ==
    /\ consumer_pc = "recv"
    /\ channel # <<>>
    /\ record' = Head(channel)
    /\ channel' = Tail(channel)
    /\ consumer_pc' = "read"
    /\ UNCHANGED <<scores, hung, creditVars, counted, historyVars>>

LogRequestRead ==
    /\ consumer_pc = "read"
    /\ Readable(record.session)
    /\ counted' = ScoreOf(record.session)
    /\ consumer_pc' = "write"
    /\ UNCHANGED <<scores, hung, creditVars, channel, record, historyVars>>

\* What log_request writes back.
FromScratch == record.cost                             \* mutant: what was read is not used
Wrapped == (counted + record.cost) % (MaxScore + 1)    \* mutant: the sum wraps around
NextScore == SaturatingAdd(counted, record.cost)

LogRequestWrite ==
    /\ consumer_pc = "write"
    /\ LET s == record.session IN
       /\ ~hung[s]
       /\ SetSync(s, NextScore)
       /\ logged' = [logged EXCEPT ![s] = SaturatingAdd(@, record.cost)]
    /\ consumer_pc' = "recv"
    /\ record' = Absent
    /\ counted' = 0
    /\ UNCHANGED <<hung, creditVars, channel, past>>

ConsumerStep == Recv \/ LogRequestRead \/ LogRequestWrite

-----------------------------------------------------------------------------
(* The store.                                                              *)

Tick ==
    /\ MayExpire
    /\ scores' = [s \in Sessions |->
           IF scores[s] # Absent /\ scores[s].left > 0
           THEN [scores[s] EXCEPT !.left = @ - 1] ELSE scores[s]]
    /\ UNCHANGED <<hung, creditVars, channel, consumerVars, historyVars>>

\* The watch task takes an expired score to Redis, from where nobody reads it.
Sweep(s) ==
    /\ Expired(s) /\ ~hung[s]
    /\ scores' = [scores EXCEPT ![s] = Absent]
    /\ past' = [past EXCEPT ![s] = "taken"]
    /\ UNCHANGED <<hung, creditVars, channel, consumerVars, logged>>

\* A reader comes before the watch task: it and the bucket hang.
Hang(s) ==
    /\ Expired(s) /\ ~hung[s]
    /\ \/ \E r \in Requests : SessionOf[r] = s /\ pc[r] \in {"limit", "credit"}
       \/ consumer_pc = "read" /\ record.session = s
    /\ hung' = [hung EXCEPT ![s] = TRUE]
    /\ UNCHANGED <<scores, creditVars, channel, consumerVars, historyVars>>

Next ==
    \/ \E r \in Requests : Arrive(r) \/ Solve(r) \/ RequestStep(r)
    \/ ConsumerStep
    \/ Tick
    \/ \E s \in Sessions : Sweep(s) \/ Hang(s)

Spec == Init /\ [][Next]_vars

\* Requests and the metrics service run, and clients come back.
FairSpec ==
    /\ Spec
    /\ \A r \in Requests : WF_vars(RequestStep(r)) /\ WF_vars(Arrive(r))
    /\ WF_vars(ConsumerStep)

-----------------------------------------------------------------------------
(* Properties.                                                             *)

\* Whatever credits and expiry do to it between a read and a write, a score
\* never exceeds what log_request has added for that session: no answer counts
\* twice (metrics/mod.rs 333-347, host_functions.rs 315-322).
NoOvercount == \A s \in Sessions : ScoreOf(s) <= logged[s]

\* An answer is lost from a score only by a credit or by expiry: as long as
\* neither has happened the score is the sum of all that was added, although
\* log_request is not atomic (services/metrics/mod.rs has one consumer).
ExactUnlessCredited ==
    \A s \in Sessions : past[s] = "exact" => ScoreOf(s) = logged[s]

\* Until its first expiry a score falls only where a credit is written, never
\* because log_request writes back a value that has become old.
FallsByCreditOnly ==
    [][\A s \in Sessions :
          past'[s] # "taken" /\ ScoreOf(s)' < ScoreOf(s)
          => \E r \in Requests : SessionOf[r] = s /\ pc[r] = "write" /\ pc'[r] = "answer"]_vars

\* Violated.  The reply 429 says "Retry-After: 60" (rate-limit/src/lib.rs 17): a
\* client that was turned away and comes back is served again one day.
LimitIsLifted ==
    \A r \in Requests : verdict[r] = "limited" ~> verdict[r] = "served"

=============================================================================
