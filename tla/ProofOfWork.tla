---------------------------- MODULE ProofOfWork ----------------------------
(***************************************************************************)
(* The proof-of-work module (ksbh-modules/proof-of-work): a GET of a       *)
(* session that has not solved a challenge within a day is answered with a *)
(* page, which shows a challenge signed for the session and a difficulty   *)
(* that grows with the score of the session; the browser solves it and     *)
(* posts the solution.  The metrics key is the session.                    *)
(*                                                                         *)
(* The calls of the module exclude each other, but between the page and    *)
(* the solution, and between the steps of a call, the metrics service      *)
(* raises the score, the clock runs and the store loses or revives values. *)
(* A hash is its number of leading zeros.                                  *)
(***************************************************************************)
EXTENDS ModuleSession

CONSTANTS
    Difficulty,       \* difficulty
    OneDay,           \* ONE_DAY
    ChallengeTtl,     \* the 300 seconds of a challenge
    MaxScore,         \* bound: the score, in steps of Penalty
    Penalty,          \* by how much a request may raise it
    MaxChallenges     \* bound: different challenges that are sent

ASSUME PowAssumption ==
    /\ Difficulty \in Nat /\ OneDay \in Nat /\ ChallengeTtl \in Nat
    /\ MaxScore \in Nat /\ Penalty \in Nat \ {0} /\ MaxChallenges \in Nat

VARIABLES
    pow_call,     \* the call in progress, or None
    score,        \* session -> its score
    challenges,   \* the pages sent: session, iat and the difficulty shown
    solved,       \* session -> when its last accepted solution was stored, or None
    reply         \* the answer of the last call, until the next one begins

powVars == <<pow_call, score, challenges, solved, reply>>
pow_vars == <<clock, storeVars, powVars>>

Instants == 0..MaxTime
ActualDifficulty(s) == Difficulty + score[s] \div 100
Shown == Difficulty..(Difficulty + MaxScore \div 100)
Challenge == [session : Sessions, iat : Instants]
Nonces == {0, 1}    \* the first that the page tries, and any other
PowCall ==
    [session : Sessions, get : BOOLEAN, actual_difficulty : Shown, now : Instants,
     step : {"load", "page"}]
    \cup [session : Sessions, challenge : Challenge, nonce : Nonces,
          zeros : 0..(Difficulty + MaxScore), step : {"verify", "store"}]

PowInit ==
    /\ pow_call = None
    /\ score = [s \in Sessions |-> 0]
    /\ challenges = {}
    /\ solved = [s \in Sessions |-> None]
    /\ reply = "none"

-----------------------------------------------------------------------------
Reply(a) == reply' = a /\ pow_call' = None

\* process reads the score, then the clock.
Visit(s, get) ==
    /\ pow_call = None
    /\ pow_call' = [session |-> s, get |-> get, actual_difficulty |-> ActualDifficulty(s),
                    now |-> clock, step |-> "load"]
    /\ reply' = "none"
    /\ UNCHANGED <<clock, storeVars, score, challenges, solved>>

\* Mutant: a stored solution is taken to be recent.
RecentWhileStored(v) == v # None

Recent(v) == v # None /\ pow_call.now <= v + OneDay

ReadComplete ==
    /\ pow_call # None /\ pow_call.step = "load"
    /\ \/ \E v \in Copies(pow_call.session) \cup {None} :
             /\ Load(pow_call.session, v)
             /\ IF Recent(v) \/ ~pow_call.get
                THEN Reply("pass")
                ELSE pow_call' = [pow_call EXCEPT !.step = "page"] /\ UNCHANGED reply
       \/ LoadWedges(pow_call.session) /\ UNCHANGED <<pow_call, reply>>
    /\ UNCHANGED <<clock, score, challenges, solved>>

\* The page is signed for the session and the moment it is made.
SendPage ==
    /\ pow_call # None /\ pow_call.step = "page"
    /\ challenges' = challenges \cup
           {[session |-> pow_call.session, iat |-> clock, shown |-> pow_call.actual_difficulty]}
    /\ Cardinality(challenges') <= MaxChallenges
    /\ Reply("page")
    /\ UNCHANGED <<clock, storeVars, score, solved>>

\* A solution of a challenge that was sent is posted, for the session itself or
\* after the browser has got another, once or several times.  The page counts its
\* nonces from 0 on.
Post(s, c, nonce, zeros) ==
    /\ pow_call = None
    /\ pow_call' = [session |-> s, challenge |-> [session |-> c.session, iat |-> c.iat],
                    nonce |-> nonce, zeros |-> zeros, step |-> "verify"]
    /\ reply' = "none"
    /\ UNCHANGED <<clock, storeVars, score, challenges, solved>>

Filled(p) == p.nonce # 0
Signed(p) == p.challenge.session = p.session
InTime(p) == clock <= p.challenge.iat + ChallengeTtl

\* Mutant: the solution has to meet the difficulty of the present score.
ProvenNow(p) == p.zeros >= ActualDifficulty(p.session)

Proven(p) == p.zeros >= Difficulty

\* Mutant: the subtraction does not saturate.
SparedBelowZero(n) == n - 50

\* saturating_sub(50)
Spared(n) == IF n > 50 THEN n - 50 ELSE 0

\* handle_pow_verification: the checks and good_boy.
Verify ==
    /\ pow_call # None /\ pow_call.step = "verify"
    /\ LET p == pow_call
           s == p.session
       IN  IF Filled(p) /\ Signed(p) /\ InTime(p) /\ Proven(p)
           THEN /\ score' = [score EXCEPT ![s] = Spared(@)]
                /\ pow_call' = [p EXCEPT !.step = "store"]
                /\ UNCHANGED reply
           ELSE Reply("refused") /\ UNCHANGED score
    /\ UNCHANGED <<clock, storeVars, challenges, solved>>

\* challenge_complete is the time of the save; without Redis the answer is an
\* error, although the value is in memory.
StoreComplete ==
    /\ pow_call # None /\ pow_call.step = "store"
    /\ \E ok \in BOOLEAN :
          /\ Save(pow_call.session, clock, OneDay, ok)
          /\ Reply(IF ok THEN "redirect" ELSE "failed")
    /\ solved' = [solved EXCEPT ![pow_call.session] = clock]
    /\ UNCHANGED <<clock, score, challenges>>

-----------------------------------------------------------------------------
\* The metrics service raises the score of a session (SessionScore), or its entry
\* leaves memory and get_score finds none.
ScoreChanges(s) ==
    /\ \/ score[s] + Penalty <= MaxScore /\ score' = [score EXCEPT ![s] = @ + Penalty]
       \/ score[s] # 0 /\ score' = [score EXCEPT ![s] = 0]
    /\ UNCHANGED <<clock, storeVars, pow_call, challenges, solved, reply>>

PowRestart ==
    /\ StoreRestart
    /\ pow_call' = None
    /\ reply' = "none"
    /\ UNCHANGED <<clock, score, challenges, solved>>

PowNext ==
    \/ \E s \in Sessions, get \in BOOLEAN : Visit(s, get)
    \/ ReadComplete
    \/ SendPage
    \/ \E s \in Sessions, c \in challenges, nonce \in Nonces : \E zeros \in {0, c.shown} :
          Post(s, c, nonce, zeros)
    \/ Verify
    \/ StoreComplete
    \/ \E s \in Sessions : ScoreChanges(s)
    \/ (Sweep \/ Flush) /\ UNCHANGED <<clock, powVars>>
    \/ Tick /\ UNCHANGED <<storeVars, powVars>>
    \/ PowRestart

PowSpec == StoreInit /\ PowInit /\ [][PowNext]_pow_vars

-----------------------------------------------------------------------------
PowTypeOK ==
    /\ clock \in Instants
    /\ \A s \in Sessions : Copies(s) \subseteq Instants
    /\ pow_call \in PowCall \cup {None}
    /\ score \in [Sessions -> 0..MaxScore]
    /\ challenges \subseteq [session : Sessions, iat : Instants, shown : Shown]
    /\ solved \in [Sessions -> Instants \cup {None}]

Replied(kind) == pow_call # None /\ pow_call' = None /\ reply' = kind

\* A GET passes only within a day of a solution that its session posted, however
\* long the store has kept or revived the value (process, lines 49-72).
PassesAreEarned ==
    [][(Replied("pass") /\ pow_call.get) =>
          /\ solved[pow_call.session] # None
          /\ pow_call.now <= solved[pow_call.session] + OneDay]_pow_vars

\* The solution of the call has the difficulty that the page showed, and is posted by
\* the session that the page was made for, in time.
SolvedAsShown ==
    \E c \in challenges :
       /\ c.session = pow_call.session
       /\ pow_call.challenge = [session |-> c.session, iat |-> c.iat]
       /\ pow_call.zeros >= c.shown
       /\ clock <= c.iat + ChallengeTtl

\* The verification has found nothing wrong with the solution.
Accepted ==
    /\ pow_call # None /\ pow_call.step = "verify"
    /\ pow_call' # None /\ pow_call'.step = "store"

\* Of the solutions of a challenge, solved as it was shown, those with nonce 0 are
\* refused and no other, whatever has become of the score since (lines 42-43, 200 and
\* 253).  The page tries 0 first, and takes it for a solution like any other
\* (templates/challenge.html 53 and 122).
OnlyZeroIsRefused ==
    [][ /\ (Replied("refused") /\ SolvedAsShown) => pow_call.nonce = 0
        /\ Accepted => pow_call.nonce # 0 ]_pow_vars

=============================================================================
