---------------------------- MODULE Login_proofs ----------------------------
(***************************************************************************)
(* A request passes the oidc module only within the ttl of a grant to its  *)
(* session, a GET passes the proof-of-work module only within a day of a   *)
(* solution of its session, and a solution of the page as it was shown is  *)
(* accepted; a login lasts its ttl and the newest flow can be completed:   *)
(* for every number of sessions, pages, flows and challenges, every        *)
(* difficulty and all ttls, but for what NewestFlowsComplete assumes.      *)
(*                                                                         *)
(* The store may return any value a session ever had, so the invariants    *)
(* behind what may never happen are about every copy it keeps and about    *)
(* what a call has loaded; those behind what must still be there are about *)
(* the entry in memory.                                                    *)
(***************************************************************************)
EXTENDS Login, TLAPS

-----------------------------------------------------------------------------
(* What an operation of the store does to the copies it has of the values  *)
(* of a session: only a save adds one, and a read returns one.  DOMAIN hot *)
(* and DOMAIN cold stand for the types of these maps.                      *)

Maps == DOMAIN hot = Sessions /\ DOMAIN cold = Sessions

NothingNew == \A s \in Sessions : Copies(s)' \subseteq Copies(s)

\* A read returns nothing or a copy of a value of its session, and makes none.
LEMMA LoadCopies ==
    ASSUME Maps, NEW s \in Sessions, NEW v, Load(s, v)
    PROVE  Maps' /\ NothingNew /\ (v = None \/ v \in Copies(s))
<1>1. Maps'
  BY DEF Maps, Load
<1>2. v = None \/ v \in Copies(s)
  BY DEF Load, Live, Copies
<1>3. NothingNew
  <2> SUFFICES ASSUME NEW t \in Sessions, NEW w \in Copies(t)' PROVE w \in Copies(t)
    BY DEF NothingNew
  <2>1. cold' = cold /\ flushing' = flushing
    BY DEF Load
  <2>2. CASE hot' = hot
    BY <2>1, <2>2 DEF Copies
  <2>3. CASE hot' = [hot EXCEPT ![s] = Copy(v, StoreTtl)] /\ v = cold[s].value /\ Live(cold[s])
    BY <2>1, <2>3 DEF Copies, Maps, Copy, Live
  <2> QED BY <2>2, <2>3 DEF Load
<1> QED BY <1>1, <1>2, <1>3

\* A read that never returns changes no copy.
LEMMA WedgeCopies ==
    ASSUME Maps, NEW s \in Sessions, LoadWedges(s)
    PROVE  Maps' /\ NothingNew
BY DEF Maps, LoadWedges, NothingNew, Copies

\* A save adds copies of its value to its session only.
LEMMA SaveCopies ==
    ASSUME Maps, NEW s \in Sessions, NEW v, NEW ttl, NEW ok, Save(s, v, ttl, ok)
    PROVE  /\ Maps'
           /\ \A t \in Sessions : \A w \in Copies(t)' : w \in Copies(t) \/ (t = s /\ w = v)
<1>1. Maps'
  BY DEF Maps, Save
<1>2. ASSUME NEW t \in Sessions, NEW w \in Copies(t)'
      PROVE  w \in Copies(t) \/ (t = s /\ w = v)
  <2>1. flushing' = flushing
    BY DEF Save
  <2>2. CASE t = s
    BY <2>1, <2>2 DEF Save, Copies, Copy, Maps
  <2>3. CASE t # s
    BY <2>1, <2>3 DEF Save, Copies, Maps
  <2> QED BY <2>2, <2>3
<1> QED BY <1>1, <1>2

\* The watch task and a restart make no copy of a value under another session.
LEMMA SweepCopies ==
    ASSUME Maps, Sweep
    PROVE  Maps' /\ NothingNew
<1>1. Maps'
  BY DEF Maps, Sweep
<1>2. ASSUME NEW t \in Sessions, NEW w \in Copies(t)' PROVE w \in Copies(t)
  <2>1. cold' = cold
    BY DEF Sweep
  <2>2. CASE \E e \in {x \in {hot'[t], cold'[t]} : x # None} : w = e.value
    BY <2>1, <2>2 DEF Sweep, Copies, Maps
  <2>3. CASE \E e \in {x \in flushing' : x.session = t} : w = e.value
    <3>1. PICK e \in flushing' : e.session = t /\ w = e.value
      BY <2>3
    <3>2. PICK u \in Sessions : Expired(hot[u]) /\ e = [session |-> u, value |-> hot[u].value]
      BY <3>1 DEF Sweep
    <3>3. u = t /\ w = hot[t].value /\ hot[t] # None
      BY <3>1, <3>2 DEF Expired
    <3> QED BY <3>3 DEF Copies
  <2> QED BY <2>2, <2>3 DEF Copies
<1> QED BY <1>1, <1>2 DEF NothingNew

LEMMA FlushCopies ==
    ASSUME Maps, Flush
    PROVE  Maps' /\ NothingNew
<1>1. PICK e \in flushing :
          /\ flushing' = flushing \ {e}
          /\ cold' = [cold EXCEPT ![e.session] = Copy(e.value, RedisTtl)] \/ cold' = cold
          /\ hot' = hot
  BY DEF Flush
<1>2. Maps'
  BY <1>1 DEF Maps
<1>3. ASSUME NEW t \in Sessions, NEW w \in Copies(t)' PROVE w \in Copies(t)
  <2>1. CASE cold' = cold
    BY <1>1, <2>1 DEF Copies
  <2>2. CASE cold' = [cold EXCEPT ![e.session] = Copy(e.value, RedisTtl)] /\ e.session = t
    BY <1>1, <2>2 DEF Copies, Copy, Maps
  <2>3. CASE cold' = [cold EXCEPT ![e.session] = Copy(e.value, RedisTtl)] /\ e.session # t
    BY <1>1, <2>3 DEF Copies, Maps
  <2> QED BY <1>1, <2>1, <2>2, <2>3
<1> QED BY <1>2, <1>3 DEF NothingNew

LEMMA RestartCopies ==
    ASSUME Maps, StoreRestart
    PROVE  Maps' /\ NothingNew
BY DEF Maps, StoreRestart, NothingNew, Copies

LEMMA SameCopies ==
    ASSUME Maps, UNCHANGED storeVars
    PROVE  Maps' /\ NothingNew
BY DEF Maps, storeVars, NothingNew, Copies

-----------------------------------------------------------------------------
(* The oidc module: the time of a login is never later than the last grant.*)
(* It holds because the clock is read before the provider is asked.        *)

\* The data claim no login that is later than the grant at time t.
Backed(t, data) ==
    data.oidc_complete # None =>
        /\ t # None
        /\ data.oidc_complete \in Nat
        /\ data.oidc_complete <= t

GrantsInv == \A s \in Sessions : granted[s] # None => granted[s] \in Nat /\ granted[s] <= clock

CopiesInv == \A s \in Sessions : \A v \in Copies(s) : Backed(granted[s], v)

CallFields == {"session", "uri", "upgrade", "now", "step", "data", "to"}

CallInv ==
    call # None =>
        /\ DOMAIN call = CallFields
        /\ answer = <<"none">>
        /\ call.session \in Sessions
        /\ call.now \in Nat /\ call.now <= clock
        /\ Backed(granted[call.session], call.data)
        /\ call.step = "save" => granted[call.session] # None /\ call.now <= granted[call.session]

IInv ==
    /\ Maps
    /\ DOMAIN granted = Sessions
    /\ clock \in Nat
    /\ GrantsInv
    /\ CopiesInv
    /\ CallInv

LEMMA IInvInit == StoreInit /\ OidcInit => IInv
BY DEF StoreInit, OidcInit, IInv, Maps, GrantsInv, CopiesInv, CallInv, Copies

\* Backed survives a step that keeps or renews the grant.
LEMMA BackedStays ==
    ASSUME IInv, NEW s \in Sessions, NEW v, Backed(granted[s], v),
           granted' = granted \/ \E t : Grant(t)
    PROVE  Backed(granted'[s], v)
<1>1. CASE granted' = granted
  BY <1>1 DEF Backed
<1>2. ASSUME NEW t, Grant(t) PROVE Backed(granted'[s], v)
  <2>1. granted'[s] = granted[s] \/ granted'[s] = clock
    BY <1>2 DEF Grant, IInv
  <2>2. CASE granted'[s] = granted[s]
    BY <2>2 DEF Backed
  <2>3. CASE granted'[s] = clock
    <3>1. clock # None
      BY SessionAssumption DEF IInv
    <3> QED BY <2>3, <3>1 DEF Backed, IInv, GrantsInv
  <2> QED BY <2>1, <2>2, <2>3
<1> QED BY <1>1, <1>2

LEMMA GrantsStay ==
    ASSUME IInv, granted' = granted \/ \E t : Grant(t), clock' = clock
    PROVE  DOMAIN granted' = Sessions /\ clock' \in Nat /\ GrantsInv'
BY DEF IInv, GrantsInv, Grant

\* A step that makes no new copy keeps what is said of the copies.
LEMMA CopiesStay ==
    ASSUME IInv, NothingNew, granted' = granted \/ \E t : Grant(t)
    PROVE  CopiesInv'
<1> SUFFICES ASSUME NEW s \in Sessions, NEW v \in Copies(s)' PROVE Backed(granted'[s], v)
  BY DEF CopiesInv
<1>1. v \in Copies(s) /\ Backed(granted[s], v)
  BY DEF NothingNew, IInv, CopiesInv
<1> QED BY <1>1, BackedStays

\* A save of data that the last grant backs keeps what is said of the copies.
LEMMA SaveKeeps ==
    ASSUME IInv, NEW s \in Sessions, NEW v, NEW ttl, NEW ok, Save(s, v, ttl, ok),
           granted' = granted \/ \E t : Grant(t),
           Backed(granted'[s], v)
    PROVE  Maps' /\ CopiesInv'
<1>1. Maps' /\ \A t \in Sessions : \A w \in Copies(t)' : w \in Copies(t) \/ (t = s /\ w = v)
  BY SaveCopies DEF IInv
<1> SUFFICES ASSUME NEW t \in Sessions, NEW w \in Copies(t)' PROVE Backed(granted'[t], w)
  BY <1>1 DEF CopiesInv
<1>2. CASE w \in Copies(t)
  BY <1>2, BackedStays DEF IInv, CopiesInv
<1>3. CASE t = s /\ w = v
  BY <1>3
<1> QED BY <1>1, <1>2, <1>3

\* A call that goes on keeps its session and its clock, and has not passed.
LEMMA GoToKeeps ==
    ASSUME IInv, call # None, NEW step, NEW data, NEW to, GoTo(step, data, to),
           clock' = clock, Backed(granted'[call.session], data),
           step = "save" => granted'[call.session] # None /\ call.now <= granted'[call.session]
    PROVE  CallInv' /\ ~Answered("pass")
<1>1. /\ DOMAIN call' = CallFields
      /\ call'.session = call.session /\ call'.now = call.now
      /\ call'.data = data /\ call'.step = step
  BY DEF GoTo, CallInv, IInv, CallFields
<1>2. CASE call' # None
  BY <1>1, <1>2 DEF GoTo, CallInv, IInv, Backed, Answered
<1>3. CASE call' = None
  BY <1>1, <1>3 DEF CallInv, IInv, GoTo, Answered
<1> QED BY <1>2, <1>3

\* What follows the load keeps the data loaded, and passes only a valid login.
LEMMA DispatchKeeps ==
    ASSUME IInv, call # None, NEW data, Backed(granted[call.session], data), Dispatch(data),
           call.step = "load", granted' = granted, clock' = clock
    PROVE  /\ CallInv'
           /\ Answered("pass") => /\ granted[call.session] # None
                                  /\ call.now < granted[call.session] + SessionTtl
<1>1. CASE Valid(data) /\ Answer(<<"pass">>)
  BY <1>1, OidcAssumption DEF Valid, Answer, CallInv, IInv, Backed, GrantsInv, Answered
<1>2. ASSUME NEW a, a # "pass", Answer(<<a>>)
      PROVE  CallInv' /\ ~Answered("pass")
  BY <1>2 DEF Answer, CallInv, Answered
<1>3. ASSUME NEW step, NEW to, GoTo(step, data, to), step # "save"
      PROVE  CallInv' /\ ~Answered("pass")
  <2>1. Backed(granted'[call.session], data)
    OBVIOUS
  <2> QED BY <1>3, <2>1, GoToKeeps
<1>4. \/ Valid(data) /\ Answer(<<"pass">>)
      \/ Answer(<<"unauthorized">>)
      \/ Answer(<<"bad">>)
      \/ \E step \in {"refresh", "authorize", "exchange"} : \E to : GoTo(step, data, to)
  BY DEF Dispatch, Callback
<1> QED BY <1>1, <1>2, <1>3, <1>4

\* What PassesWereGranted says of one step.
PassIsGranted ==
    Answered("pass") =>
        /\ granted[call.session] # None
        /\ call.now < granted[call.session] + SessionTtl

LEMMA IInvRequest ==
    ASSUME IInv, NEW s \in Sessions, NEW uri, NEW upgrade, Request(s, uri, upgrade)
    PROVE  IInv' /\ PassIsGranted
<1>1. Maps' /\ NothingNew
  BY SameCopies DEF IInv, Request
<1>2. CopiesInv'
  BY <1>1, CopiesStay DEF Request
<1>3. DOMAIN granted' = Sessions /\ clock' \in Nat /\ GrantsInv'
  BY GrantsStay DEF Request
<1>4. CallInv'
  BY DEF Request, CallInv, CallFields, IInv, Backed, NoData
<1>5. PassIsGranted
  BY DEF Request, PassIsGranted, Answered
<1> QED BY <1>1, <1>2, <1>3, <1>4, <1>5 DEF IInv

LEMMA IInvLoad ==
    ASSUME IInv, LoadSession
    PROVE  IInv' /\ PassIsGranted
<1>1. call.session \in Sessions /\ call # None
  BY DEF LoadSession, IInv, CallInv
<1>2. DOMAIN granted' = Sessions /\ clock' \in Nat /\ GrantsInv'
  BY GrantsStay DEF LoadSession
<1>3. ASSUME NEW v \in Copies(call.session) \cup {None}, Load(call.session, v),
             Dispatch(IF v = None THEN NoData ELSE v)
      PROVE  IInv' /\ PassIsGranted
  <2>1. Maps' /\ NothingNew /\ (v = None \/ v \in Copies(call.session))
    BY <1>1, <1>3, LoadCopies DEF IInv
  <2>2. CopiesInv'
    BY <2>1, CopiesStay DEF LoadSession
  <2>3. Backed(granted[call.session], IF v = None THEN NoData ELSE v)
    BY <1>1, <2>1 DEF IInv, CopiesInv, Backed, NoData
  <2>4. CallInv' /\ PassIsGranted
    BY <1>1, <1>3, <2>3, DispatchKeeps DEF LoadSession, PassIsGranted
  <2> QED BY <1>2, <2>1, <2>2, <2>4 DEF IInv
<1>4. ASSUME LoadWedges(call.session), UNCHANGED <<call, answer>>
      PROVE  IInv' /\ PassIsGranted
  <2>1. Maps' /\ NothingNew
    BY <1>1, <1>4, WedgeCopies DEF IInv
  <2>2. CopiesInv'
    BY <2>1, CopiesStay DEF LoadSession
  <2>3. CallInv' /\ PassIsGranted
    BY <1>1, <1>4 DEF LoadSession, CallInv, IInv, Backed, PassIsGranted, Answered
  <2> QED BY <1>2, <2>1, <2>2, <2>3 DEF IInv
<1> QED BY <1>3, <1>4 DEF LoadSession

LEMMA IInvRefresh ==
    ASSUME IInv, Refresh
    PROVE  IInv' /\ PassIsGranted
<1> DEFINE refreshed == [flow |-> None, refresh_token |-> TRUE, oidc_complete |-> call.now]
           dropped == [call.data EXCEPT !.refresh_token = FALSE]
<1>1. call.session \in Sessions /\ call # None /\ clock' = clock
      /\ (granted' = granted \/ \E t : Grant(t))
  BY DEF Refresh, IInv, CallInv
<1>2. DOMAIN granted' = Sessions /\ clock' \in Nat /\ GrantsInv'
  BY <1>1, GrantsStay
<1>3. ASSUME NEW kept, Grant(call.session), Save(call.session, refreshed, SessionTtl, kept),
             Answer(<<"refreshed">>)
      PROVE  IInv' /\ PassIsGranted
  <2>1. granted'[call.session] = clock /\ clock # None
    BY <1>1, <1>3, SessionAssumption DEF Grant, IInv
  <2>2. Backed(granted'[call.session], refreshed)
    BY <1>1, <2>1 DEF Backed, IInv, CallInv
  <2>3. Maps' /\ CopiesInv'
    BY <1>1, <1>3, <2>2, SaveKeeps
  <2>4. CallInv' /\ PassIsGranted
    BY <1>3 DEF Answer, CallInv, PassIsGranted, Answered
  <2> QED BY <1>2, <2>3, <2>4 DEF IInv
<1>4. ASSUME GoTo("authorize", dropped, call.uri), UNCHANGED storeVars
      PROVE  IInv' /\ PassIsGranted
  <2>1. Maps' /\ NothingNew
    BY <1>4, SameCopies DEF IInv
  <2>2. CopiesInv'
    BY <1>1, <2>1, CopiesStay
  <2>3. Backed(granted'[call.session], dropped)
    <3>1. dropped.oidc_complete = call.data.oidc_complete
      OBVIOUS
    <3>2. Backed(granted[call.session], call.data)
      BY <1>1 DEF IInv, CallInv
    <3>3. Backed(granted'[call.session], call.data)
      BY <1>1, <3>2, BackedStays
    <3> QED BY <3>1, <3>3 DEF Backed
  <2>4. CallInv' /\ PassIsGranted
    BY <1>1, <1>4, <2>3, GoToKeeps DEF PassIsGranted
  <2> QED BY <1>2, <2>1, <2>2, <2>4 DEF IInv
<1> QED BY <1>3, <1>4 DEF Refresh

\* A call that is answered, and not with a pass, leaves only the copies to look at.
LEMMA AnswerKeeps ==
    ASSUME NEW a, a[1] # "pass", Answer(a)
    PROVE  CallInv' /\ PassIsGranted
BY DEF Answer, CallInv, PassIsGranted, Answered

LEMMA IInvAuthorize ==
    ASSUME IInv, Authorize
    PROVE  IInv' /\ PassIsGranted
<1>1. call.session \in Sessions /\ clock' = clock /\ granted' = granted
  BY DEF Authorize, IInv, CallInv
<1>2. DOMAIN granted' = Sessions /\ clock' \in Nat /\ GrantsInv'
  BY <1>1, GrantsStay
<1>3. CallInv' /\ PassIsGranted
  <2>1. Answer(<<"provider">>) \/ Answer(<<"failed">>)
    BY DEF Authorize
  <2> QED BY <2>1, AnswerKeeps
<1>4. Maps' /\ CopiesInv'
  <2>1. CASE UNCHANGED storeVars
    <3>1. Maps' /\ NothingNew
      BY <2>1, SameCopies DEF IInv
    <3> QED BY <1>1, <3>1, CopiesStay
  <2>2. ASSUME NEW flow, NEW kept,
               Save(call.session, [call.data EXCEPT !.flow = flow, !.oidc_complete = None],
                    FlowTtl, kept)
        PROVE  Maps' /\ CopiesInv'
    <3> DEFINE data == [call.data EXCEPT !.flow = flow, !.oidc_complete = None]
    <3>1. data.oidc_complete = None \/ data.oidc_complete = call.data.oidc_complete
      OBVIOUS
    <3>2. Backed(granted'[call.session], data)
      BY <1>1, <3>1 DEF Backed, IInv, CallInv, Authorize
    <3> QED BY <1>1, <2>2, <3>2, SaveKeeps
  <2> QED BY <2>1, <2>2 DEF Authorize
<1> QED BY <1>2, <1>3, <1>4 DEF IInv

LEMMA IInvExchange ==
    ASSUME IInv, Exchange
    PROVE  IInv' /\ PassIsGranted
<1>1. /\ call.session \in Sessions /\ call # None /\ clock' = clock
      /\ granted' = granted \/ \E t : Grant(t)
      /\ UNCHANGED storeVars
  BY DEF Exchange, IInv, CallInv
<1>2. DOMAIN granted' = Sessions /\ clock' \in Nat /\ GrantsInv'
  BY <1>1, GrantsStay
<1>3. Maps' /\ NothingNew
  BY <1>1, SameCopies DEF IInv
<1>4. CopiesInv'
  BY <1>1, <1>3, CopiesStay
<1>5. CASE Answer(<<"failed">>)
  BY <1>2, <1>3, <1>4, <1>5, AnswerKeeps DEF IInv
<1>6. ASSUME Grant(call.session), NEW token,
             GoTo("save", [call.data EXCEPT !.flow = None, !.refresh_token = token], call.to)
      PROVE  IInv' /\ PassIsGranted
  <2> DEFINE data == [call.data EXCEPT !.flow = None, !.refresh_token = token]
  <2>1. granted'[call.session] = clock /\ clock # None
    BY <1>1, <1>6, SessionAssumption DEF Grant, IInv
  <2>2. data.oidc_complete = call.data.oidc_complete
    OBVIOUS
  <2>3. Backed(granted'[call.session], call.data)
    BY <1>1, BackedStays DEF IInv, CallInv
  <2>4. Backed(granted'[call.session], data)
    BY <2>2, <2>3 DEF Backed
  <2>5. call.now <= granted'[call.session]
    BY <1>1, <2>1 DEF IInv, CallInv
  <2>6. CallInv' /\ PassIsGranted
    BY <1>1, <1>6, <2>1, <2>4, <2>5, GoToKeeps DEF PassIsGranted
  <2> QED BY <1>2, <1>3, <1>4, <2>6 DEF IInv
<1> QED BY <1>5, <1>6 DEF Exchange

LEMMA IInvSaveTokens ==
    ASSUME IInv, SaveTokens
    PROVE  IInv' /\ PassIsGranted
<1> DEFINE data == [call.data EXCEPT !.oidc_complete = call.now]
<1>1. /\ call.session \in Sessions /\ call # None
      /\ clock' = clock /\ granted' = granted
      /\ Backed(granted[call.session], call.data)
      /\ granted[call.session] # None
      /\ call.now \in Nat /\ call.now <= granted[call.session]
  BY DEF SaveTokens, IInv, CallInv
<1>2. DOMAIN granted' = Sessions /\ clock' \in Nat /\ GrantsInv'
  BY <1>1, GrantsStay
<1>3. Maps' /\ CopiesInv'
  <2>1. PICK kept : Save(call.session, call.data, SessionTtl, kept)
    BY DEF SaveTokens
  <2> QED BY <1>1, <2>1, SaveKeeps
<1>4. data.oidc_complete = call.now \/ data.oidc_complete = call.data.oidc_complete
  OBVIOUS
<1>5. Backed(granted'[call.session], data)
  BY <1>1, <1>4 DEF Backed
<1>6. CallInv' /\ PassIsGranted
  BY <1>1, <1>5, GoToKeeps DEF SaveTokens, PassIsGranted
<1> QED BY <1>2, <1>3, <1>6 DEF IInv

LEMMA IInvComplete ==
    ASSUME IInv, Complete
    PROVE  IInv' /\ PassIsGranted
<1>1. /\ call.session \in Sessions /\ clock' = clock /\ granted' = granted
      /\ Backed(granted'[call.session], call.data)
  BY DEF Complete, CompleteFor, IInv, CallInv
<1>2. DOMAIN granted' = Sessions /\ clock' \in Nat /\ GrantsInv'
  BY <1>1, GrantsStay
<1>3. Maps' /\ CopiesInv'
  <2>1. PICK kept : Save(call.session, call.data, SessionTtl, kept)
    BY DEF Complete, CompleteFor
  <2> QED BY <1>1, <2>1, SaveKeeps
<1>4. CallInv' /\ PassIsGranted
  BY AnswerKeeps DEF Complete, CompleteFor
<1> QED BY <1>2, <1>3, <1>4 DEF IInv

\* The provider, the watch task, the clock and a restart.
LEMMA IInvConsent ==
    ASSUME IInv, NEW f \in Flows, Consent(f)
    PROVE  IInv' /\ PassIsGranted
<1>1. Maps' /\ NothingNew
  BY SameCopies DEF IInv, Consent
<1>2. CopiesInv'
  BY <1>1, CopiesStay DEF Consent
<1>3. CallInv' /\ PassIsGranted
  BY DEF Consent, IInv, CallInv, PassIsGranted, Answered
<1> QED BY <1>1, <1>2, <1>3, GrantsStay DEF Consent, IInv

LEMMA IInvStore ==
    ASSUME IInv, (Sweep \/ Flush) /\ UNCHANGED <<clock, oidcVars>>
    PROVE  IInv' /\ PassIsGranted
<1>1. Maps' /\ NothingNew
  BY SweepCopies, FlushCopies DEF IInv
<1>2. CopiesInv'
  BY <1>1, CopiesStay DEF oidcVars
<1>3. CallInv' /\ PassIsGranted
  BY DEF oidcVars, IInv, CallInv, PassIsGranted, Answered
<1> QED BY <1>1, <1>2, <1>3, GrantsStay DEF oidcVars, IInv

LEMMA IInvTick ==
    ASSUME IInv, Tick, UNCHANGED <<storeVars, oidcVars>>
    PROVE  IInv' /\ PassIsGranted
<1>1. Maps' /\ NothingNew
  BY SameCopies DEF IInv
<1>2. CopiesInv'
  BY <1>1, CopiesStay DEF oidcVars
<1>3. CallInv' /\ PassIsGranted
  BY DEF Tick, oidcVars, IInv, CallInv, PassIsGranted, Answered
<1>4. DOMAIN granted' = Sessions /\ clock' \in Nat /\ GrantsInv'
  BY DEF Tick, oidcVars, IInv, GrantsInv
<1> QED BY <1>1, <1>2, <1>3, <1>4 DEF IInv

LEMMA IInvRestart ==
    ASSUME IInv, Restart
    PROVE  IInv' /\ PassIsGranted
<1>1. Maps' /\ NothingNew
  BY RestartCopies DEF IInv, Restart
<1>2. CopiesInv'
  BY <1>1, CopiesStay DEF Restart
<1>3. CallInv' /\ PassIsGranted
  BY DEF Restart, CallInv, PassIsGranted, Answered
<1> QED BY <1>1, <1>2, <1>3, GrantsStay DEF Restart, IInv

LEMMA IInvStep == IInv /\ [OidcNext]_vars => IInv' /\ (UNCHANGED vars \/ PassIsGranted)
<1> SUFFICES ASSUME IInv, [OidcNext]_vars PROVE IInv' /\ (UNCHANGED vars \/ PassIsGranted)
  OBVIOUS
<1>1. CASE UNCHANGED vars
  BY <1>1 DEF vars, storeVars, oidcVars, IInv, Maps, GrantsInv, CopiesInv, CallInv, Copies
<1>2. CASE OidcNext
  BY <1>2, IInvRequest, IInvConsent, IInvLoad, IInvRefresh, IInvAuthorize, IInvExchange,
     IInvSaveTokens, IInvComplete, IInvStore, IInvTick, IInvRestart DEF OidcNext
<1> QED BY <1>1, <1>2

\* A request passes only within the ttl of a grant to its session: the login that
\* the store returns, however old, is never later than the last grant
\* (oidc/src/lib.rs, lines 413-424).
THEOREM PassesAreGranted == OidcSpec => PassesWereGranted
<1>1. OidcSpec => [](IInv)
  BY IInvInit, IInvStep, PTL DEF OidcSpec
<1>2. IInv /\ [OidcNext]_vars =>
        [Answered("pass") => /\ granted[call.session] # None
                             /\ call.now < granted[call.session] + SessionTtl]_vars
  BY IInvStep DEF PassIsGranted
<1> QED BY <1>1, <1>2, PTL DEF OidcSpec, PassesWereGranted

-----------------------------------------------------------------------------
(* The proof-of-work module.                                               *)

\* Every copy that the store has is the time of an accepted solution of its session.
CopiesSolved ==
    \A s \in Sessions : \A v \in Copies(s) :
        v \in Nat /\ solved[s] # None /\ v <= solved[s]

SolvedInv == \A s \in Sessions : solved[s] # None => solved[s] \in Nat /\ solved[s] <= clock

\* A page never shows less than the difficulty that a solution has to meet.
ShownInv ==
    /\ \A s \in Sessions : score[s] \in Nat
    /\ \A c \in challenges : c.shown \in Nat /\ Difficulty <= c.shown

PageFields == {"session", "get", "actual_difficulty", "now", "step"}
PostFields == {"session", "challenge", "nonce", "zeros", "step"}
PowCallInv ==
    pow_call # None =>
        /\ reply = "none"
        /\ pow_call.session \in Sessions
        /\ pow_call.step \in {"load", "page"} =>
              /\ DOMAIN pow_call = PageFields
              /\ pow_call.now \in Nat
              /\ pow_call.actual_difficulty \in Nat
              /\ Difficulty <= pow_call.actual_difficulty
        /\ pow_call.step \in {"verify", "store"} =>
              /\ DOMAIN pow_call = PostFields
              /\ pow_call.zeros \in Nat

PInv ==
    /\ Maps
    /\ DOMAIN solved = Sessions /\ DOMAIN score = Sessions
    /\ clock \in Nat
    /\ SolvedInv
    /\ CopiesSolved
    /\ ShownInv
    /\ PowCallInv

\* What the two properties say of one step.
PassIsEarned ==
    (Replied("pass") /\ pow_call.get) =>
        /\ solved[pow_call.session] # None
        /\ pow_call.now <= solved[pow_call.session] + OneDay
ShownIsEnough ==
    /\ (Replied("refused") /\ SolvedAsShown) => pow_call.nonce = 0
    /\ Accepted => pow_call.nonce # 0

LEMMA PInvInit == StoreInit /\ PowInit => PInv
BY DEF StoreInit, PowInit, PInv, Maps, SolvedInv, CopiesSolved, ShownInv, PowCallInv, Copies

LEMMA SolvedStay ==
    ASSUME PInv, NothingNew, solved' = solved
    PROVE  CopiesSolved'
BY DEF PInv, CopiesSolved, NothingNew

LEMMA PInvVisit ==
    ASSUME PInv, NEW s \in Sessions, NEW get, Visit(s, get)
    PROVE  PInv' /\ PassIsEarned /\ ShownIsEnough
<1>1. Maps' /\ CopiesSolved'
  BY SameCopies, SolvedStay DEF PInv, Visit
<1>2. ActualDifficulty(s) \in Nat /\ Difficulty <= ActualDifficulty(s)
  <2>1. score[s] \in Nat /\ Difficulty \in Nat
    BY PowAssumption DEF PInv, ShownInv
  <2>2. score[s] \div 100 \in Nat
    BY <2>1
  <2> QED BY <2>1, <2>2 DEF ActualDifficulty
<1>3. PowCallInv'
  BY <1>2 DEF Visit, PowCallInv, PageFields, PInv
<1> QED BY <1>1, <1>3 DEF Visit, PInv, SolvedInv, ShownInv, PassIsEarned, ShownIsEnough, Accepted, Replied

LEMMA PInvReadComplete ==
    ASSUME PInv, ReadComplete
    PROVE  PInv' /\ PassIsEarned /\ ShownIsEnough
<1>1. /\ pow_call # None /\ pow_call.session \in Sessions /\ pow_call.step = "load"
      /\ DOMAIN pow_call = PageFields /\ pow_call.now \in Nat
      /\ pow_call.actual_difficulty \in Nat /\ Difficulty <= pow_call.actual_difficulty
      /\ UNCHANGED <<clock, score, challenges, solved>>
      /\ reply = "none"
  BY DEF ReadComplete, PInv, PowCallInv
<1>2. ASSUME LoadWedges(pow_call.session), UNCHANGED <<pow_call, reply>>
      PROVE  PInv' /\ PassIsEarned /\ ShownIsEnough
  <2>1. Maps' /\ CopiesSolved'
    BY <1>1, <1>2, WedgeCopies, SolvedStay DEF PInv
  <2> QED BY <1>1, <1>2, <2>1
          DEF PInv, SolvedInv, ShownInv, PowCallInv, PassIsEarned, ShownIsEnough, Accepted, Replied
<1>3. ASSUME NEW v \in Copies(pow_call.session) \cup {None}, Load(pow_call.session, v),
             IF Recent(v) \/ ~pow_call.get
             THEN Reply("pass")
             ELSE pow_call' = [pow_call EXCEPT !.step = "page"] /\ UNCHANGED reply
      PROVE  PInv' /\ PassIsEarned /\ ShownIsEnough
  <2>1. Maps' /\ CopiesSolved'
    BY <1>1, <1>3, LoadCopies, SolvedStay DEF PInv
  <2>2. CASE Reply("pass")
    <3>1. PassIsEarned
      <4> SUFFICES ASSUME pow_call.get, Recent(v)
                   PROVE  /\ solved[pow_call.session] # None
                          /\ pow_call.now <= solved[pow_call.session] + OneDay
        BY <1>1, <1>3, <2>2 DEF PassIsEarned, Reply
      <4> QED BY <1>1, PowAssumption DEF Recent, PInv, CopiesSolved, SolvedInv
    <3>2. PowCallInv' /\ ShownIsEnough
      BY <2>2 DEF Reply, PowCallInv, ShownIsEnough, Accepted, Replied
    <3> QED BY <1>1, <2>1, <3>1, <3>2 DEF PInv, SolvedInv, ShownInv
  <2>3. CASE pow_call' = [pow_call EXCEPT !.step = "page"] /\ UNCHANGED reply /\ ~Reply("pass")
    <3>1. PowCallInv'
      BY <1>1, <2>3 DEF PowCallInv, PageFields
    <3>2. PassIsEarned /\ ShownIsEnough
      BY <1>1, <2>3 DEF PassIsEarned, ShownIsEnough, Accepted, Replied
    <3> QED BY <1>1, <2>1, <3>1, <3>2 DEF PInv, SolvedInv, ShownInv
  <2> QED BY <1>3, <2>2, <2>3
<1> QED BY <1>2, <1>3 DEF ReadComplete

LEMMA PInvSendPage ==
    ASSUME PInv, SendPage
    PROVE  PInv' /\ PassIsEarned /\ ShownIsEnough
<1>1. Maps' /\ CopiesSolved'
  BY SameCopies, SolvedStay DEF PInv, SendPage
<1>2. ShownInv'
  BY DEF SendPage, PInv, ShownInv, PowCallInv
<1>3. PowCallInv' /\ PassIsEarned /\ ShownIsEnough
  BY DEF SendPage, Reply, PowCallInv, PassIsEarned, ShownIsEnough, Accepted, Replied
<1> QED BY <1>1, <1>2, <1>3 DEF SendPage, PInv, SolvedInv

LEMMA PInvPost ==
    ASSUME PInv, NEW s \in Sessions, NEW c \in challenges, NEW nonce \in Nonces,
           NEW zeros \in {0, c.shown}, Post(s, c, nonce, zeros)
    PROVE  PInv' /\ PassIsEarned /\ ShownIsEnough
<1>1. Maps' /\ CopiesSolved'
  BY SameCopies, SolvedStay DEF PInv, Post
<1>2. PowCallInv'
  BY DEF Post, PowCallInv, PostFields, PInv, ShownInv
<1>3. PassIsEarned /\ ShownIsEnough
  BY DEF Post, PassIsEarned, ShownIsEnough, Accepted, Replied
<1> QED BY <1>1, <1>2, <1>3 DEF Post, PInv, SolvedInv, ShownInv

\* The checks refuse only what is not signed for the session, late or too easy,
\* and the page was not easier than the checks.
LEMMA PInvVerify ==
    ASSUME PInv, Verify
    PROVE  PInv' /\ PassIsEarned /\ ShownIsEnough
<1>1. /\ pow_call # None /\ pow_call.session \in Sessions /\ pow_call.step = "verify"
      /\ DOMAIN pow_call = PostFields /\ pow_call.zeros \in Nat /\ reply = "none"
      /\ UNCHANGED <<clock, storeVars, challenges, solved>>
  BY DEF Verify, PInv, PowCallInv
<1>2. Maps' /\ CopiesSolved'
  BY <1>1, SameCopies, SolvedStay DEF PInv
<1>3. CASE Filled(pow_call) /\ Signed(pow_call) /\ InTime(pow_call) /\ Proven(pow_call)
  <2>1. /\ score' = [score EXCEPT ![pow_call.session] = Spared(@)]
        /\ pow_call' = [pow_call EXCEPT !.step = "store"]
        /\ reply' = reply
    BY <1>3 DEF Verify
  <2>2. Spared(score[pow_call.session]) \in Nat
    BY <1>1 DEF Spared, PInv, ShownInv
  <2>3. ShownInv' /\ DOMAIN score' = Sessions
    BY <1>1, <2>1, <2>2 DEF PInv, ShownInv
  <2>4. PowCallInv'
    BY <1>1, <2>1 DEF PowCallInv, PostFields
  <2>5. PassIsEarned /\ ShownIsEnough
    BY <1>1, <1>3, <2>1 DEF PassIsEarned, ShownIsEnough, Accepted, Filled, Replied
  <2> QED BY <1>1, <1>2, <2>3, <2>4, <2>5 DEF PInv, SolvedInv
<1>4. CASE ~(Filled(pow_call) /\ Signed(pow_call) /\ InTime(pow_call) /\ Proven(pow_call))
  <2>1. Reply("refused") /\ score' = score
    BY <1>4 DEF Verify
  <2>2. PowCallInv' /\ PassIsEarned
    BY <2>1 DEF Reply, PowCallInv, PassIsEarned, Replied
  <2>3. ShownIsEnough
    <3> SUFFICES ASSUME pow_call.nonce # 0, NEW c \in challenges,
                        c.session = pow_call.session,
                        pow_call.challenge = [session |-> c.session, iat |-> c.iat],
                        pow_call.zeros >= c.shown,
                        clock <= c.iat + ChallengeTtl
                 PROVE  FALSE
      BY <2>1 DEF ShownIsEnough, SolvedAsShown, Accepted, Reply
    <3>1. Filled(pow_call) /\ Signed(pow_call) /\ InTime(pow_call)
      BY DEF Filled, Signed, InTime
    <3>2. Proven(pow_call)
      BY <1>1, PowAssumption DEF Proven, PInv, ShownInv
    <3> QED BY <1>4, <3>1, <3>2
  <2> QED BY <1>1, <1>2, <2>1, <2>2, <2>3 DEF PInv, SolvedInv, ShownInv
<1> QED BY <1>3, <1>4

LEMMA PInvStoreComplete ==
    ASSUME PInv, StoreComplete
    PROVE  PInv' /\ PassIsEarned /\ ShownIsEnough
<1>1. PICK ok \in BOOLEAN : Save(pow_call.session, clock, OneDay, ok)
                            /\ Reply(IF ok THEN "redirect" ELSE "failed")
  BY DEF StoreComplete
<1>2. /\ pow_call.session \in Sessions /\ clock' = clock /\ score' = score
      /\ challenges' = challenges /\ solved' = [solved EXCEPT ![pow_call.session] = clock]
      /\ clock # None /\ clock \in Nat
  BY SessionAssumption DEF StoreComplete, PInv, PowCallInv
<1>3. /\ Maps'
      /\ \A t \in Sessions : \A w \in Copies(t)' :
            w \in Copies(t) \/ (t = pow_call.session /\ w = clock)
  BY <1>1, <1>2, SaveCopies DEF PInv
<1>4. SolvedInv' /\ DOMAIN solved' = Sessions
  BY <1>2 DEF PInv, SolvedInv
<1>5. CopiesSolved'
  <2> SUFFICES ASSUME NEW t \in Sessions, NEW w \in Copies(t)'
               PROVE  w \in Nat /\ solved'[t] # None /\ w <= solved'[t]
    BY DEF CopiesSolved
  <2>1. CASE t = pow_call.session
    BY <1>2, <1>3, <2>1 DEF PInv, CopiesSolved, SolvedInv
  <2>2. CASE t # pow_call.session
    BY <1>2, <1>3, <2>2 DEF PInv, CopiesSolved
  <2> QED BY <2>1, <2>2
<1>6. PowCallInv' /\ PassIsEarned /\ ShownIsEnough
  BY <1>1 DEF Reply, PowCallInv, PassIsEarned, ShownIsEnough, Accepted, Replied
<1> QED BY <1>2, <1>3, <1>4, <1>5, <1>6 DEF PInv, ShownInv

\* The metrics service, the watch task, the clock and a restart.
LEMMA PInvScoreChanges ==
    ASSUME PInv, NEW s \in Sessions, ScoreChanges(s)
    PROVE  PInv' /\ PassIsEarned /\ ShownIsEnough
<1>1. Maps' /\ CopiesSolved'
  BY SameCopies, SolvedStay DEF PInv, ScoreChanges
<1>2. ShownInv' /\ DOMAIN score' = Sessions
  BY PowAssumption DEF ScoreChanges, PInv, ShownInv
<1>3. PowCallInv' /\ PassIsEarned /\ ShownIsEnough
  BY DEF ScoreChanges, PInv, PowCallInv, PassIsEarned, ShownIsEnough, Accepted, Replied
<1> QED BY <1>1, <1>2, <1>3 DEF ScoreChanges, PInv, SolvedInv

LEMMA PInvStore ==
    ASSUME PInv, (Sweep \/ Flush) /\ UNCHANGED <<clock, powVars>>
    PROVE  PInv' /\ PassIsEarned /\ ShownIsEnough
<1>1. Maps' /\ NothingNew
  BY SweepCopies, FlushCopies DEF PInv
<1>2. CopiesSolved'
  BY <1>1, SolvedStay DEF powVars
<1> QED BY <1>1, <1>2
        DEF powVars, PInv, SolvedInv, ShownInv, PowCallInv, PassIsEarned, ShownIsEnough, Accepted, Replied

LEMMA PInvTick ==
    ASSUME PInv, Tick, UNCHANGED <<storeVars, powVars>>
    PROVE  PInv' /\ PassIsEarned /\ ShownIsEnough
<1>1. Maps' /\ CopiesSolved'
  BY SameCopies, SolvedStay DEF PInv, powVars
<1>2. SolvedInv' /\ clock' \in Nat
  BY DEF Tick, powVars, PInv, SolvedInv
<1> QED BY <1>1, <1>2
        DEF powVars, PInv, ShownInv, PowCallInv, PassIsEarned, ShownIsEnough, Accepted, Replied

LEMMA PInvRestart ==
    ASSUME PInv, PowRestart
    PROVE  PInv' /\ PassIsEarned /\ ShownIsEnough
<1>1. Maps' /\ CopiesSolved'
  BY RestartCopies, SolvedStay DEF PInv, PowRestart
<1> QED BY <1>1
        DEF PowRestart, PInv, SolvedInv, ShownInv, PowCallInv, PassIsEarned, ShownIsEnough, Accepted, Replied

LEMMA PInvStep ==
    PInv /\ [PowNext]_pow_vars => PInv' /\ (UNCHANGED pow_vars \/ (PassIsEarned /\ ShownIsEnough))
<1> SUFFICES ASSUME PInv, [PowNext]_pow_vars
             PROVE  PInv' /\ (UNCHANGED pow_vars \/ (PassIsEarned /\ ShownIsEnough))
  OBVIOUS
<1>1. CASE UNCHANGED pow_vars
  <2>1. UNCHANGED storeVars /\ UNCHANGED <<clock, pow_call, score, challenges, solved, reply>>
    BY <1>1 DEF pow_vars, powVars
  <2>2. Maps' /\ CopiesSolved'
    BY <2>1, SameCopies, SolvedStay DEF PInv
  <2>3. SolvedInv' /\ ShownInv' /\ PowCallInv'
    BY <2>1 DEF PInv, SolvedInv, ShownInv, PowCallInv
  <2> QED BY <1>1, <2>1, <2>2, <2>3 DEF PInv
<1>2. CASE PowNext
  BY <1>2, PInvVisit, PInvReadComplete, PInvSendPage, PInvPost, PInvVerify, PInvStoreComplete,
     PInvScoreChanges, PInvStore, PInvTick, PInvRestart DEF PowNext
<1> QED BY <1>1, <1>2

LEMMA PInvAlways == PowSpec => []PInv
BY PInvInit, PInvStep, PTL DEF PowSpec

\* A GET passes only within a day of an accepted solution of its session, whatever
\* value the store brings back (proof-of-work/src/lib.rs, lines 49-72).
THEOREM GetsAreEarned == PowSpec => PassesAreEarned
<1>1. PInv /\ [PowNext]_pow_vars =>
        [(Replied("pass") /\ pow_call.get) =>
            /\ solved[pow_call.session] # None
            /\ pow_call.now <= solved[pow_call.session] + OneDay]_pow_vars
  BY PInvStep DEF PassIsEarned
<1> QED BY <1>1, PInvAlways, PTL DEF PowSpec, PassesAreEarned

\* The page never shows less than the verification asks for, so that a change of
\* the score between them refuses nobody who has solved the challenge: only the nonce
\* is held against a solution, and only if it is 0 (lines 42-43, 200 and 253).
THEOREM ShownSuffices == PowSpec => OnlyZeroIsRefused
<1>1. PInv /\ [PowNext]_pow_vars =>
        [ /\ (Replied("refused") /\ SolvedAsShown) => pow_call.nonce = 0
          /\ Accepted => pow_call.nonce # 0 ]_pow_vars
  BY PInvStep DEF ShownIsEnough
<1> QED BY <1>1, PInvAlways, PTL DEF PowSpec, OnlyZeroIsRefused
-----------------------------------------------------------------------------
(* The types of what the modules store, of their calls and of their past.  *)
(* A callback that is being handled is one for a flow that was started.    *)

Starts == [session : Sessions, origin : Uris, time : Times, sent : BOOLEAN, lost : BOOLEAN]

OidcTypes ==
    /\ Maps
    /\ OidcTypeOK
    /\ Len(started) <= MaxFlows
    /\ call # None /\ call.uri \in Flows => call.uri <= Len(started)

\* What every copy is a member of it stays one of, when no step saves another value.
LEMMA CopiesStayIn ==
    ASSUME NEW T, \A s \in Sessions : Copies(s) \subseteq T, NothingNew
    PROVE  \A s \in Sessions : Copies(s)' \subseteq T
BY DEF NothingNew

LEMMA SaveStaysIn ==
    ASSUME Maps, NEW T, \A s \in Sessions : Copies(s) \subseteq T,
           NEW s \in Sessions, NEW v \in T, NEW ttl, NEW ok, Save(s, v, ttl, ok)
    PROVE  /\ Maps' /\ wedged' = wedged
           /\ \A t \in Sessions : Copies(t)' \subseteq T
<1>1. Maps' /\ \A t \in Sessions : \A w \in Copies(t)' : w \in Copies(t) \/ (t = s /\ w = v)
  BY SaveCopies
<1>2. wedged' = wedged
  BY DEF Save
<1> QED BY <1>1, <1>2

\* The fields of a call, of the data of a session, and the uris.
LEMMA CallFieldsTyped ==
    ASSUME OidcTypes, call # None
    PROVE  /\ call \in Call /\ call.session \in Sessions /\ call.uri \in Uris /\ call.to \in Uris
           /\ call.now \in Times /\ call.data \in SessionData
           /\ call.data.refresh_token \in BOOLEAN
           /\ call.data.oidc_complete \in Times \cup {None}
           /\ call.data.flow \in FlowState \cup {None}
BY DEF OidcTypes, OidcTypeOK, Call, SessionData

LEMMA OidcTypesInit == StoreInit /\ OidcInit => OidcTypes
<1> SUFFICES ASSUME StoreInit, OidcInit PROVE OidcTypes
  OBVIOUS
<1>1. Maps /\ wedged \subseteq Sessions /\ \A s \in Sessions : Copies(s) = {}
  BY DEF StoreInit, Maps, Copies
<1>2. clock \in Times
  BY SessionAssumption DEF StoreInit, Times
<1>3. started = <<>> /\ Len(started) <= MaxFlows
  BY OidcAssumption DEF OidcInit
<1>4. started \in Seq([session : Sessions, origin : Uris, time : Times,
                     sent : BOOLEAN, lost : BOOLEAN])
  BY <1>3
<1> QED BY <1>1, <1>2, <1>3, <1>4 DEF OidcInit, OidcTypes, OidcTypeOK

LEMMA GoToTyped ==
    ASSUME OidcTypes, call # None, NEW step \in Steps, NEW data \in SessionData, NEW to \in Uris,
           GoTo(step, data, to)
    PROVE  call' \in Call /\ call'.uri = call.uri
<1>1. call \in Call
  BY CallFieldsTyped
<1>2. call' = [call EXCEPT !.step = step, !.data = data, !.to = to]
  BY DEF GoTo
<1>3. call' \in Call /\ call'.uri = call.uri
  BY <1>1, <1>2 DEF Call
<1> QED BY <1>3

LEMMA TypesRequest ==
    ASSUME OidcTypes, NEW s \in Sessions, NEW uri \in Asks, NEW upgrade \in {FALSE, (uri \in Pages)},
           Request(s, uri, upgrade)
    PROVE  OidcTypes'
<1>1. Maps' /\ NothingNew /\ wedged' = wedged
  BY SameCopies DEF OidcTypes, Request, storeVars
<1>2. \A t \in Sessions : Copies(t)' \subseteq SessionData
  BY <1>1, CopiesStayIn DEF OidcTypes, OidcTypeOK
<1>3. /\ NoData \in SessionData /\ uri \in Uris /\ upgrade \in BOOLEAN /\ clock \in Times
      /\ Len(started) <= MaxFlows /\ (uri \in Flows => uri <= Len(started))
  <2>1. uri \in Pages \cup {Favicon, 0} \/ uri \in 1..Len(started)
    BY DEF Asks
  <2>2. Len(started) \in Nat /\ Len(started) <= MaxFlows /\ MaxFlows \in Nat
    BY OidcAssumption DEF OidcTypes, OidcTypeOK
  <2>3. uri \in Uris /\ (uri \in Flows => uri \in 1..Len(started))
    BY <2>1, <2>2, OidcAssumption DEF Uris, Callbacks, Flows
  <2>4. clock \in Times
    BY DEF OidcTypes, OidcTypeOK
  <2>5. NoData \in SessionData
    BY DEF NoData, SessionData
  <2>6. upgrade \in BOOLEAN
    <3>1. CASE upgrade = FALSE
      BY <3>1
    <3>2. CASE upgrade = (uri \in Pages)
      <4>1. (uri \in Pages) \in BOOLEAN
        OBVIOUS
      <4> QED BY <3>2, <4>1, Zenon
    <3> QED BY <3>1, <3>2
  <2> QED BY <2>2, <2>3, <2>4, <2>5, <2>6
<1>4. call' \in Call \cup {None} /\ (call' # None => call'.uri = uri)
  BY <1>3 DEF Request, Call, Steps
<1> QED BY <1>1, <1>2, <1>3, <1>4 DEF Request, OidcTypes, OidcTypeOK

LEMMA DispatchTyped ==
    ASSUME OidcTypes, call # None, NEW data \in SessionData, Dispatch(data)
    PROVE  call' \in Call \cup {None} /\ (call' # None => call'.uri = call.uri)
<1>1. ASSUME NEW a, Answer(a) PROVE call' = None
  BY <1>1 DEF Answer
<1>2. ASSUME NEW step \in Steps, NEW to \in Uris, GoTo(step, data, to)
      PROVE  call' \in Call /\ call'.uri = call.uri
  BY <1>2, GoToTyped
<1>3. \/ \E a : Answer(a)
      \/ GoTo("refresh", data, call.uri)
      \/ GoTo("authorize", data, call.uri)
      \/ OwnFlow(data) /\ GoTo("authorize", data, data.flow.redirect_to)
      \/ OwnFlow(data) /\ GoTo("exchange", data, data.flow.redirect_to)
  BY DEF Dispatch, Callback
<1>4. call.uri \in Uris /\ (OwnFlow(data) => data.flow.redirect_to \in Uris)
  BY CallFieldsTyped DEF OwnFlow, SessionData, FlowState
<1>5. "refresh" \in Steps /\ "authorize" \in Steps /\ "exchange" \in Steps
  BY DEF Steps
<1> QED BY <1>1, <1>2, <1>3, <1>4, <1>5

LEMMA TypesLoad ==
    ASSUME OidcTypes, LoadSession
    PROVE  OidcTypes'
<1>1. call # None /\ call.session \in Sessions
      /\ UNCHANGED <<clock, metadata, codes, started, granted, login>>
  BY CallFieldsTyped DEF LoadSession
<1>2. ASSUME NEW v \in Copies(call.session) \cup {None}, Load(call.session, v),
             Dispatch(IF v = None THEN NoData ELSE v)
      PROVE  OidcTypes'
  <2>1. Maps' /\ NothingNew /\ wedged' = wedged
    BY <1>1, <1>2, LoadCopies DEF OidcTypes, Load
  <2>2. \A t \in Sessions : Copies(t)' \subseteq SessionData
    BY <2>1, CopiesStayIn DEF OidcTypes, OidcTypeOK
  <2>3. (IF v = None THEN NoData ELSE v) \in SessionData
    <3>1. NoData \in SessionData
      BY DEF NoData, SessionData
    <3> QED BY <1>1, <3>1 DEF OidcTypes, OidcTypeOK
  <2>4. call' \in Call \cup {None} /\ (call' # None => call'.uri = call.uri)
    BY <1>1, <1>2, <2>3, DispatchTyped
  <2> QED BY <1>1, <2>1, <2>2, <2>4 DEF OidcTypes, OidcTypeOK
<1>3. ASSUME LoadWedges(call.session), UNCHANGED <<call, answer>>
      PROVE  OidcTypes'
  <2>1. Maps' /\ NothingNew /\ wedged' \subseteq Sessions
    BY <1>1, <1>3, WedgeCopies DEF OidcTypes, OidcTypeOK, LoadWedges
  <2>2. \A t \in Sessions : Copies(t)' \subseteq SessionData
    BY <2>1, CopiesStayIn DEF OidcTypes, OidcTypeOK
  <2> QED BY <1>1, <1>3, <2>1, <2>2 DEF OidcTypes, OidcTypeOK
<1> QED BY <1>2, <1>3 DEF LoadSession

\* A step that leaves the store alone, or saves data for the session of the call.
StoreTyped == Maps' /\ wedged' \subseteq Sessions /\ \A t \in Sessions : Copies(t)' \subseteq SessionData

LEMMA SameStoreTyped ==
    ASSUME OidcTypes, UNCHANGED storeVars
    PROVE  StoreTyped
<1>1. Maps' /\ NothingNew /\ wedged' = wedged
  BY SameCopies DEF OidcTypes, storeVars
<1> QED BY <1>1, CopiesStayIn DEF OidcTypes, OidcTypeOK, StoreTyped

LEMMA SavedStoreTyped ==
    ASSUME OidcTypes, NEW s \in Sessions, NEW data \in SessionData, NEW ttl, NEW ok,
           Save(s, data, ttl, ok)
    PROVE  StoreTyped
BY SaveStaysIn DEF OidcTypes, OidcTypeOK, StoreTyped

LEMMA TypesRefresh ==
    ASSUME OidcTypes, Refresh
    PROVE  OidcTypes'
<1> DEFINE refreshed == [flow |-> None, refresh_token |-> TRUE, oidc_complete |-> call.now]
           dropped == [call.data EXCEPT !.refresh_token = FALSE]
<1>1. /\ call # None /\ call.session \in Sessions /\ call.uri \in Uris
      /\ call.now \in Times /\ call.data \in SessionData
      /\ UNCHANGED <<clock, codes, started>>
  BY CallFieldsTyped DEF Refresh
<1>2. refreshed \in SessionData /\ dropped \in SessionData
  BY <1>1 DEF SessionData
<1>3. metadata' \in BOOLEAN
  BY DEF Refresh, Client, OidcTypes, OidcTypeOK
<1>4. granted' \in [Sessions -> Times \cup {None}]
  BY DEF Refresh, Grant, OidcTypes, OidcTypeOK
<1>5. CASE \E kept \in BOOLEAN : /\ Save(call.session, refreshed, SessionTtl, kept)
                                  /\ login' = [login EXCEPT ![call.session] = call.now]
                                  /\ Answer(<<"refreshed">>)
  <2>1. StoreTyped
    BY <1>1, <1>2, <1>5, SavedStoreTyped
  <2>2. call' = None /\ login' \in [Sessions -> Times \cup {None}]
    BY <1>1, <1>5 DEF Answer, OidcTypes, OidcTypeOK
  <2> QED BY <1>1, <1>3, <1>4, <2>1, <2>2 DEF StoreTyped, OidcTypes, OidcTypeOK
<1>6. CASE GoTo("authorize", dropped, call.uri) /\ UNCHANGED <<storeVars, login>>
  <2>1. StoreTyped
    BY <1>6, SameStoreTyped
  <2>2. call' \in Call /\ call'.uri = call.uri
    BY <1>1, <1>2, <1>6, GoToTyped DEF Steps
  <2> QED BY <1>1, <1>3, <1>4, <1>6, <2>1, <2>2 DEF StoreTyped, OidcTypes, OidcTypeOK
<1> QED BY <1>5, <1>6 DEF Refresh

LEMMA TypesAuthorize ==
    ASSUME OidcTypes, Authorize
    PROVE  OidcTypes'
<1>1. /\ call # None /\ call.session \in Sessions /\ call.to \in Uris /\ call.uri \in Uris
      /\ call.data \in SessionData
      /\ UNCHANGED <<clock, codes, granted, login>> /\ clock \in Times
      /\ Len(started) < MaxFlows /\ MaxFlows \in Nat
  BY CallFieldsTyped, OidcAssumption DEF Authorize, OidcTypes, OidcTypeOK
<1>2. metadata' \in BOOLEAN /\ call' = None
  BY DEF Authorize, Client, Answer, OidcTypes, OidcTypeOK
<1>3. CASE UNCHANGED <<storeVars, started>>
  <2>1. StoreTyped
    BY <1>3, SameStoreTyped
  <2> QED BY <1>1, <1>2, <1>3, <2>1 DEF StoreTyped, OidcTypes, OidcTypeOK
<1>4. ASSUME NEW kept \in BOOLEAN
             , Save(call.session,
                    [call.data EXCEPT !.flow = [id |-> Len(started) + 1, redirect_to |-> call.to,
                                                time |-> clock],
                                      !.oidc_complete = None], FlowTtl, kept)
             , started' = Append(started,
                    [session |-> call.session, origin |-> Origin(call.to),
                     time |-> clock, sent |-> kept, lost |-> FALSE])
      PROVE  OidcTypes'
  <2> DEFINE flow == [id |-> Len(started) + 1, redirect_to |-> call.to, time |-> clock]
             data == [call.data EXCEPT !.flow = flow, !.oidc_complete = None]
             start == [session |-> call.session, origin |-> Origin(call.to),
                       time |-> clock, sent |-> kept, lost |-> FALSE]
  <2>1. started \in Seq(Starts)
    BY DEF OidcTypes, OidcTypeOK, Starts
  <2>2. Len(started) + 1 \in Flows
    BY <1>1, <2>1 DEF Flows
  <2>3. data \in SessionData
    <3>1. flow \in FlowState
      BY <1>1, <2>2 DEF FlowState
    <3> QED BY <1>1, <3>1 DEF SessionData
  <2>4. StoreTyped
    BY <1>1, <1>4, <2>3, SavedStoreTyped
  <2>5. Origin(call.to) \in Uris
    <3>1. call.uri \in Flows => call.uri \in 1..Len(started)
      BY <1>1, <2>1 DEF OidcTypes, Flows
    <3>2. \A f \in 1..Len(started) : started[f] \in Starts
      BY <2>1
    <3>3. \A f \in 1..Len(started) : started[f].origin \in Uris
      BY <3>2 DEF Starts
    <3> QED BY <1>1, <3>1, <3>3 DEF Origin
  <2>6. start \in Starts
    BY <1>1, <2>5 DEF Starts
  <2>7. started' \in Seq(Starts) /\ Len(started') = Len(started) + 1
    BY <1>4, <2>1, <2>6
  <2>8. Len(started') <= MaxFlows
    BY <1>1, <2>1, <2>7
  <2> QED BY <1>1, <1>2, <2>4, <2>7, <2>8 DEF StoreTyped, OidcTypes, OidcTypeOK, Starts
<1> QED BY <1>3, <1>4 DEF Authorize

LEMMA TypesExchange ==
    ASSUME OidcTypes, Exchange
    PROVE  OidcTypes'
<1>1. /\ call # None /\ call.session \in Sessions /\ call.to \in Uris /\ call.data \in SessionData
      /\ UNCHANGED <<clock, storeVars, started, login>>
  BY CallFieldsTyped DEF Exchange
<1>2. metadata' \in BOOLEAN
  BY DEF Exchange, Client, OidcTypes, OidcTypeOK
<1>3. codes' \in [Flows -> {"unissued", "issued", "redeemed"}]
  BY DEF Exchange, OidcTypes, OidcTypeOK
<1>4. granted' \in [Sessions -> Times \cup {None}]
  BY DEF Exchange, Grant, OidcTypes, OidcTypeOK
<1>5. StoreTyped
  BY <1>1, SameStoreTyped
<1>6. call' \in Call \cup {None} /\ (call' # None => call'.uri = call.uri)
  <2>1. CASE Answer(<<"failed">>)
    BY <2>1 DEF Answer
  <2>2. ASSUME NEW token \in BOOLEAN,
               GoTo("save", [call.data EXCEPT !.flow = None, !.refresh_token = token], call.to)
        PROVE  call' \in Call /\ call'.uri = call.uri
    <3>1. [call.data EXCEPT !.flow = None, !.refresh_token = token] \in SessionData
      BY <1>1 DEF SessionData
    <3> QED BY <1>1, <2>2, <3>1, GoToTyped DEF Steps
  <2> QED BY <2>1, <2>2 DEF Exchange
<1> QED BY <1>1, <1>2, <1>3, <1>4, <1>5, <1>6 DEF StoreTyped, OidcTypes, OidcTypeOK

LEMMA TypesSaveTokens ==
    ASSUME OidcTypes, SaveTokens
    PROVE  OidcTypes'
<1>1. /\ call # None /\ call.session \in Sessions /\ call.to \in Uris
      /\ call.now \in Times /\ call.data \in SessionData
      /\ UNCHANGED <<clock, metadata, codes, started, granted, login>>
  BY CallFieldsTyped DEF SaveTokens
<1>2. StoreTyped
  BY <1>1, SavedStoreTyped DEF SaveTokens
<1>3. call' \in Call /\ call'.uri = call.uri
  <2>1. [call.data EXCEPT !.oidc_complete = call.now] \in SessionData
    BY <1>1 DEF SessionData
  <2> QED BY <1>1, <2>1, GoToTyped DEF SaveTokens, Steps
<1> QED BY <1>1, <1>2, <1>3 DEF StoreTyped, OidcTypes, OidcTypeOK

LEMMA TypesComplete ==
    ASSUME OidcTypes, Complete
    PROVE  OidcTypes'
<1>1. /\ call # None /\ call.session \in Sessions /\ call.now \in Times /\ call.data \in SessionData
      /\ UNCHANGED <<clock, metadata, codes, started, granted>>
      /\ call' = None
  BY CallFieldsTyped DEF Complete, CompleteFor, Answer
<1>2. StoreTyped
  BY <1>1, SavedStoreTyped DEF Complete, CompleteFor
<1>3. login' \in [Sessions -> Times \cup {None}]
  BY <1>1 DEF Complete, CompleteFor, OidcTypes, OidcTypeOK
<1> QED BY <1>1, <1>2, <1>3 DEF StoreTyped, OidcTypes, OidcTypeOK

\* The provider, the watch task, the clock and a restart.
LEMMA TypesEnvironment ==
    ASSUME OidcTypes,
           \/ \E f \in Flows : Consent(f)
           \/ (Sweep \/ Flush) /\ UNCHANGED <<clock, oidcVars>>
           \/ Tick /\ UNCHANGED <<storeVars, oidcVars>>
           \/ Restart
    PROVE  OidcTypes'
<1>1. ASSUME NEW f \in Flows, Consent(f) PROVE OidcTypes'
  BY <1>1, SameStoreTyped DEF Consent, StoreTyped, OidcTypes, OidcTypeOK
<1>2. CASE (Sweep \/ Flush) /\ UNCHANGED <<clock, oidcVars>>
  <2>1. Maps' /\ NothingNew /\ wedged' = wedged
    BY <1>2, SweepCopies, FlushCopies DEF OidcTypes, Sweep, Flush
  <2>2. \A t \in Sessions : Copies(t)' \subseteq SessionData
    BY <2>1, CopiesStayIn DEF OidcTypes, OidcTypeOK
  <2> QED BY <1>2, <2>1, <2>2 DEF oidcVars, OidcTypes, OidcTypeOK
<1>3. CASE Tick /\ UNCHANGED <<storeVars, oidcVars>>
  <2>1. StoreTyped
    BY <1>3, SameStoreTyped
  <2>2. clock' \in Times
    BY <1>3, SessionAssumption DEF Tick, Times, OidcTypes, OidcTypeOK
  <2> QED BY <1>3, <2>1, <2>2 DEF StoreTyped, oidcVars, OidcTypes, OidcTypeOK
<1>4. CASE Restart
  <2>1. Maps' /\ NothingNew /\ wedged' = {}
    BY <1>4, RestartCopies DEF Restart, StoreRestart, OidcTypes
  <2>2. \A t \in Sessions : Copies(t)' \subseteq SessionData
    BY <2>1, CopiesStayIn DEF OidcTypes, OidcTypeOK
  <2>3. started \in Seq(Starts)
    BY DEF OidcTypes, OidcTypeOK, Starts
  <2>4. started' = [f \in 1..Len(started) |-> [started[f] EXCEPT !.lost = TRUE]]
    BY <1>4, <2>3 DEF Restart
  <2>5. \A f \in 1..Len(started) : [started[f] EXCEPT !.lost = TRUE] \in Starts
    <3>1. \A e \in Starts : [e EXCEPT !.lost = TRUE] \in Starts
      BY DEF Starts
    <3> QED BY <2>3, <3>1
  <2>6. started' \in Seq(Starts) /\ Len(started') = Len(started)
    <3>1. Len(started) \in Nat
      BY <2>3
    <3>2. started' \in [1..Len(started) -> Starts]
      BY <2>4, <2>5
    <3> QED BY <3>1, <3>2
  <2> QED BY <1>4, <2>1, <2>2, <2>6 DEF Restart, OidcTypes, OidcTypeOK, Starts
<1> QED BY <1>1, <1>2, <1>3, <1>4

LEMMA OidcTypesStep == OidcTypes /\ [OidcNext]_vars => OidcTypes'
<1> SUFFICES ASSUME OidcTypes, [OidcNext]_vars PROVE OidcTypes'
  OBVIOUS
<1>1. CASE UNCHANGED vars
  BY <1>1, SameStoreTyped DEF vars, oidcVars, StoreTyped, OidcTypes, OidcTypeOK
<1>2. CASE OidcNext
  BY <1>2, TypesRequest, TypesLoad, TypesRefresh, TypesAuthorize, TypesExchange,
     TypesSaveTokens, TypesComplete, TypesEnvironment DEF OidcNext
<1> QED BY <1>1, <1>2

-----------------------------------------------------------------------------
PowTypes == Maps /\ PowTypeOK

LEMMA PowTypesInit == StoreInit /\ PowInit => PowTypes
<1> SUFFICES ASSUME StoreInit, PowInit PROVE PowTypes
  OBVIOUS
<1>1. Maps /\ \A s \in Sessions : Copies(s) = {}
  BY DEF StoreInit, Maps, Copies
<1>2. clock \in Instants
  BY SessionAssumption DEF StoreInit, Instants
<1>3. 0 \in 0..MaxScore
  BY PowAssumption
<1> QED BY <1>1, <1>2, <1>3 DEF PowInit, PowTypes, PowTypeOK

LEMMA PowCopiesStay ==
    ASSUME PowTypes, NothingNew
    PROVE  \A t \in Sessions : Copies(t)' \subseteq Instants
BY CopiesStayIn DEF PowTypes, PowTypeOK

LEMMA PowStoreSame ==
    ASSUME PowTypes, UNCHANGED storeVars
    PROVE  Maps' /\ \A t \in Sessions : Copies(t)' \subseteq Instants
BY SameCopies, PowCopiesStay DEF PowTypes

LEMMA PageTyped ==
    ASSUME PowTypes, pow_call # None, pow_call.step \in {"load", "page"}
    PROVE  pow_call \in [session : Sessions, get : BOOLEAN, actual_difficulty : Shown,
                         now : Instants, step : {"load", "page"}]
BY DEF PowTypes, PowTypeOK, PowCall

LEMMA PostTyped ==
    ASSUME PowTypes, pow_call # None, pow_call.step \in {"verify", "store"}
    PROVE  pow_call \in [session : Sessions, challenge : Challenge,
                         nonce : Nonces, zeros : 0..(Difficulty + MaxScore), step : {"verify", "store"}]
BY DEF PowTypes, PowTypeOK, PowCall

LEMMA TypesVisit ==
    ASSUME PowTypes, NEW s \in Sessions, NEW get \in BOOLEAN, Visit(s, get)
    PROVE  PowTypes'
<1>1. Maps' /\ \A t \in Sessions : Copies(t)' \subseteq Instants
  BY PowStoreSame DEF Visit
<1>2. ActualDifficulty(s) \in Shown
  <2>1. score[s] \in 0..MaxScore /\ MaxScore \in Nat /\ Difficulty \in Nat
    BY PowAssumption DEF PowTypes, PowTypeOK
  <2>2. score[s] \div 100 \in 0..(MaxScore \div 100)
    BY <2>1
  <2> QED BY <2>1, <2>2 DEF ActualDifficulty, Shown
<1>3. pow_call' \in PowCall
  BY <1>2 DEF Visit, PowTypes, PowTypeOK, PowCall
<1> QED BY <1>1, <1>3 DEF Visit, PowTypes, PowTypeOK

LEMMA TypesReadComplete ==
    ASSUME PowTypes, ReadComplete
    PROVE  PowTypes'
<1>1. /\ UNCHANGED <<clock, score, challenges, solved>> /\ pow_call # None
      /\ pow_call \in [session : Sessions, get : BOOLEAN, actual_difficulty : Shown,
                        now : Instants, step : {"load", "page"}]
  BY PageTyped DEF ReadComplete
<1>2. pow_call' \in PowCall \cup {None}
  BY <1>1 DEF ReadComplete, Reply, PowCall
<1>3. Maps' /\ \A t \in Sessions : Copies(t)' \subseteq Instants
  <2>1. Maps' /\ NothingNew
    BY <1>1, LoadCopies, WedgeCopies DEF ReadComplete, PowTypes
  <2> QED BY <2>1, PowCopiesStay
<1> QED BY <1>1, <1>2, <1>3 DEF PowTypes, PowTypeOK

LEMMA TypesSendPage ==
    ASSUME PowTypes, SendPage
    PROVE  PowTypes'
<1>1. /\ UNCHANGED <<clock, storeVars, score, solved>> /\ pow_call' = None
      /\ pow_call.session \in Sessions /\ pow_call.actual_difficulty \in Shown
  BY PageTyped DEF SendPage, Reply
<1>2. challenges' \subseteq [session : Sessions, iat : Instants, shown : Shown]
  BY <1>1 DEF SendPage, PowTypes, PowTypeOK
<1> QED BY <1>1, <1>2, PowStoreSame DEF PowTypes, PowTypeOK

LEMMA TypesPost ==
    ASSUME PowTypes, NEW s \in Sessions, NEW c \in challenges, NEW nonce \in Nonces,
           NEW zeros \in {0, c.shown}, Post(s, c, nonce, zeros)
    PROVE  PowTypes'
<1>1. c.session \in Sessions /\ c.iat \in Instants /\ c.shown \in Shown
  BY DEF PowTypes, PowTypeOK
<1>2. zeros \in 0..(Difficulty + MaxScore)
  <2>1. MaxScore \in Nat /\ Difficulty \in Nat /\ MaxScore \div 100 <= MaxScore
    BY PowAssumption
  <2> QED BY <1>1, <2>1 DEF Shown
<1>3. pow_call' \in PowCall
  BY <1>1, <1>2 DEF Post, PowCall, Challenge
<1> QED BY <1>3, PowStoreSame DEF Post, PowTypes, PowTypeOK

LEMMA TypesVerify ==
    ASSUME PowTypes, Verify
    PROVE  PowTypes'
<1>1. /\ UNCHANGED <<clock, storeVars, challenges, solved>>
      /\ pow_call \in [session : Sessions, challenge : Challenge,
                        nonce : Nonces, zeros : 0..(Difficulty + MaxScore), step : {"verify", "store"}]
  BY PostTyped DEF Verify
<1>2. pow_call' \in PowCall \cup {None}
  BY <1>1 DEF Verify, Reply, PowCall
<1>3. score' \in [Sessions -> 0..MaxScore]
  <2>1. \A n \in 0..MaxScore : Spared(n) \in 0..MaxScore
    BY PowAssumption DEF Spared
  <2> QED BY <2>1 DEF Verify, PowTypes, PowTypeOK
<1> QED BY <1>1, <1>2, <1>3, PowStoreSame DEF PowTypes, PowTypeOK

LEMMA TypesStoreComplete ==
    ASSUME PowTypes, StoreComplete
    PROVE  PowTypes'
<1>1. /\ UNCHANGED <<clock, score, challenges>> /\ pow_call' = None /\ clock \in Instants
      /\ pow_call.session \in Sessions
  BY PostTyped DEF StoreComplete, Reply, PowTypes, PowTypeOK
<1>2. Maps' /\ \A t \in Sessions : Copies(t)' \subseteq Instants
  BY <1>1, SaveStaysIn DEF StoreComplete, PowTypes, PowTypeOK
<1>3. solved' \in [Sessions -> Instants \cup {None}]
  BY <1>1 DEF StoreComplete, PowTypes, PowTypeOK
<1> QED BY <1>1, <1>2, <1>3 DEF PowTypes, PowTypeOK

\* The metrics service, the watch task, the clock and a restart.
LEMMA TypesPowEnvironment ==
    ASSUME PowTypes,
           \/ \E s \in Sessions : ScoreChanges(s)
           \/ (Sweep \/ Flush) /\ UNCHANGED <<clock, powVars>>
           \/ Tick /\ UNCHANGED <<storeVars, powVars>>
           \/ PowRestart
    PROVE  PowTypes'
<1>1. ASSUME NEW s \in Sessions, ScoreChanges(s) PROVE PowTypes'
  <2>1. score' \in [Sessions -> 0..MaxScore]
    BY <1>1, PowAssumption DEF ScoreChanges, PowTypes, PowTypeOK
  <2> QED BY <1>1, <2>1, PowStoreSame DEF ScoreChanges, PowTypes, PowTypeOK
<1>2. CASE (Sweep \/ Flush) /\ UNCHANGED <<clock, powVars>>
  <2>1. Maps' /\ NothingNew
    BY <1>2, SweepCopies, FlushCopies DEF PowTypes
  <2> QED BY <1>2, <2>1, PowCopiesStay DEF powVars, PowTypes, PowTypeOK
<1>3. CASE Tick /\ UNCHANGED <<storeVars, powVars>>
  <2>1. clock' \in Instants
    BY <1>3, SessionAssumption DEF Tick, Instants, PowTypes, PowTypeOK
  <2> QED BY <1>3, <2>1, PowStoreSame DEF powVars, PowTypes, PowTypeOK
<1>4. CASE PowRestart
  <2>1. Maps' /\ NothingNew
    BY <1>4, RestartCopies DEF PowRestart, PowTypes
  <2> QED BY <1>4, <2>1, PowCopiesStay DEF PowRestart, PowTypes, PowTypeOK
<1> QED BY <1>1, <1>2, <1>3, <1>4

LEMMA PowTypesStep == PowTypes /\ [PowNext]_pow_vars => PowTypes'
<1> SUFFICES ASSUME PowTypes, [PowNext]_pow_vars PROVE PowTypes'
  OBVIOUS
<1>1. CASE UNCHANGED pow_vars
  BY <1>1, PowStoreSame DEF pow_vars, powVars, PowTypes, PowTypeOK
<1>2. CASE PowNext
  BY <1>2, TypesVisit, TypesReadComplete, TypesSendPage, TypesPost, TypesVerify,
     TypesStoreComplete, TypesPowEnvironment DEF PowNext
<1> QED BY <1>1, <1>2

\* Whichever module an ingress names: what the store brings back to it, its calls and
\* the records of the past are of the kind that the module writes, and no score
\* leaves its range (oidc/src/lib.rs and proof-of-work/src/lib.rs, process).
THEOREM LoginTypes == Spec => []LoginTypeOK
<1> DEFINE Inv == (mounted = "oidc" => OidcTypes) /\ (mounted = "pow" => PowTypes)
<1>1. Init => Inv
  BY OidcTypesInit, PowTypesInit DEF Init
<1>2. Inv /\ [Next]_<<vars, pow_vars, mounted>> => Inv'
  <2> SUFFICES ASSUME Inv, [Next]_<<vars, pow_vars, mounted>> PROVE Inv'
    OBVIOUS
  <2>1. mounted' = mounted
    BY DEF Next
  <2>2. mounted = "oidc" => [OidcNext]_vars
    BY DEF Next
  <2>3. mounted = "pow" => [PowNext]_pow_vars
    BY DEF Next
  <2> QED BY <2>1, <2>2, <2>3, OidcTypesStep, PowTypesStep
<1>3. Inv => LoginTypeOK
  BY DEF LoginTypeOK, OidcTypes, PowTypes
<1> QED BY <1>1, <1>2, <1>3, PTL DEF Spec

-----------------------------------------------------------------------------
(* What memory has of a login and of a flow.  Calls exclude each other and *)
(* an entry that is still alive leaves memory only when its own session's  *)
(* call saves another: what Redis holds, or refuses, does not matter.      *)

EntriesInv == hot \in [Sessions -> Entry \cup {None}]

\* The login a call is about to save is that of the moment it began.
DoneInv == call # None /\ call.step = "complete" => call.data.oidc_complete = call.now

KInv == IInv /\ OidcTypes /\ EntriesInv /\ DoneInv

\* The call has loaded its session, which is s.
Handles(s) == call # None /\ call.session = s /\ call.step # "load"

LEMMA KFacts ==
    ASSUME KInv
    PROVE  /\ clock \in Nat /\ None \notin Nat
           /\ SessionTtl \in Int /\ FlowTtl \in Nat /\ StoreTtl \in Nat
           /\ MaxTtl \in Nat /\ FlowTtl <= MaxTtl
           /\ \A s \in Sessions : hot[s] = None \/ (/\ hot[s] # None
                                                     /\ hot[s].value \in SessionData
                                                     /\ hot[s].expires \in Nat)
           /\ call # None => /\ call.session \in Sessions /\ call.data \in SessionData
                             /\ call.now \in Nat /\ call.now <= clock
                             /\ answer = <<"none">>
BY SessionAssumption, OidcAssumption, CallFieldsTyped, NoneAssumption
   DEF KInv, IInv, CallInv, EntriesInv, Entry

\* For how long a value is kept.
LEMMA ClampedTyped ==
    ASSUME NEW ttl
    PROVE  /\ Clamped(ttl) \in Nat
           /\ ttl \in Nat /\ ttl <= MaxTtl => Clamped(ttl) = ttl
           /\ ttl \in Nat /\ MaxTtl < ttl => Clamped(ttl) = MaxTtl
BY SessionAssumption DEF Clamped

\* What a save puts in memory.
LEMMA Saved ==
    ASSUME KInv, NEW s \in Sessions, NEW v \in SessionData, NEW ttl, NEW ok, Save(s, v, ttl, ok)
    PROVE  /\ EntriesInv'
           /\ hot'[s] # None /\ hot'[s].value = v /\ hot'[s].expires = clock + Clamped(ttl)
           /\ \A t \in Sessions : t # s => hot'[t] = hot[t]
<1> DEFINE kept == Copy(v, Clamped(ttl))
<1>1. hot' = [hot EXCEPT ![s] = kept] /\ hot \in [Sessions -> Entry \cup {None}]
  BY DEF Save, KInv, EntriesInv
<1>2. clock + Clamped(ttl) \in Nat
  BY KFacts, ClampedTyped
<1>3. kept \in Entry /\ kept.value = v /\ kept.expires = clock + Clamped(ttl)
  BY <1>2 DEF Copy, Entry
<1> HIDE DEF Entry, kept
<1>4. kept # None
  BY <1>3, NoneAssumption
<1> QED BY <1>1, <1>3, <1>4 DEF EntriesInv

\* How a call goes on.
LEMMA GoesOn ==
    ASSUME KInv, call # None, NEW step, NEW data, NEW to, GoTo(step, data, to)
    PROVE  /\ call'.session = call.session /\ call'.uri = call.uri /\ call'.now = call.now
           /\ call'.step = step /\ call'.data = data /\ call'.to = to
           /\ answer' = <<"none">>
BY KFacts, CallFieldsTyped DEF KInv, GoTo, Call

\* The steps that follow a load.
LEMMA Dispatched ==
    ASSUME NEW data, Dispatch(data)
    PROVE  \/ Valid(data) /\ Answer(<<"pass">>)
           \/ ~Valid(data) /\ Answer(<<"unauthorized">>)
           \/ ~Valid(data) /\ ~LoginNeeded(data) /\ ~OwnFlow(data) /\ Answer(<<"bad">>)
           \/ ~Valid(data) /\ data.oidc_complete # None /\ GoTo("refresh", data, call.uri)
           \/ ~Valid(data) /\ LoginNeeded(data) /\ GoTo("authorize", data, call.uri)
           \/ /\ ~Valid(data) /\ ~LoginNeeded(data) /\ OwnFlow(data)
              /\ \/ GoTo("authorize", data, data.flow.redirect_to)
                 \/ GoTo("exchange", data, data.flow.redirect_to)
BY DEF Dispatch, Callback, Refreshable

\* What a new flow makes of the data of its session.
NewFlow == [id |-> Len(started) + 1, redirect_to |-> call.to, time |-> clock]

LEMMA FlowTyped ==
    ASSUME OidcTypes, Authorize
    PROVE  /\ NewFlow \in FlowState
           /\ [call.data EXCEPT !.flow = NewFlow, !.oidc_complete = None] \in SessionData
<1>1. call.to \in Uris /\ call.data \in SessionData /\ clock \in Times
  BY CallFieldsTyped DEF Authorize, OidcTypes, OidcTypeOK
<1>2. Len(started) + 1 \in Flows
  <2>1. Len(started) \in Nat /\ Len(started) < MaxFlows /\ MaxFlows \in Nat
    BY OidcAssumption DEF Authorize, OidcTypes, OidcTypeOK
  <2> QED BY <2>1 DEF Flows
<1>3. NewFlow \in FlowState
  BY <1>1, <1>2 DEF NewFlow, FlowState
<1> HIDE DEF NewFlow
<1> QED BY <1>1, <1>3 DEF SessionData

LEMMA Exchanged ==
    ASSUME Exchange
    PROVE  /\ call # None /\ call.step = "exchange"
           /\ UNCHANGED <<clock, storeVars, started, login>>
           /\ Answer(<<"failed">>) \/ \E data : GoTo("save", data, call.to)
<1> DEFINE data(token) == [call.data EXCEPT !.flow = None, !.refresh_token = token]
<1>1. /\ call # None /\ call.step = "exchange"
      /\ UNCHANGED <<clock, storeVars, started, login>>
      /\ Answer(<<"failed">>) \/ \E token \in BOOLEAN : GoTo("save", data(token), call.to)
  BY Zenon DEF Exchange
<1> HIDE DEF data
<1> QED BY <1>1

LEMMA KInvInit == StoreInit /\ OidcInit => KInv
BY IInvInit, OidcTypesInit DEF StoreInit, OidcInit, KInv, EntriesInv, DoneInv

LEMMA EntriesStep ==
    ASSUME KInv, [OidcNext]_vars
    PROVE  EntriesInv'
<1>1. ASSUME NEW s \in Sessions, NEW uri, NEW upgrade, Request(s, uri, upgrade) PROVE EntriesInv'
  BY <1>1 DEF Request, storeVars, KInv, EntriesInv
<1>2. ASSUME NEW f, Consent(f) PROVE EntriesInv'
  BY <1>2 DEF Consent, storeVars, KInv, EntriesInv
<1>3. CASE LoadSession
  <2>1. CASE hot' = hot
    BY <2>1 DEF KInv, EntriesInv
  <2>2. ASSUME NEW v \in Copies(call.session), hot' = [hot EXCEPT ![call.session] = Copy(v, StoreTtl)]
        PROVE  EntriesInv'
    <3>1. call.session \in Sessions
      BY <1>3, KFacts DEF LoadSession
    <3>2. v \in SessionData
      BY <2>2, <3>1 DEF KInv, OidcTypes, OidcTypeOK
    <3>3. clock + StoreTtl \in Nat
      BY KFacts
    <3>4. Copy(v, StoreTtl) \in Entry
      BY <3>2, <3>3 DEF Copy, Entry
    <3> QED BY <2>2, <3>4 DEF KInv, EntriesInv
  <2>3. ASSUME NEW v \in Copies(call.session) \cup {None}, Load(call.session, v)
        PROVE  hot' = hot \/ (v \in Copies(call.session)
                               /\ hot' = [hot EXCEPT ![call.session] = Copy(v, StoreTtl)])
    BY <2>3 DEF Load, Live, Copies
  <2> QED BY <1>3, <2>1, <2>2, <2>3 DEF LoadSession, LoadWedges
<1>4. CASE Refresh
  <2>1. CASE UNCHANGED storeVars
    BY <2>1 DEF storeVars, KInv, EntriesInv
  <2>2. ASSUME NEW kept, Save(call.session, [flow |-> None, refresh_token |-> TRUE,
                                             oidc_complete |-> call.now], SessionTtl, kept)
        PROVE  EntriesInv'
    <3>1. call # None
      BY <1>4 DEF Refresh
    <3>2. [flow |-> None, refresh_token |-> TRUE, oidc_complete |-> call.now] \in SessionData
      BY <3>1, CallFieldsTyped DEF KInv, SessionData
    <3> QED BY <2>2, <3>1, <3>2, KFacts, Saved
  <2> QED BY <1>4, <2>1, <2>2 DEF Refresh
<1>5. CASE Authorize
  <2>1. CASE UNCHANGED storeVars
    BY <2>1 DEF storeVars, KInv, EntriesInv
  <2>2. CASE hot' = [hot EXCEPT ![call.session] = Copy([call.data EXCEPT
                       !.flow = NewFlow, !.oidc_complete = None], Clamped(FlowTtl))]
    <3> DEFINE data == [call.data EXCEPT !.flow = NewFlow, !.oidc_complete = None]
    <3>1. data \in SessionData
      BY <1>5, FlowTyped DEF KInv
    <3> HIDE DEF data
    <3>2. clock + Clamped(FlowTtl) \in Nat
      BY KFacts, ClampedTyped
    <3>3. Copy(data, Clamped(FlowTtl)) \in Entry
      BY <3>1, <3>2 DEF Copy, Entry
    <3> QED BY <2>2, <3>3 DEF KInv, EntriesInv, data
  <2> QED BY <1>5, <2>1, <2>2 DEF Authorize, Save, NewFlow
<1>6. CASE Exchange
  <2>1. UNCHANGED storeVars
    BY <1>6, Exchanged
  <2> QED BY <2>1 DEF storeVars, KInv, EntriesInv
<1>7. CASE SaveTokens \/ Complete
  BY <1>7, KFacts, Saved DEF SaveTokens, Complete, CompleteFor
<1>8. CASE Sweep \/ Flush
  BY <1>8 DEF Sweep, Flush, KInv, EntriesInv
<1>9. CASE Tick /\ UNCHANGED storeVars
  BY <1>9 DEF storeVars, KInv, EntriesInv
<1>10. CASE Restart
  BY <1>10 DEF Restart, StoreRestart, EntriesInv
<1>11. CASE UNCHANGED vars
  BY <1>11 DEF vars, storeVars, KInv, EntriesInv
<1> QED BY <1>1, <1>2, <1>3, <1>4, <1>5, <1>6, <1>7, <1>8, <1>9, <1>10, <1>11 DEF OidcNext

LEMMA KInvStep == KInv /\ [OidcNext]_vars => KInv'
<1> SUFFICES ASSUME KInv, [OidcNext]_vars PROVE KInv'
  OBVIOUS
<1>1. IInv' /\ OidcTypes'
  BY IInvStep, OidcTypesStep DEF KInv
<1>2. EntriesInv'
  BY EntriesStep
<1>3. DoneInv'
  <2>1. CASE call' = call \/ call' = None
    BY <2>1 DEF KInv, DoneInv
  <2>2. CASE LoadSession
    <3>1. ASSUME NEW data, Dispatch(data) PROVE DoneInv'
      <4>1. call # None
        BY <2>2 DEF LoadSession
      <4>2. call' = None \/ call'.step \in {"refresh", "authorize", "exchange"}
        BY <3>1, <4>1, Dispatched, GoesOn DEF Answer
      <4> QED BY <4>2 DEF DoneInv
    <3> QED BY <2>1, <2>2, <3>1 DEF LoadSession
  <2>3. ASSUME NEW data, NEW to, call # None, GoTo("authorize", data, to) \/ GoTo("save", data, to)
        PROVE  DoneInv'
    BY <2>3, GoesOn DEF DoneInv
  <2>4. CASE SaveTokens
    <3>1. call # None /\ GoTo("complete", [call.data EXCEPT !.oidc_complete = call.now], call.to)
      BY <2>4 DEF SaveTokens
    <3>2. [call.data EXCEPT !.oidc_complete = call.now].oidc_complete = call.now
      BY <3>1, KFacts DEF SessionData
    <3>3. call'.data.oidc_complete = call'.now
      BY <3>1, <3>2, GoesOn
    <3> QED BY <3>3 DEF DoneInv
  <2>5. CASE Refresh
    BY <2>1, <2>3, <2>5 DEF Refresh, Answer
  <2>6. CASE Exchange
    BY <2>1, <2>3, <2>6, Exchanged DEF Answer
  <2>7. ASSUME NEW s, NEW uri, NEW upgrade, Request(s, uri, upgrade) PROVE DoneInv'
    BY <2>7 DEF Request, DoneInv
  <2>8. CASE Authorize \/ Complete \/ Restart
    BY <2>1, <2>8 DEF Authorize, Complete, CompleteFor, Restart, Answer
  <2> QED BY <2>1, <2>2, <2>4, <2>5, <2>6, <2>7, <2>8
          DEF OidcNext, Consent, oidcVars, vars
<1> QED BY <1>1, <1>2, <1>3 DEF KInv

\* An entry that is alive stays, unless its own session's call saves another.
LEMMA LiveStays ==
    ASSUME KInv, [OidcNext]_vars, ~Restart, NEW s \in Sessions, Live(hot[s]), ~Handles(s)
    PROVE  hot'[s] = hot[s]
<1>1. CASE LoadSession
  <2>1. call.session \in Sessions
    BY <1>1, KFacts DEF LoadSession
  <2>2. ASSUME NEW v, Load(call.session, v) PROVE hot'[s] = hot[s]
    BY <2>1, <2>2 DEF Load, Live, KInv, EntriesInv
  <2> QED BY <1>1, <2>2 DEF LoadSession, LoadWedges
<1>2. ASSUME NEW v, NEW ttl, NEW ok, NEW t, t # s, Save(t, v, ttl, ok) PROVE hot'[s] = hot[s]
  BY <1>2 DEF Save, KInv, EntriesInv
<1>3. CASE Refresh \/ Authorize \/ SaveTokens \/ Complete
  <2>1. call.session # s
    BY <1>3 DEF Refresh, Authorize, SaveTokens, Complete, CompleteFor, Handles
  <2> QED BY <1>2, <1>3, <2>1 DEF Refresh, Authorize, SaveTokens, Complete, CompleteFor, storeVars
<1>4. CASE Sweep
  <2>1. ~Expired(hot[s])
    BY KFacts DEF Live, Expired
  <2> QED BY <1>4, <2>1 DEF Sweep
<1>5. CASE UNCHANGED hot
  BY <1>5
<1>6. CASE Exchange
  <2>1. UNCHANGED storeVars
    BY <1>6, Exchanged
  <2> QED BY <2>1 DEF storeVars
<1> QED BY <1>1, <1>3, <1>4, <1>5, <1>6
        DEF OidcNext, Request, Consent, Flush, storeVars, vars
-----------------------------------------------------------------------------
(* A login lasts.  A call that has loaded its session found no login that  *)
(* is still good, so nothing is saved over one.                            *)

Lasting(s) ==
    login[s] # None /\ clock < login[s] + SessionTtl /\ clock < login[s] + MaxTtl

LastInv ==
    /\ \A s \in Sessions : Lasting(s) =>
          /\ hot[s] # None
          /\ login[s] + Clamped(SessionTtl) <= hot[s].expires
          /\ hot[s].value.oidc_complete = login[s]
    /\ \A s \in Sessions : Handles(s) => ~Lasting(s)

LEMMA LoginTyped ==
    ASSUME KInv
    PROVE  /\ login \in [Sessions -> Nat \cup {None}]
           /\ \A s \in Sessions : login[s] = None \/ (login[s] # None /\ login[s] \in Nat)
BY SessionAssumption DEF KInv, OidcTypes, OidcTypeOK, Times

\* While a login lasts, the entry that was saved with it is alive.
LEMMA LastingAlive ==
    ASSUME KInv, LastInv, NEW s \in Sessions, Lasting(s)
    PROVE  Live(hot[s])
<1>1. login[s] \in Nat /\ clock \in Nat /\ SessionTtl \in Int /\ MaxTtl \in Nat
  BY LoginTyped, KFacts DEF Lasting
<1>2. clock < login[s] + Clamped(SessionTtl)
  BY <1>1 DEF Lasting, Clamped
<1>3. hot[s] # None /\ login[s] + Clamped(SessionTtl) <= hot[s].expires
  BY DEF LastInv
<1>4. hot[s].expires \in Nat /\ Clamped(SessionTtl) \in Nat
  BY <1>3, KFacts, ClampedTyped
<1> QED BY <1>1, <1>2, <1>3, <1>4 DEF Live

\* While a login lasts, its session passes as soon as it is loaded.
LEMMA LastingPasses ==
    ASSUME KInv, LastInv, LoadSession, Lasting(call.session)
    PROVE  \/ UNCHANGED call
           \/ call' = None /\ answer' = <<"pass">>
<1> DEFINE s == call.session
<1>1. call # None /\ s \in Sessions /\ call.now <= clock /\ call.now \in Nat
  BY KFacts DEF LoadSession
<1>2. /\ login[s] \in Nat /\ login[s] # None /\ clock < login[s] + SessionTtl
      /\ hot[s] # None /\ hot[s].value \in SessionData
      /\ Live(hot[s])
      /\ hot[s].value.oidc_complete = login[s]
  BY <1>1, KFacts, LoginTyped, LastingAlive DEF LastInv, Lasting
<1>3. ASSUME NEW v, Load(s, v), Dispatch(IF v = None THEN NoData ELSE v)
      PROVE  call' = None /\ answer' = <<"pass">>
  <2>1. v = hot[s].value /\ v # None
    BY <1>2, <1>3, NoneAssumption DEF Load
  <2>2. call.now < login[s] + SessionTtl
    BY <1>1, <1>2, KFacts
  <2>3. Valid(v)
    BY <1>2, <2>1, <2>2 DEF Valid
  <2> QED BY <1>3, <2>1, <2>3 DEF Dispatch, Answer
<1> QED BY <1>3 DEF LoadSession

\* Only a refresh and the end of a callback record a login: the one they save.
LEMMA Recorded ==
    ASSUME KInv, [OidcNext]_vars, NEW s \in Sessions, login'[s] # login[s], login'[s] # None
    PROVE  /\ call' = None /\ clock' = clock /\ login'[s] \in Nat /\ login'[s] <= clock
           /\ hot'[s] # None
           /\ hot'[s].value.oidc_complete = login'[s]
           /\ hot'[s].expires = clock + Clamped(SessionTtl)
<1>1. CASE Refresh
  <2> DEFINE data == [flow |-> None, refresh_token |-> TRUE, oidc_complete |-> call.now]
  <2>1. PICK kept : Save(call.session, data, SessionTtl, kept)
    BY <1>1 DEF Refresh
  <2>2. /\ login' = [login EXCEPT ![call.session] = call.now]
        /\ call' = None /\ call # None /\ clock' = clock
    BY <1>1 DEF Refresh, Answer
  <2>3. call.session = s /\ login'[s] = call.now
    BY <2>2, LoginTyped
  <2>4. data \in SessionData /\ data.oidc_complete = call.now
    BY <2>2, CallFieldsTyped DEF KInv, SessionData
  <2> HIDE DEF data
  <2> QED BY <2>1, <2>2, <2>3, <2>4, KFacts, Saved
<1>2. CASE Complete
  <2>1. PICK kept : Save(call.session, call.data, SessionTtl, kept)
    BY <1>2 DEF Complete, CompleteFor
  <2>2. /\ login' = [login EXCEPT ![call.session] = call.now]
        /\ call' = None /\ call # None /\ clock' = clock /\ call.step = "complete"
    BY <1>2 DEF Complete, CompleteFor, Answer
  <2>3. call.session = s /\ login'[s] = call.now /\ call.data.oidc_complete = call.now
    BY <2>2, LoginTyped DEF KInv, DoneInv
  <2> QED BY <2>1, <2>2, <2>3, KFacts, Saved
<1>3. CASE Restart
  BY <1>3 DEF Restart
<1>4. CASE UNCHANGED login
  BY <1>4
<1> QED BY <1>1, <1>2, <1>3, <1>4, Exchanged
        DEF OidcNext, Request, Consent, LoadSession, Authorize, SaveTokens, oidcVars, vars

LEMMA ClockRuns ==
    ASSUME KInv, [OidcNext]_vars
    PROVE  clock' = clock \/ clock' = clock + 1
BY Exchanged DEF OidcNext, Request, Consent, LoadSession, Refresh, Authorize, SaveTokens, Complete,
                 CompleteFor, Tick, Restart, vars

\* Who handles a session after a step did so before, or has just loaded it.
LEMMA HandlesFrom ==
    ASSUME KInv, [OidcNext]_vars, NEW s \in Sessions, Handles(s)'
    PROVE  \/ Handles(s)
           \/ LoadSession /\ call.session = s /\ call' # call /\ UNCHANGED <<clock, login>>
<1>1. CASE UNCHANGED call
  BY <1>1 DEF Handles
<1>2. CASE call' = None
  BY <1>2 DEF Handles
<1>3. ASSUME NEW step, NEW data, NEW to, call # None, GoTo(step, data, to)
      PROVE  call'.session = call.session
  BY <1>3, GoesOn
<1>4. CASE LoadSession
  <2>1. ASSUME NEW data, Dispatch(data), call' # None PROVE call.session = s
    BY <1>3, <1>4, <2>1, Dispatched DEF LoadSession, Answer, Handles
  <2> QED BY <1>1, <1>2, <1>4, <2>1 DEF LoadSession
<1>5. CASE Refresh
  BY <1>2, <1>3, <1>5 DEF Refresh, Answer, Handles
<1>6. CASE Exchange
  BY <1>2, <1>3, <1>6, Exchanged DEF Answer, Handles
<1>7. CASE SaveTokens
  BY <1>3, <1>7 DEF SaveTokens, Handles
<1>8. ASSUME NEW t, NEW uri, NEW upgrade, Request(t, uri, upgrade) PROVE FALSE
  BY <1>8 DEF Request, Handles
<1> QED BY <1>1, <1>2, <1>4, <1>5, <1>6, <1>7, <1>8
        DEF OidcNext, Consent, Authorize, Complete, CompleteFor, Restart, Answer, oidcVars, vars

LEMMA LastInvStep ==
    ASSUME KInv, KInv', LastInv, [OidcNext]_vars
    PROVE  LastInv'
<1>0. /\ clock' = clock \/ clock' = clock + 1
      /\ clock \in Nat /\ clock' \in Nat /\ None \notin Nat /\ SessionTtl \in Int
      /\ MaxTtl \in Nat /\ Clamped(SessionTtl) \in Nat
  BY ClockRuns, KFacts, ClampedTyped
<1>1. ASSUME NEW s \in Sessions, Lasting(s)', login'[s] = login[s]
      PROVE  Lasting(s)
  BY <1>0, <1>1, LoginTyped DEF Lasting
<1>2. ASSUME NEW s \in Sessions, Lasting(s)'
      PROVE  /\ hot'[s] # None
             /\ login'[s] + Clamped(SessionTtl) <= hot'[s].expires
             /\ hot'[s].value.oidc_complete = login'[s]
  <2>1. CASE login'[s] # login[s]
    <3>1. login'[s] # None
      BY <1>2 DEF Lasting
    <3> QED BY <1>0, <2>1, <3>1, Recorded
  <2>2. CASE login'[s] = login[s]
    <3>1. Lasting(s) /\ ~Restart
      BY <1>1, <1>2, <2>2 DEF Lasting, Restart
    <3>2. Live(hot[s])
      BY <3>1, LastingAlive
    <3>3. hot'[s] = hot[s]
      BY <3>1, <3>2, LiveStays DEF LastInv
    <3> QED BY <2>2, <3>1, <3>3 DEF LastInv
  <2> QED BY <2>1, <2>2
<1>3. ASSUME NEW s \in Sessions, Handles(s)', Lasting(s)' PROVE FALSE
  <2>1. login'[s] = login[s]
    BY <1>3, Recorded DEF Handles, Lasting
  <2>2. Lasting(s)
    BY <1>1, <1>3, <2>1
  <2>3. LoadSession /\ call.session = s /\ call' # call
    BY <1>3, <2>2, HandlesFrom DEF LastInv
  <2>4. call' = None
    BY <2>2, <2>3, LastingPasses
  <2> QED BY <1>3, <2>4 DEF Handles
<1> QED BY <1>2, <1>3 DEF LastInv

LEMMA LastInvInit == StoreInit /\ OidcInit => LastInv
BY DEF StoreInit, OidcInit, LastInv, Lasting, Handles

\* What LoginLasts says of one step.
LoginPasses ==
    LET s == call.session
    IN  (/\ call # None /\ call.step = "load" /\ call' # call
         /\ login'[s] # None /\ clock < login[s] + SessionTtl /\ clock < login[s] + MaxTtl)
        => answer' = <<"pass">>

LEMMA LoginPassesStep ==
    ASSUME KInv, LastInv, [OidcNext]_vars
    PROVE  LoginPasses
<1> SUFFICES ASSUME call # None, call.step = "load", call' # call,
                    login'[call.session] # None, clock < login[call.session] + SessionTtl,
                    clock < login[call.session] + MaxTtl
             PROVE  answer' = <<"pass">>
  BY DEF LoginPasses
<1>1. LoadSession \/ Restart
  BY Exchanged DEF OidcNext, Request, Consent, Refresh, Authorize, SaveTokens, Complete, CompleteFor,
                   oidcVars, vars
<1>2. CASE Restart
  BY <1>2, KFacts DEF Restart
<1>3. CASE LoadSession
  <2>1. login' = login
    BY <1>3 DEF LoadSession
  <2> QED BY <1>3, <2>1, LastingPasses DEF Lasting
<1> QED BY <1>1, <1>2, <1>3

\* In one life of the process every request of a session passes after a login that
\* was completed or refreshed, for session_ttl_seconds or for the day that the host
\* allows, whichever is less: a call that has loaded the session
\* never holds an older value to save over it, and memory keeps the entry as long
\* (oidc/src/lib.rs, lines 440-460 and 524-528).
THEOREM LoginsLast == OidcSpec => LoginLasts
<1>1. OidcSpec => [](KInv /\ LastInv)
  <2>1. KInv /\ LastInv /\ [OidcNext]_vars => KInv' /\ LastInv'
    BY KInvStep, LastInvStep
  <2> QED BY <2>1, KInvInit, LastInvInit, PTL DEF OidcSpec
<1>2. KInv /\ LastInv /\ [OidcNext]_vars => [LoginPasses]_vars
  BY LoginPassesStep
<1>3. OidcSpec => [][LoginPasses]_vars
  BY <1>1, <1>2, PTL DEF OidcSpec
<1> QED BY <1>3 DEF LoginPasses, LoginLasts
-----------------------------------------------------------------------------
(* The pages of the flows.  A flow in the store, in a call or on its way   *)
(* through a late callback leads to the page its login was started for.    *)

Flows0 == 1..Len(started)

\* The flow of the data, if they have one, leads to the page of its login.
FlowKnown(data) ==
    data.flow # None => /\ data.flow.id \in Flows0
                        /\ data.flow.redirect_to = started[data.flow.id].origin

\* A callback is for a flow that was started; from the exchange on the call leads to
\* the page of that flow; a login that is started again is for the page of Origin.
CallLeads ==
    call # None =>
        /\ FlowKnown(call.data)
        /\ call.uri \in Flows => call.uri \in Flows0
        /\ call.step \in {"exchange", "save", "complete"} =>
              call.uri \in Flows0 /\ call.to = started[call.uri].origin
        /\ call.step = "authorize" => call.to = Origin(call.to)
        /\ call.step = "refresh" => call.data.oidc_complete # None

LeadsInv ==
    /\ \A s \in Sessions : \A v \in Copies(s) : FlowKnown(v)
    /\ CallLeads

LEMMA StartsTyped ==
    ASSUME KInv
    PROVE  /\ started \in Seq(Starts) /\ Len(started) \in Nat
           /\ \A f \in Flows0 : started[f] \in Starts
           /\ Flows0 \subseteq Flows
<1>1. started \in Seq(Starts) /\ Len(started) <= MaxFlows
  BY DEF KInv, OidcTypes, OidcTypeOK, Starts
<1>2. Len(started) \in Nat /\ \A f \in Flows0 : started[f] \in Starts
  BY <1>1 DEF Flows0
<1>3. Flows0 \subseteq Flows
  BY <1>1, <1>2, OidcAssumption DEF Flows0, Flows
<1> QED BY <1>1, <1>2, <1>3

\* What a step does to the flows that were started: nothing, one more, or a restart,
\* which loses them.
Lose(e) == [e EXCEPT !.lost = TRUE]

LEMMA StartedStep ==
    ASSUME KInv, [OidcNext]_vars
    PROVE  \/ started' = started
           \/ Authorize /\ \E e \in Starts : /\ started' = Append(started, e)
                                             /\ e.session = call.session /\ e.time = clock
                                             /\ e.origin = Origin(call.to)
           \/ Restart /\ started' = [f \in DOMAIN started |-> Lose(started[f])]
<1>1. CASE Authorize
  <2>1. CASE started' = started
    BY <2>1
  <2>2. ASSUME NEW kept \in BOOLEAN,
               started' = Append(started,
                   [session |-> call.session, origin |-> Origin(call.to),
                    time |-> clock, sent |-> kept, lost |-> FALSE])
        PROVE  \E e \in Starts : /\ started' = Append(started, e)
                                 /\ e.session = call.session /\ e.time = clock
                                 /\ e.origin = Origin(call.to)
    <3> DEFINE e == [session |-> call.session, origin |-> Origin(call.to),
                     time |-> clock, sent |-> kept, lost |-> FALSE]
    <3>1. call # None /\ call.session \in Sessions /\ call.to \in Uris /\ clock \in Times
      BY <1>1, CallFieldsTyped DEF Authorize, KInv, OidcTypes, OidcTypeOK
    <3>2. Origin(call.to) \in Uris
      <4>1. call.uri \in Flows => call.uri \in Flows0
        BY <3>1, StartsTyped DEF KInv, OidcTypes, Flows, Flows0
      <4> QED BY <3>1, <4>1, StartsTyped DEF Origin, Starts
    <3>3. e \in Starts
      BY <3>1, <3>2 DEF Starts
    <3> QED BY <2>2, <3>3
  <2> QED BY <1>1, <2>1, <2>2 DEF Authorize
<1>2. CASE Restart
  BY <1>2 DEF Restart, Lose
<1>3. CASE UNCHANGED started
  BY <1>3
<1> QED BY <1>1, <1>2, <1>3, Exchanged
        DEF OidcNext, Request, Consent, LoadSession, Refresh, SaveTokens, Complete,
            CompleteFor, oidcVars, vars

\* A flow keeps its session, its page and its time, and stays lost.
LEMMA StartsStay ==
    ASSUME KInv, [OidcNext]_vars
    PROVE  /\ Flows0 \subseteq Flows0' /\ Len(started') \in Nat
           /\ \A f \in Flows0 : /\ started'[f].session = started[f].session
                                /\ started'[f].origin = started[f].origin
                                /\ started'[f].time = started[f].time
                                /\ started[f].lost => started'[f].lost
<1>1. CASE started' = started
  BY <1>1, StartsTyped DEF Flows0
<1>2. ASSUME NEW e \in Starts, started' = Append(started, e)
      PROVE  /\ Len(started') = Len(started) + 1
             /\ \A f \in Flows0 : started'[f] = started[f]
  BY <1>2, StartsTyped DEF Flows0
<1>3. CASE started' = [f \in DOMAIN started |-> Lose(started[f])]
  <2>1. DOMAIN started = Flows0 /\ Len(started) \in Nat
    BY StartsTyped DEF Flows0
  <2>2. Len(started') = Len(started)
    BY <1>3, <2>1 DEF Flows0
  <2>3. \A e \in Starts : Lose(e).session = e.session /\ Lose(e).origin = e.origin
                          /\ Lose(e).time = e.time /\ Lose(e).lost
    BY DEF Starts, Lose
  <2>4. \A f \in Flows0 : started'[f] = Lose(started[f])
    BY <1>3, <2>1
  <2> HIDE DEF Lose
  <2>5. Flows0' = Flows0
    BY <2>2 DEF Flows0
  <2> QED BY <2>1, <2>2, <2>3, <2>4, <2>5, StartsTyped
<1>4. CASE \E e \in Starts : started' = Append(started, e)
  <2>1. Len(started') = Len(started) + 1 /\ \A f \in Flows0 : started'[f] = started[f]
    BY <1>2, <1>4
  <2>2. Flows0 \subseteq Flows0' /\ Len(started') \in Nat
    BY <2>1, StartsTyped DEF Flows0
  <2> QED BY <2>1, <2>2
<1> QED BY <1>1, <1>3, <1>4, StartedStep

LEMMA KnownStays ==
    ASSUME KInv, [OidcNext]_vars, NEW data, FlowKnown(data)
    PROVE  FlowKnown(data)'
BY StartsStay DEF FlowKnown

\* A flow that is started again is for the page of the first.
LEMMA NewFlowKnown ==
    ASSUME KInv, LeadsInv, Authorize, NEW e \in Starts,
           started' = Append(started, e), e.origin = Origin(call.to),
           NEW data, data = [call.data EXCEPT !.flow = NewFlow, !.oidc_complete = None]
    PROVE  FlowKnown(data)'
<1> DEFINE n == Len(started) + 1
<1>1. n \in Flows0' /\ started'[n] = e
  BY StartsTyped DEF Flows0
<1>2. call.to = e.origin
  BY DEF Authorize, LeadsInv, CallLeads
<1>3. data.flow = NewFlow
  BY CallFieldsTyped DEF KInv, Authorize, SessionData
<1>4. data.flow.id = n /\ data.flow.redirect_to = call.to
  BY <1>3 DEF NewFlow
<1> HIDE DEF n
<1> QED BY <1>1, <1>2, <1>4 DEF FlowKnown
\* The copies there are after a step: those before it and what the call saves.
LEMMA CopiesFrom ==
    ASSUME KInv, [OidcNext]_vars, NEW s \in Sessions, NEW v \in Copies(s)'
    PROVE  \/ v \in Copies(s)
           \/ Refresh /\ v.flow = None
           \/ Authorize /\ v = [call.data EXCEPT !.flow = NewFlow, !.oidc_complete = None]
           \/ (SaveTokens \/ Complete) /\ v = call.data
<1>0. Maps
  BY DEF KInv, IInv
<1>1. ASSUME NothingNew PROVE v \in Copies(s)
  BY <1>1 DEF NothingNew
<1>2. ASSUME NEW t \in Sessions, NEW w, NEW ttl, NEW ok, Save(t, w, ttl, ok)
      PROVE  v \in Copies(s) \/ v = w
  BY <1>0, <1>2, SaveCopies
<1>3. call # None => call.session \in Sessions
  BY KFacts
<1>4. CASE UNCHANGED storeVars
  BY <1>0, <1>1, <1>4, SameCopies
<1>5. CASE LoadSession
  BY <1>0, <1>1, <1>3, <1>5, LoadCopies, WedgeCopies DEF LoadSession
<1>6. CASE Refresh
  <2>1. PICK w, kept : w.flow = None /\ (UNCHANGED storeVars \/ Save(call.session, w, SessionTtl, kept))
    BY <1>6 DEF Refresh
  <2> QED BY <1>2, <1>3, <1>4, <1>6, <2>1 DEF Refresh
<1>7. CASE Authorize
  <2> DEFINE w == [call.data EXCEPT !.flow = NewFlow, !.oidc_complete = None]
  <2>1. PICK kept : UNCHANGED storeVars \/ Save(call.session, w, FlowTtl, kept)
    BY <1>7 DEF Authorize, NewFlow
  <2> QED BY <1>2, <1>3, <1>4, <1>7, <2>1 DEF Authorize
<1>8. CASE SaveTokens \/ Complete
  <2>1. call # None /\ \E kept : Save(call.session, call.data, SessionTtl, kept)
    BY <1>8 DEF SaveTokens, Complete, CompleteFor
  <2> QED BY <1>2, <1>3, <1>8, <2>1
<1>9. CASE Sweep \/ Flush \/ StoreRestart
  BY <1>0, <1>1, <1>9, SweepCopies, FlushCopies, RestartCopies
<1> QED BY <1>4, <1>5, <1>6, <1>7, <1>8, <1>9, Exchanged
        DEF OidcNext, Request, Consent, Restart, vars

LEMMA CopiesLead ==
    ASSUME KInv, LeadsInv, [OidcNext]_vars, NEW s \in Sessions, NEW v \in Copies(s)'
    PROVE  FlowKnown(v)'
<1>1. CASE v \in Copies(s)
  BY <1>1, KnownStays DEF LeadsInv
<1>2. CASE v.flow = None
  BY <1>2 DEF FlowKnown
<1>3. CASE Authorize /\ v = [call.data EXCEPT !.flow = NewFlow, !.oidc_complete = None]
  <2>1. CASE started' = started
    <3>1. PICK ok \in BOOLEAN, kept \in BOOLEAN :
              IF ok THEN \E e : started' = Append(started, e) ELSE UNCHANGED storeVars
      BY <1>3 DEF Authorize
    <3>2. ASSUME NEW e PROVE started # Append(started, e)
      BY StartsTyped
    <3>3. UNCHANGED storeVars
      BY <2>1, <3>1, <3>2
    <3>4. v \in Copies(s)
      BY <3>3, SameCopies DEF KInv, IInv, NothingNew
    <3> QED BY <1>1, <3>4
  <2>2. CASE \E e \in Starts : started' = Append(started, e) /\ e.origin = Origin(call.to)
    BY <1>3, <2>2, NewFlowKnown
  <2>3. ~Restart
    BY <1>3 DEF Authorize, Restart, Answer
  <2> QED BY <2>1, <2>2, <2>3, StartedStep
<1>4. CASE (SaveTokens \/ Complete) /\ v = call.data
  <2>1. FlowKnown(v)
    BY <1>4 DEF LeadsInv, CallLeads, SaveTokens, Complete, CompleteFor
  <2> QED BY <2>1, KnownStays
<1> QED BY <1>1, <1>2, <1>3, <1>4, CopiesFrom

\* The invariant of a call that goes on, from what it goes on with.
LEMMA GoesOnLeading ==
    ASSUME KInv, LeadsInv, [OidcNext]_vars, started' = started, call # None,
           NEW step, NEW data, NEW to, GoTo(step, data, to), FlowKnown(data),
           step \in {"exchange", "save", "complete"} =>
              call.uri \in Flows0 /\ to = started[call.uri].origin,
           step = "authorize" =>
              \/ call.uri \in Flows0 /\ data.oidc_complete = None /\ to = started[call.uri].origin
              \/ data.oidc_complete # None
              \/ call.uri \notin Flows,
           step = "refresh" => data.oidc_complete # None
    PROVE  CallLeads'
<1>1. /\ call'.session = call.session /\ call'.uri = call.uri
      /\ call'.step = step /\ call'.data = data /\ call'.to = to
  BY GoesOn
<1>2. Flows0' = Flows0 /\ Flows0 \subseteq Flows
  BY StartsTyped DEF Flows0
<1>3. FlowKnown(call.data)'
  BY <1>1, <1>2 DEF FlowKnown
<1>4. step = "authorize" => to = Origin(to)'
  BY <1>1, <1>2 DEF Origin
<1>5. call.uri \in Flows => call.uri \in Flows0
  BY DEF LeadsInv, CallLeads
<1> QED BY <1>1, <1>2, <1>3, <1>4, <1>5 DEF CallLeads, Origin

LEMMA LoadLeads ==
    ASSUME KInv, LeadsInv, LoadSession
    PROVE  CallLeads'
<1>1. call # None /\ call.session \in Sessions /\ started' = started /\ [OidcNext]_vars
  BY KFacts DEF LoadSession, OidcNext
<1>2. CASE call' = call
  BY <1>1, <1>2 DEF LeadsInv, CallLeads, FlowKnown, Flows0, Origin
<1>3. CASE call' = None
  BY <1>3 DEF CallLeads
<1>4. ASSUME NEW data, FlowKnown(data), Dispatch(data) PROVE CallLeads'
  <2>1. CASE data.oidc_complete # None /\ GoTo("refresh", data, call.uri)
    BY <1>1, <1>4, <2>1, GoesOnLeading
  <2>2. CASE LoginNeeded(data) /\ GoTo("authorize", data, call.uri)
    <3>1. data.oidc_complete # None \/ call.uri \notin Flows
      BY <2>2, OidcAssumption DEF LoginNeeded, Flows
    <3> QED BY <1>1, <1>4, <2>2, <3>1, GoesOnLeading
  <2>3. CASE ~Valid(data) /\ ~LoginNeeded(data) /\ OwnFlow(data)
               /\ (GoTo("authorize", data, data.flow.redirect_to)
                    \/ GoTo("exchange", data, data.flow.redirect_to))
    <3> DEFINE to == data.flow.redirect_to
    <3>1. call.uri \in Flows0 /\ to = started[call.uri].origin /\ data.oidc_complete = None
      BY <1>4, <2>3 DEF LoginNeeded, OwnFlow, FlowKnown
    <3>2. GoTo("authorize", data, to) \/ GoTo("exchange", data, to)
      BY <2>3
    <3> HIDE DEF to
    <3> QED BY <1>1, <1>4, <3>1, <3>2, GoesOnLeading
  <2> QED BY <1>3, <1>4, <2>1, <2>2, <2>3, Dispatched DEF Answer
<1>5. FlowKnown(NoData)
  BY DEF FlowKnown, NoData
<1>6. ASSUME NEW v \in Copies(call.session) \cup {None}
      PROVE  FlowKnown(IF v = None THEN NoData ELSE v)
  BY <1>1, <1>5 DEF LeadsInv
<1> QED BY <1>2, <1>4, <1>6 DEF LoadSession

LEMMA LeadsInvStep ==
    ASSUME KInv, LeadsInv, [OidcNext]_vars
    PROVE  LeadsInv'
<1>1. \A s \in Sessions : \A v \in Copies(s)' : FlowKnown(v)'
  BY CopiesLead
<1>2. ASSUME call' = call, started' = started PROVE CallLeads'
  BY <1>2 DEF LeadsInv, CallLeads, FlowKnown, Flows0, Origin
<1>3. ASSUME call' = None PROVE CallLeads'
  BY <1>3 DEF CallLeads
<1>4. ASSUME NEW s \in Sessions, NEW uri \in Asks, NEW upgrade, Request(s, uri, upgrade),
             call' # None
      PROVE  CallLeads'
  <2>1. /\ call'.session = s /\ call'.uri = uri /\ call'.step = "load" /\ call'.data = NoData
        /\ started' = started
    BY <1>4 DEF Request
  <2>2. uri \in Flows => uri \in Flows0
    BY OidcAssumption DEF Asks, Flows, Flows0
  <2> QED BY <2>1, <2>2 DEF CallLeads, FlowKnown, NoData, Flows0
<1>5. ASSUME Refresh PROVE CallLeads'
  <2> DEFINE data == [call.data EXCEPT !.refresh_token = FALSE]
  <2>1. CASE GoTo("authorize", data, call.uri)
    <3>1. call # None /\ started' = started
      BY <1>5 DEF Refresh
    <3>2. data.flow = call.data.flow /\ data.oidc_complete = call.data.oidc_complete
      BY <3>1, KFacts DEF SessionData
    <3>3. data.oidc_complete # None /\ FlowKnown(call.data)
      BY <1>5, <3>1, <3>2 DEF Refresh, LeadsInv, CallLeads
    <3> HIDE DEF data
    <3>4. FlowKnown(data)
      BY <3>2, <3>3 DEF FlowKnown
    <3> QED BY <2>1, <3>1, <3>3, <3>4, GoesOnLeading
  <2> QED BY <1>3, <1>5, <2>1 DEF Refresh, Answer
<1>6. ASSUME Exchange PROVE CallLeads'
  <2> DEFINE data(token) == [call.data EXCEPT !.flow = None, !.refresh_token = token]
  <2>1. ASSUME NEW token \in BOOLEAN, GoTo("save", data(token), call.to) PROVE CallLeads'
    <3>1. call # None /\ call.step = "exchange" /\ started' = started
      BY <1>6, Exchanged
    <3>2. data(token).flow = None
      BY <3>1, KFacts DEF SessionData
    <3>3. call.uri \in Flows0 /\ call.to = started[call.uri].origin
      BY <3>1 DEF LeadsInv, CallLeads
    <3> HIDE DEF data
    <3> QED BY <2>1, <3>1, <3>2, <3>3, GoesOnLeading DEF FlowKnown
  <2>2. Answer(<<"failed">>) \/ \E token \in BOOLEAN : GoTo("save", data(token), call.to)
    BY <1>6, Zenon DEF Exchange
  <2> HIDE DEF data
  <2> QED BY <1>3, <2>1, <2>2 DEF Answer
<1>7. ASSUME SaveTokens PROVE CallLeads'
  <2> DEFINE data == [call.data EXCEPT !.oidc_complete = call.now]
  <2>1. /\ call # None /\ call.step = "save" /\ started' = started
        /\ GoTo("complete", data, call.to)
    BY <1>7 DEF SaveTokens
  <2>2. data.flow = call.data.flow
    BY <2>1, KFacts DEF SessionData
  <2>3. call.uri \in Flows0 /\ call.to = started[call.uri].origin /\ FlowKnown(call.data)
    BY <2>1 DEF LeadsInv, CallLeads
  <2> HIDE DEF data
  <2>4. FlowKnown(data)
    BY <2>2, <2>3 DEF FlowKnown
  <2> QED BY <2>1, <2>3, <2>4, GoesOnLeading
<1>8. CallLeads'
  BY <1>2, <1>3, <1>4, <1>5, <1>6, <1>7, LoadLeads
  DEF OidcNext, Consent, Authorize, Complete, CompleteFor, Restart, Answer, oidcVars, vars
<1> QED BY <1>1, <1>8 DEF LeadsInv

LEMMA LeadsInvInit == StoreInit /\ OidcInit => LeadsInv
BY DEF StoreInit, OidcInit, LeadsInv, CallLeads, Copies
-----------------------------------------------------------------------------
(* The newest flow.  Memory keeps the flow that a session started last for *)
(* the ttl of the flow, or the login that came of it; only between the two *)
(* saves of a callback it has neither.                                     *)

Young(f) == clock < started[f].time + FlowTtl

\* The data are good for the callback of flow f: it is not refused.
Good(data, f) == data.oidc_complete # None \/ (data.flow # None /\ data.flow.id = f)

Completes(s) == call # None /\ call.session = s /\ call.step = "complete"

InMemory(s, f) ==
    /\ hot[s] # None
    /\ started[f].time + FlowTtl <= hot[s].expires
    /\ Good(hot[s].value, f)

NewestInv ==
    \A f \in Flows0 :
        /\ started[f].time <= clock
        /\ Newest(f) /\ ~started[f].lost /\ Young(f) =>
              Completes(started[f].session) \/ InMemory(started[f].session, f)

LEMMA TimesTyped ==
    ASSUME KInv, NEW f \in Flows0
    PROVE  started[f].time \in Nat /\ started[f].session \in Sessions
BY StartsTyped DEF Starts, Times

\* A flow that is the newest, not lost and young after a step was so before it.
LEMMA NewestBefore ==
    ASSUME KInv, [OidcNext]_vars, NEW f \in Flows0, Newest(f)', ~started'[f].lost, Young(f)'
    PROVE  Newest(f) /\ ~started[f].lost /\ Young(f)
<1>1. clock' = clock \/ clock' = clock + 1
  BY ClockRuns
<1>2. started[f].time \in Nat /\ clock \in Nat /\ FlowTtl \in Nat
  BY TimesTyped, KFacts
<1>3. Young(f)
  BY <1>1, <1>2, StartsStay DEF Young
<1>4. Newest(f)
  <2> SUFFICES ASSUME NEW g \in (f + 1)..Len(started) PROVE started[g].session # started[f].session
    BY DEF Newest
  <2>1. g \in Flows0 /\ g \in (f + 1)..Len(started')
    BY StartsTyped, StartsStay DEF Flows0
  <2>2. started'[g].session # started'[f].session
    BY <2>1 DEF Newest
  <2> QED BY <2>1, <2>2, StartsStay
<1> QED BY <1>3, <1>4, StartsStay

\* A login that is valid for no less than a flow is kept for no less.
LEMMA KeptAsLong ==
    ASSUME KInv, FlowTtl <= SessionTtl
    PROVE  Clamped(SessionTtl) \in Nat /\ FlowTtl <= Clamped(SessionTtl)
BY KFacts DEF Clamped

\* A call that saves for the session of the newest flow saves what is good for it.
LEMMA HandlerKeeps ==
    ASSUME KInv, [OidcNext]_vars, FlowTtl <= SessionTtl, NEW f \in Flows0, started[f].time <= clock,
           ~started'[f].lost, Newest(f)',
           NEW s \in Sessions, s = started[f].session, Handles(s), Live(hot[s]), ~Restart
    PROVE  hot'[s] = hot[s] \/ Completes(s)' \/ InMemory(s, f)'
<1>0. /\ started[f].time \in Nat /\ clock \in Nat /\ FlowTtl \in Nat
      /\ call # None /\ call.session = s /\ call.step # "load" /\ call.data \in SessionData
      /\ started'[f].time = started[f].time
  BY TimesTyped, KFacts, StartsStay DEF Handles
<1>1. Clamped(SessionTtl) \in Nat /\ started[f].time + FlowTtl <= clock + Clamped(SessionTtl)
  BY <1>0, KeptAsLong
<1>2. ASSUME NEW v \in SessionData, NEW kept, Save(s, v, SessionTtl, kept), v.oidc_complete # None
      PROVE  InMemory(s, f)'
  <2>1. hot'[s] # None /\ hot'[s].value = v /\ hot'[s].expires = clock + Clamped(SessionTtl)
    BY <1>0, <1>2, Saved
  <2> QED BY <1>0, <1>1, <1>2, <2>1 DEF InMemory, Good
<1>3. CASE Refresh
  <2> DEFINE data == [flow |-> None, refresh_token |-> TRUE, oidc_complete |-> call.now]
  <2>1. data \in SessionData /\ data.oidc_complete # None
    BY <1>0, KFacts, CallFieldsTyped DEF KInv, SessionData
  <2>2. hot' = hot \/ \E kept : Save(s, data, SessionTtl, kept)
    BY <1>0, <1>3 DEF Refresh, storeVars
  <2> HIDE DEF data
  <2> QED BY <1>2, <2>1, <2>2
<1>4. CASE Authorize
  <2>1. CASE started' = started
    <3>1. PICK ok \in BOOLEAN, kept \in BOOLEAN :
              IF ok THEN \E e : started' = Append(started, e) ELSE UNCHANGED storeVars
      BY <1>4 DEF Authorize
    <3>2. ASSUME NEW e PROVE started # Append(started, e)
      BY StartsTyped
    <3> QED BY <2>1, <3>1, <3>2 DEF storeVars
  <2>2. ASSUME NEW e \in Starts, started' = Append(started, e), e.session = s
        PROVE  FALSE
    <3>1. Len(started') = Len(started) + 1 /\ started'[Len(started) + 1] = e
      BY <2>2, StartsTyped
    <3>2. Len(started) + 1 \in (f + 1)..Len(started')
      BY <3>1, StartsTyped DEF Flows0
    <3> QED BY <2>2, <3>1, <3>2, StartsStay DEF Newest
  <2>3. ~Restart
    BY <1>4 DEF Authorize, Restart, Answer
  <2> QED BY <1>0, <2>1, <2>2, <2>3, StartedStep
<1>5. CASE SaveTokens
  <2>1. GoTo("complete", [call.data EXCEPT !.oidc_complete = call.now], call.to)
    BY <1>5 DEF SaveTokens
  <2>2. call'.session = s /\ call'.step = "complete"
    BY <1>0, <2>1, GoesOn
  <2>3. call' # None
    <3>1. [call.data EXCEPT !.oidc_complete = call.now] \in SessionData
      BY <1>0, CallFieldsTyped DEF KInv, SessionData
    <3>2. call' \in Call
      BY <1>0, <2>1, <3>1, GoToTyped, CallFieldsTyped DEF KInv, Steps
    <3> QED BY <3>2, NoneAssumption
  <2> QED BY <2>2, <2>3 DEF Completes
<1>6. CASE Complete
  <2>1. PICK kept : Save(s, call.data, SessionTtl, kept)
    BY <1>0, <1>6 DEF Complete, CompleteFor
  <2>2. call.data.oidc_complete # None
    BY <1>0, <1>6, KFacts DEF Complete, CompleteFor, KInv, DoneInv
  <2> QED BY <1>0, <1>2, <2>1, <2>2
<1>7. CASE Exchange
  BY <1>7, Exchanged DEF storeVars
<1>8. CASE Sweep
  <2>1. ~Expired(hot[s])
    BY KFacts DEF Live, Expired
  <2> QED BY <1>8, <2>1 DEF Sweep
<1>9. CASE LoadSession
  BY <1>0, <1>9 DEF LoadSession
<1>10. CASE UNCHANGED hot
  BY <1>10
<1> QED BY <1>3, <1>4, <1>5, <1>6, <1>7, <1>8, <1>9, <1>10
        DEF OidcNext, Request, Consent, Flush, storeVars, vars

LEMMA NewestInvStep ==
    ASSUME KInv, NewestInv, [OidcNext]_vars, FlowTtl <= SessionTtl
    PROVE  NewestInv'
<1>0. clock \in Nat /\ FlowTtl \in Nat /\ (clock' = clock \/ clock' = clock + 1)
  BY KFacts, ClockRuns
<1>1. ASSUME NEW f \in Flows0 PROVE started'[f].time <= clock'
  <2>1. started[f].time <= clock /\ started[f].time \in Nat /\ started'[f].time = started[f].time
    BY TimesTyped, StartsStay DEF NewestInv
  <2> QED BY <1>0, <2>1
<1>2. ASSUME NEW f \in Flows0, Newest(f)', ~started'[f].lost, Young(f)'
      PROVE  Completes(started[f].session)' \/ InMemory(started[f].session, f)'
  <2>1. PICK s \in Sessions : s = started[f].session /\ s = started'[f].session
    BY TimesTyped, StartsStay
  <2>2. /\ started[f].time <= clock /\ started[f].time \in Nat /\ started'[f].time = started[f].time
        /\ Young(f) /\ (Completes(s) \/ InMemory(s, f))
    BY <1>2, <2>1, NewestBefore, TimesTyped, StartsStay DEF NewestInv
  <2>3. ~Restart
    <3>1. \A e \in Starts : Lose(e).lost
      BY DEF Starts, Lose
    <3>2. ASSUME Restart PROVE started'[f].lost
      BY <3>1, <3>2, StartsTyped DEF Restart, Lose, Flows0
    <3> QED BY <1>2, <3>2
  <2>4. CASE Completes(s)
    <3>1. CASE call' = call
      BY <2>1, <2>4, <3>1 DEF Completes
    <3>2. CASE Complete
      <4>1. PICK kept : Save(s, call.data, SessionTtl, kept)
        BY <2>4, <3>2 DEF Complete, CompleteFor, Completes
      <4>2. call.data \in SessionData /\ call.data.oidc_complete # None
        BY <2>4, KFacts DEF Completes, KInv, DoneInv
      <4>3. /\ hot'[s] # None /\ hot'[s].value = call.data
            /\ hot'[s].expires = clock + Clamped(SessionTtl)
        BY <4>1, <4>2, Saved
      <4>4. started'[f].time + FlowTtl <= hot'[s].expires
        BY <1>0, <2>2, <4>3, KeptAsLong
      <4> QED BY <2>1, <4>2, <4>3, <4>4 DEF InMemory, Good
    <3> QED BY <2>1, <2>3, <2>4, <3>1, <3>2, Exchanged
            DEF Completes, OidcNext, Request, Consent, LoadSession, Refresh, Authorize, SaveTokens,
                oidcVars, vars
  <2>5. CASE InMemory(s, f)
    <3>1. Live(hot[s])
      BY <1>0, <2>2, <2>5, KFacts DEF InMemory, Young, Live
    <3>2. CASE hot'[s] = hot[s]
      BY <2>1, <2>2, <2>5, <3>2 DEF InMemory, Good
    <3>3. CASE hot'[s] # hot[s]
      <4>1. Handles(s)
        BY <2>3, <3>1, <3>3, LiveStays
      <4>2. Completes(s)' \/ InMemory(s, f)'
        BY <1>2, <2>1, <2>2, <2>3, <3>1, <3>3, <4>1, HandlerKeeps
      <4> QED BY <2>1, <4>2 DEF Completes, InMemory
    <3> QED BY <3>2, <3>3
  <2> QED BY <2>2, <2>4, <2>5
<1>3. ASSUME NEW f \in Flows0', f \notin Flows0
      PROVE  /\ started'[f].time <= clock'
             /\ InMemory(started[f].session, f)'
  <2>1. Authorize /\ \E e \in Starts : /\ started' = Append(started, e)
                                       /\ e.session = call.session /\ e.time = clock
    <3>1. \/ started' = started
          \/ Restart /\ started' = [g \in DOMAIN started |-> Lose(started[g])]
          => Flows0' = Flows0
      BY StartsTyped DEF Flows0
    <3> QED BY <1>3, <3>1, StartedStep
  <2>2. PICK e \in Starts : /\ started' = Append(started, e)
                            /\ e.session = call.session /\ e.time = clock
    BY <2>1
  <2>3. f = Len(started) + 1 /\ started'[f] = e
    BY <1>3, <2>2, StartsTyped DEF Flows0
  <2> DEFINE data == [call.data EXCEPT !.flow = NewFlow, !.oidc_complete = None]
  <2>4. \E kept : Save(call.session, data, FlowTtl, kept)
    <3>1. started' # started
      BY <1>3 DEF Flows0
    <3> QED BY <2>1, <3>1 DEF Authorize, NewFlow
  <2>5. data \in SessionData
    BY <2>1, FlowTyped DEF KInv
  <2>6. Good(data, f)
    <3>1. call.data \in SessionData /\ data.flow = NewFlow
      BY <2>1, KFacts DEF Authorize, SessionData
    <3>2. NewFlow.id = f /\ NewFlow # None
      <4>1. NewFlow.id = f
        BY <2>3 DEF NewFlow
      <4>2. NewFlow # None
        BY <2>1, FlowTyped, NoneAssumption DEF KInv
      <4> QED BY <4>1, <4>2
    <3> QED BY <3>1, <3>2 DEF Good
  <2> HIDE DEF data
  <2>7. call.session \in Sessions /\ clock' = clock
    BY <2>1, KFacts DEF Authorize
  <2>8. PICK d : d = data
    OBVIOUS
  <2>9. /\ hot'[call.session] # None /\ hot'[call.session].value = d
        /\ hot'[call.session].expires = clock + FlowTtl
    BY <1>0, <2>4, <2>5, <2>7, <2>8, Saved, ClampedTyped, KFacts
  <2>10. Good(d, f)
    BY <2>6, <2>8
  <2> QED BY <1>0, <2>2, <2>3, <2>7, <2>9, <2>10 DEF InMemory, Good
<1>4. \A f \in Flows0 : started'[f].session = started[f].session
  BY StartsStay
<1> QED BY <1>1, <1>2, <1>3, <1>4 DEF NewestInv
LEMMA NewestInvInit == StoreInit /\ OidcInit => NewestInv
BY DEF OidcInit, NewestInv, Flows0

\* What NewestFlowCompletes says of one step.
FlowCompletes ==
    /\ (/\ call # None /\ call.step = "load" /\ call.uri \in Flows
        /\ started[call.uri].session = call.session
        /\ Newest(call.uri) /\ ~started'[call.uri].lost
        /\ clock < started[call.uri].time + FlowTtl)
       => ~Answered("bad")
    /\ Answered("landed") => answer'[2] = started[call.uri].origin

\* The load of a callback of the newest flow finds what is good for it.
LEMMA NewestAccepted ==
    ASSUME KInv, LeadsInv, NewestInv, LoadSession, call.uri \in Flows,
           started[call.uri].session = call.session, Newest(call.uri),
           ~started[call.uri].lost, Young(call.uri)
    PROVE  ~Answered("bad")
<1> DEFINE s == call.session
           f == call.uri
<1>1. call # None /\ s \in Sessions /\ call.step = "load" /\ answer = <<"none">>
  BY KFacts DEF LoadSession
<1>2. f \in Flows0 /\ started[f].session = s /\ started[f].time \in Nat
  BY <1>1, TimesTyped DEF LeadsInv, CallLeads
<1>3. hot[s] # None /\ Live(hot[s]) /\ Good(hot[s].value, f) /\ hot[s].value \in SessionData
  <2>1. InMemory(s, f) /\ ~started[f].lost
    BY <1>1, <1>2 DEF NewestInv, Completes
  <2> QED BY <1>1, <1>2, <2>1, KFacts DEF InMemory, Young, Live
<1>4. ASSUME NEW v, Load(s, v), Dispatch(IF v = None THEN NoData ELSE v)
      PROVE  ~Answered("bad")
  <2>1. v = hot[s].value /\ v # None
    BY <1>3, <1>4, NoneAssumption DEF Load
  <2>2. Dispatch(v) /\ Good(v, f)
    BY <1>3, <1>4, <2>1
  <2>3. LoginNeeded(v) \/ OwnFlow(v)
    BY <2>2 DEF Good, LoginNeeded, OwnFlow
  <2>4. ASSUME NEW step, NEW to, GoTo(step, v, to) PROVE answer'[1] # "bad"
    BY <1>1, <2>4 DEF GoTo
  <2> QED BY <2>2, <2>3, <2>4, Dispatched DEF Answered, Answer
<1>5. CASE UNCHANGED answer
  BY <1>1, <1>5 DEF Answered
<1> QED BY <1>4, <1>5 DEF LoadSession

LEMMA FlowCompletesStep ==
    ASSUME KInv, LeadsInv, NewestInv, [OidcNext]_vars
    PROVE  FlowCompletes
<1>0. call # None => answer = <<"none">>
  BY KFacts
<1>1. ASSUME call # None, call.step = "load", call.uri \in Flows,
             started[call.uri].session = call.session, Newest(call.uri), ~started'[call.uri].lost,
             clock < started[call.uri].time + FlowTtl
      PROVE  ~Answered("bad")
  <2>1. CASE LoadSession
    <3>1. started' = started
      BY <2>1 DEF LoadSession
    <3> QED BY <1>1, <2>1, <3>1, NewestAccepted DEF Young
  <2>2. CASE UNCHANGED answer \/ Restart
    BY <1>0, <1>1, <2>2 DEF Answered, Restart
  <2> QED BY <1>1, <2>1, <2>2, Exchanged
          DEF OidcNext, Request, Consent, Refresh, Authorize, SaveTokens, Complete, CompleteFor,
              oidcVars, vars
<1>2. ASSUME Answered("landed") PROVE answer'[2] = started[call.uri].origin
  <2>1. CASE Complete
    <3>1. call # None /\ call.step = "complete" /\ answer' = <<"landed", call.to>>
      BY <2>1 DEF Complete, CompleteFor, Answer
    <3> QED BY <3>1 DEF LeadsInv, CallLeads
  <2>2. ASSUME answer' = answer \/ Restart PROVE FALSE
    BY <1>0, <1>2, <2>2 DEF Answered, Restart
  <2>3. ASSUME NEW a, a # "landed", Answer(<<a>>) PROVE FALSE
    BY <1>2, <2>3 DEF Answered, Answer
  <2>4. CASE LoadSession
    <3>1. ASSUME NEW data, Dispatch(data) PROVE FALSE
      <4>1. ASSUME NEW step, NEW to, GoTo(step, data, to) PROVE FALSE
        BY <2>2, <4>1 DEF GoTo
      <4> QED BY <2>3, <3>1, <4>1, Dispatched
    <3> QED BY <2>2, <2>4, <3>1 DEF LoadSession
  <2>5. CASE Refresh
    BY <2>2, <2>3, <2>5 DEF Refresh, GoTo
  <2>6. CASE Authorize
    <3>1. Answer(<<"provider">>) \/ Answer(<<"failed">>)
      BY <2>6 DEF Authorize
    <3> QED BY <2>3, <3>1
  <2>7. CASE Exchange
    <3>1. ASSUME NEW data, GoTo("save", data, call.to) PROVE answer' = answer
      BY <3>1 DEF GoTo
    <3> QED BY <2>2, <2>3, <2>7, <3>1, Exchanged
  <2>8. CASE SaveTokens
    BY <2>2, <2>8 DEF SaveTokens, GoTo
  <2>9. ASSUME NEW s, NEW uri, NEW upgrade, Request(s, uri, upgrade) PROVE FALSE
    BY <1>2, <2>9 DEF Request, Answered
  <2> QED BY <2>1, <2>2, <2>4, <2>5, <2>6, <2>7, <2>8, <2>9
          DEF OidcNext, Consent, oidcVars, vars
<1> QED BY <1>1, <1>2 DEF FlowCompletes

\* When a login is valid for at least as long as a flow, five minutes: a callback of
\* the flow its session started last is not refused while the flow is young, in one
\* life of the process; and every login that completes leads to the page it was
\* started for (oidc/src/lib.rs, lines 469-528).
THEOREM NewestFlowsComplete ==
    ASSUME FlowTtl <= SessionTtl
    PROVE  OidcSpec => NewestFlowCompletes
<1>1. OidcSpec => [](KInv /\ LeadsInv /\ NewestInv)
  <2>1. KInv /\ LeadsInv /\ NewestInv /\ [OidcNext]_vars => KInv' /\ LeadsInv' /\ NewestInv'
    BY KInvStep, LeadsInvStep, NewestInvStep
  <2> QED BY <2>1, KInvInit, LeadsInvInit, NewestInvInit, PTL DEF OidcSpec
<1>2. KInv /\ LeadsInv /\ NewestInv /\ [OidcNext]_vars => [FlowCompletes]_vars
  BY FlowCompletesStep
<1>3. OidcSpec => [][FlowCompletes]_vars
  BY <1>1, <1>2, PTL DEF OidcSpec
<1> QED BY <1>3 DEF FlowCompletes, NewestFlowCompletes
-----------------------------------------------------------------------------
(* The two modules over one store: the one that is not mounted has no call *)
(* in progress, and the store changes under the other only by its own.     *)

TogetherInv ==
    /\ mounted = "oidc" => KInv /\ LastInv /\ LeadsInv /\ pow_call = None
    /\ mounted = "oidc" /\ FlowTtl <= SessionTtl => NewestInv
    /\ mounted = "pow" => PInv /\ call = None
    /\ mounted \in {"oidc", "pow"}

\* What the five properties say of one step.
TogetherStep ==
    /\ UNCHANGED vars \/ (PassIsGranted /\ LoginPasses)
    /\ FlowTtl <= SessionTtl => FlowCompletes
    /\ UNCHANGED pow_vars \/ (PassIsEarned /\ ShownIsEnough)

LEMMA TogetherInit == Init => TogetherInv
BY KInvInit, LastInvInit, LeadsInvInit, NewestInvInit, PInvInit DEF Init, TogetherInv, OidcInit, PowInit

LEMMA TogetherNext ==
    ASSUME TogetherInv, [Next]_<<vars, pow_vars, mounted>>
    PROVE  TogetherInv' /\ TogetherStep
<1>1. CASE mounted = "oidc"
  <2>1. [OidcNext]_vars /\ pow_call' = pow_call /\ mounted' = mounted
    BY <1>1 DEF Next, powVars, pow_vars
  <2>2. KInv' /\ LastInv' /\ LeadsInv'
    BY <1>1, <2>1, KInvStep, LastInvStep, LeadsInvStep DEF TogetherInv
  <2>3. UNCHANGED vars \/ (PassIsGranted /\ LoginPasses)
    BY <1>1, <2>1, IInvStep, LoginPassesStep DEF TogetherInv, KInv
  <2>4. PassIsEarned /\ ShownIsEnough
    BY <1>1 DEF TogetherInv, PassIsEarned, ShownIsEnough, Accepted, Replied
  <2>5. ASSUME FlowTtl <= SessionTtl PROVE NewestInv' /\ FlowCompletes
    BY <1>1, <2>1, <2>5, NewestInvStep, FlowCompletesStep DEF TogetherInv
  <2> QED BY <1>1, <2>1, <2>2, <2>3, <2>4, <2>5 DEF TogetherInv, TogetherStep
<1>2. CASE mounted = "pow"
  <2>1. [PowNext]_pow_vars /\ call' = call /\ mounted' = mounted
    BY <1>2 DEF Next, oidcVars, vars
  <2>2. PInv' /\ (UNCHANGED pow_vars \/ (PassIsEarned /\ ShownIsEnough))
    BY <1>2, <2>1, PInvStep DEF TogetherInv
  <2>3. PassIsGranted /\ LoginPasses /\ FlowCompletes
    BY <1>2 DEF TogetherInv, PassIsGranted, LoginPasses, FlowCompletes, Answered
  <2> QED BY <1>2, <2>1, <2>2, <2>3 DEF TogetherInv, TogetherStep
<1> QED BY <1>1, <1>2 DEF TogetherInv

\* Whichever module an ingress names, over one store: what may never pass does not,
\* what is solved is refused for nonce 0 only, a login lasts, and where a login is
\* valid for no less than a flow, the newest flow completes.
THEOREM ModulesTogether ==
    Spec => /\ PassesWereGranted /\ LoginLasts
            /\ PassesAreEarned /\ OnlyZeroIsRefused
            /\ FlowTtl <= SessionTtl => NewestFlowCompletes
<1>1. Spec => []TogetherInv
  BY TogetherInit, TogetherNext, PTL DEF Spec
<1>2. TogetherInv /\ [Next]_<<vars, pow_vars, mounted>> =>
        /\ [PassIsGranted]_vars /\ [LoginPasses]_vars
        /\ [PassIsEarned]_pow_vars /\ [ShownIsEnough]_pow_vars
  BY TogetherNext DEF TogetherStep
<1>3. Spec => /\ [][PassIsGranted]_vars /\ [][LoginPasses]_vars
              /\ [][PassIsEarned]_pow_vars /\ [][ShownIsEnough]_pow_vars
  BY <1>1, <1>2, PTL DEF Spec
<1>4. ASSUME FlowTtl <= SessionTtl PROVE Spec => NewestFlowCompletes
  <2>1. TogetherInv /\ [Next]_<<vars, pow_vars, mounted>> => [FlowCompletes]_vars
    BY <1>4, TogetherNext DEF TogetherStep
  <2>2. Spec => [][FlowCompletes]_vars
    BY <1>1, <2>1, PTL DEF Spec
  <2> QED BY <2>2 DEF FlowCompletes, NewestFlowCompletes
<1> QED BY <1>3, <1>4 DEF PassIsGranted, LoginPasses, PassIsEarned, ShownIsEnough,
           PassesWereGranted, LoginLasts, PassesAreEarned, OnlyZeroIsRefused
=============================================================================
