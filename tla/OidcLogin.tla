----------------------------- MODULE OidcLogin -----------------------------
(***************************************************************************)
(* The oidc module (ksbh-modules/oidc): a browser without a login is sent  *)
(* to the identity provider and comes back with a code, which the module   *)
(* exchanges for tokens; the login is valid for SessionTtl and may then be *)
(* refreshed.  What it knows of a session it keeps in the session store.   *)
(*                                                                         *)
(* The calls of the module exclude each other (module_lock of              *)
(* ProxyRequests), so one call is in progress at a time; but it waits for  *)
(* the provider, while the clock runs, entries expire and the watch task   *)
(* flushes, and between two calls of a login the browser may do anything:  *)
(* open a second tab, repeat a callback, come back late.  The state, the   *)
(* nonce and the PKCE verifier of a flow are drawn at random together:     *)
(* here they are the number of the flow.                                   *)
(***************************************************************************)
EXTENDS ModuleSession, Sequences

CONSTANTS
    Pages,        \* the uris outside the module's path
    Favicon,      \* /favicon.ico
    SessionTtl,   \* session_ttl_seconds, any i64 that does not overflow when a time is added
    FlowTtl,      \* FLOW_STATE_TTL_SECS and FIVE_MINUTES
    EnableRefresh,
    MaxFlows      \* bound: logins that are started

Flows == 1..MaxFlows
Callbacks == 0..MaxFlows    \* the module's path with the code and state of a flow; 0: without
Uris == Pages \cup {Favicon} \cup Callbacks

ASSUME OidcAssumption ==
    /\ SessionTtl \in Int /\ FlowTtl \in 0..MaxTtl /\ MaxFlows \in Nat
    /\ EnableRefresh \in BOOLEAN
    /\ Favicon \notin Pages
    /\ (Pages \cup {Favicon}) \cap Nat = {}

VARIABLES
    call,       \* the call in progress, or None
    metadata,   \* is the provider's metadata cached
    codes,      \* flow -> is its code "unissued", "issued" or "redeemed" (the provider's)
    started,    \* the flows started: of which session, for which page, when
    granted,    \* session -> when the provider last granted it tokens, or None
    login,      \* session -> oidc_complete of its last login in this process, or None
    answer      \* the answer of the last call, until the next one begins

oidcVars == <<call, metadata, codes, started, granted, login, answer>>
vars == <<clock, storeVars, oidcVars>>

Times == 0..MaxTime
FlowState == [id : Flows, redirect_to : Uris, time : Times]
SessionData == [flow : FlowState \cup {None}, refresh_token : BOOLEAN,
                oidc_complete : Times \cup {None}]
Entry == [value : SessionData, expires : Nat]   \* of the map in memory
NoData == [flow |-> None, refresh_token |-> FALSE, oidc_complete |-> None]
Steps == {"load", "refresh", "authorize", "exchange", "save", "complete"}
Call == [session : Sessions, uri : Uris, upgrade : BOOLEAN, now : Times,
         step : Steps, data : SessionData, to : Uris]

ASSUME NoneAssumption == None \notin FlowState \cup SessionData \cup Entry \cup Call

OidcInit ==
    /\ call = None
    /\ metadata = FALSE
    /\ codes = [f \in Flows |-> "unissued"]
    /\ started = <<>>
    /\ granted = [s \in Sessions |-> None]
    /\ login = [s \in Sessions |-> None]
    /\ answer = <<"none">>

-----------------------------------------------------------------------------
(* The browser and the provider.                                           *)

\* The uris a browser may ask for: a callback only once the provider has sent a
\* browser back, as often and as late as it likes, and with any session.
Asks == Pages \cup {Favicon, 0} \cup {f \in 1..Len(started) : codes[f] # "unissued"}

\* process is called: the clock is read before the session.
Request(s, uri, upgrade) ==
    /\ call = None
    /\ IF uri = Favicon
       THEN answer' = <<"favicon">> /\ call' = None
       ELSE /\ call' = [session |-> s, uri |-> uri, upgrade |-> upgrade, now |-> clock,
                        step |-> "load", data |-> NoData, to |-> uri]
            /\ answer' = <<"none">>
    /\ UNCHANGED <<clock, storeVars, metadata, codes, started, granted, login>>

\* The user signs in at the provider with the url of flow f.
Consent(f) ==
    /\ f <= Len(started)
    /\ started[f].sent
    /\ codes[f] = "unissued"
    /\ codes' = [codes EXCEPT ![f] = "issued"]
    /\ UNCHANGED <<clock, storeVars, call, metadata, started, granted, login, answer>>

-----------------------------------------------------------------------------
(* process.                                                                *)

Answer(a) == answer' = a /\ call' = None
GoTo(step, data, to) ==
    /\ call' = [call EXCEPT !.step = step, !.data = data, !.to = to]
    /\ UNCHANGED answer

\* Mutant: a stored login is taken to be valid.
ValidWhileStored(data) == data.oidc_complete # None

Valid(data) == data.oidc_complete # None /\ call.now < data.oidc_complete + SessionTtl

OwnFlow(data) == data.flow # None /\ data.flow.id = call.uri
Late(flow) == call.now > flow.time + FlowTtl

\* Mutant: a late callback starts the login again for the uri of the callback.
CallbackForgets(data) ==
    \/ ~OwnFlow(data) /\ Answer(<<"bad">>)
    \/ OwnFlow(data) /\ Late(data.flow) /\ GoTo("authorize", data, call.uri)
    \/ OwnFlow(data) /\ ~Late(data.flow) /\ GoTo("exchange", data, data.flow.redirect_to)

\* A callback without a code, without a flow in the session or with the state of
\* another flow is refused; a late one starts the login again.
Callback(data) ==
    \/ ~OwnFlow(data) /\ Answer(<<"bad">>)
    \/ OwnFlow(data) /\ Late(data.flow) /\ GoTo("authorize", data, data.flow.redirect_to)
    \/ OwnFlow(data) /\ ~Late(data.flow) /\ GoTo("exchange", data, data.flow.redirect_to)

\* What follows the load: pass, refresh, a new login, or the callback.
Refreshable(data) == data.oidc_complete # None /\ EnableRefresh /\ data.refresh_token
LoginNeeded(data) == call.uri \in Pages \/ data.oidc_complete # None

Dispatch(data) ==
    IF Valid(data) THEN Answer(<<"pass">>)
    ELSE IF call.upgrade THEN Answer(<<"unauthorized">>)
    ELSE IF Refreshable(data) THEN GoTo("refresh", data, call.uri)
    ELSE IF LoginNeeded(data) THEN GoTo("authorize", data, call.uri)
    ELSE Callback(data)

LoadSession ==
    /\ call # None /\ call.step = "load"
    /\ \/ \E v \in Copies(call.session) \cup {None} :
             /\ Load(call.session, v)
             /\ Dispatch(IF v = None THEN NoData ELSE v)
       \/ LoadWedges(call.session) /\ UNCHANGED <<call, answer>>
    /\ UNCHANGED <<clock, metadata, codes, started, granted, login>>

\* build_oidc_client succeeds when the metadata is cached, fresh or not, or when
\* one of the attempts at discovery does.
Client(ok) ==
    IF metadata THEN ok /\ UNCHANGED metadata ELSE metadata' = ok

Grant(s) == granted' = [granted EXCEPT ![s] = clock]

\* exchange_refresh_token.  The provider may have granted what never arrives.
Refresh ==
    /\ call # None /\ call.step = "refresh"
    /\ LET s == call.session
           refreshed == [flow |-> None, refresh_token |-> TRUE, oidc_complete |-> call.now]
       IN  \E ok \in BOOLEAN :
              /\ Client(ok)
              /\ \/ /\ ok
                    /\ Grant(s)
                    /\ \E kept \in BOOLEAN : Save(s, refreshed, SessionTtl, kept)
                    /\ login' = [login EXCEPT ![s] = call.now]
                    /\ Answer(<<"refreshed">>)
                 \/ /\ \/ ok /\ Grant(s)
                       \/ UNCHANGED granted
                    /\ GoTo("authorize", [call.data EXCEPT !.refresh_token = FALSE], call.uri)
                    /\ UNCHANGED <<storeVars, login>>
    /\ UNCHANGED <<clock, codes, started>>

\* The page a login for uri is for: a late callback is for the page of its flow.
Origin(uri) ==
    IF call.uri \in Flows /\ call.data.oidc_complete = None
    THEN started[call.uri].origin ELSE uri

\* get_authorization_code: a new flow replaces the one the session had.
Authorize ==
    /\ call # None /\ call.step = "authorize"
    /\ Len(started) < MaxFlows
    /\ \E ok \in BOOLEAN, kept \in BOOLEAN :
          /\ Client(ok)
          /\ IF ok
             THEN LET f == Len(started) + 1
                      flow == [id |-> f, redirect_to |-> call.to, time |-> clock]
                      data == [call.data EXCEPT !.flow = flow, !.oidc_complete = None]
                  IN  /\ Save(call.session, data, FlowTtl, kept)
                      /\ started' = Append(started,
                             [session |-> call.session, origin |-> Origin(call.to),
                              time |-> clock, sent |-> kept, lost |-> FALSE])
                      /\ Answer(IF kept THEN <<"provider">> ELSE <<"failed">>)
             ELSE /\ ~kept
                  /\ Answer(<<"failed">>)
                  /\ UNCHANGED <<storeVars, started>>
    /\ UNCHANGED <<clock, codes, granted, login>>

\* exchange_token: the provider redeems a code once, for its own flow, and its
\* answer may be lost.
Exchange ==
    /\ call # None /\ call.step = "exchange"
    /\ \E ok \in BOOLEAN :
          /\ Client(ok)
          /\ \/ /\ ok
                /\ codes[call.uri] = "issued"
                /\ codes' = [codes EXCEPT ![call.uri] = "redeemed"]
                /\ Grant(call.session)
                /\ \/ \E token \in BOOLEAN :
                         GoTo("save", [call.data EXCEPT !.flow = None, !.refresh_token = token],
                              call.to)
                   \/ Answer(<<"failed">>)
             \/ /\ Answer(<<"failed">>)
                /\ UNCHANGED <<codes, granted>>
    /\ UNCHANGED <<clock, storeVars, started, login>>

\* The session is saved without the login, then with it; the outcome is not
\* looked at.
SaveTokens ==
    /\ call # None /\ call.step = "save"
    /\ \E kept \in BOOLEAN : Save(call.session, call.data, SessionTtl, kept)
    /\ GoTo("complete", [call.data EXCEPT !.oidc_complete = call.now], call.to)
    /\ UNCHANGED <<clock, metadata, codes, started, granted, login>>

CompleteFor(ttl) ==
    /\ call # None /\ call.step = "complete"
    /\ \E kept \in BOOLEAN : Save(call.session, call.data, ttl, kept)
    /\ login' = [login EXCEPT ![call.session] = call.now]
    /\ Answer(<<"landed", call.to>>)
    /\ UNCHANGED <<clock, metadata, codes, started, granted>>

\* Mutant: the login is stored for as long as a flow.
CompleteBriefly == CompleteFor(FlowTtl)

Complete == CompleteFor(SessionTtl)

-----------------------------------------------------------------------------
Restart ==
    /\ StoreRestart
    /\ call' = None
    /\ metadata' = FALSE
    /\ started' = [f \in DOMAIN started |-> [started[f] EXCEPT !.lost = TRUE]]
    /\ login' = [s \in Sessions |-> None]
    /\ answer' = <<"none">>
    /\ UNCHANGED <<clock, codes, granted>>

OidcNext ==
    \/ \E s \in Sessions, uri \in Asks : \E upgrade \in {FALSE, (uri \in Pages)} :
          Request(s, uri, upgrade)
    \/ \E f \in Flows : Consent(f)
    \/ LoadSession
    \/ Refresh
    \/ Authorize
    \/ Exchange
    \/ SaveTokens
    \/ Complete
    \/ (Sweep \/ Flush) /\ UNCHANGED <<clock, oidcVars>>
    \/ Tick /\ UNCHANGED <<storeVars, oidcVars>>
    \/ Restart

OidcSpec == StoreInit /\ OidcInit /\ [][OidcNext]_vars

-----------------------------------------------------------------------------
OidcTypeOK ==
    /\ clock \in Times
    /\ wedged \subseteq Sessions
    /\ \A s \in Sessions : Copies(s) \subseteq SessionData
    /\ call \in Call \cup {None}
    /\ metadata \in BOOLEAN
    /\ codes \in [Flows -> {"unissued", "issued", "redeemed"}]
    /\ started \in Seq([session : Sessions, origin : Uris, time : Times,
                        sent : BOOLEAN, lost : BOOLEAN])
    /\ granted \in [Sessions -> Times \cup {None}]
    /\ login \in [Sessions -> Times \cup {None}]

Answered(kind) == call # None /\ call' = None /\ answer'[1] = kind

\* However old the value that the store brings back, and however long a call
\* took, a request passes only within the ttl of a moment at which the provider
\* granted its session tokens (process, lines 413-424).
PassesWereGranted ==
    [][Answered("pass") =>
          /\ granted[call.session] # None
          /\ call.now < granted[call.session] + SessionTtl]_vars

\* Until the process restarts, a login that was completed or refreshed lasts for
\* session_ttl_seconds or for the day that the host keeps it, whichever is less,
\* whatever Redis answered and whatever the other tabs and the watch task do: every
\* request of the session passes (lines 440-460 and 524-528; host_functions.rs 230).
LoginLasts ==
    [][LET s == call.session
       IN  (/\ call # None /\ call.step = "load" /\ call' # call
            /\ login'[s] # None /\ clock < login[s] + SessionTtl /\ clock < login[s] + MaxTtl)
           => answer' = <<"pass">>]_vars

Newest(f) ==
    \A g \in (f + 1)..Len(started) : started[g].session # started[f].session

\* The callback of the flow that its session started last is not refused within
\* the ttl of the flow, in one life of the process, however often the provider
\* has failed it; and a login that completes, be it after late callbacks that
\* started it again, leads to the page it was started for (lines 469-528).  The
\* login must be valid for no less than the flow: where session_ttl_seconds is less
\* than five minutes, a callback repeated after its login has expired is refused.
NewestFlowCompletes ==
    [][/\ (/\ call # None /\ call.step = "load" /\ call.uri \in Flows
           /\ started[call.uri].session = call.session
           /\ Newest(call.uri) /\ ~started'[call.uri].lost
           /\ clock < started[call.uri].time + FlowTtl)
          => ~Answered("bad")
       /\ Answered("landed") => answer'[2] = started[call.uri].origin]_vars
=============================================================================
