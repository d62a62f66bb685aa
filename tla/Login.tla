------------------------------- MODULE Login -------------------------------
(***************************************************************************)
(* OidcLogin and ProofOfWork over one store: an ingress that names one     *)
(* module or the other.  Each module has its own key in the store and the  *)
(* calls of different modules share nothing else.                          *)
(***************************************************************************)
EXTENDS OidcLogin, ProofOfWork

VARIABLE mounted   \* the module of the ingress

Init ==
    /\ StoreInit /\ OidcInit /\ PowInit
    /\ mounted \in {"oidc", "pow"}

Next ==
    /\ \/ mounted = "oidc" /\ OidcNext /\ UNCHANGED powVars
       \/ mounted = "pow" /\ PowNext /\ UNCHANGED oidcVars
    /\ UNCHANGED mounted

Spec == Init /\ [][Next]_<<vars, pow_vars, mounted>>

\* What the store keeps, the calls in progress and the records of the past are of
\* the kind that the modules write.
LoginTypeOK ==
    /\ mounted = "oidc" => OidcTypeOK
    /\ mounted = "pow" => PowTypeOK
=============================================================================
