------------------------------- MODULE Certs -------------------------------
(***************************************************************************)
(* The registry of certificates (ksbh-core/certs.rs): certs holds one for  *)
(* every TLS secret, certs_domains one for every name that a certificate   *)
(* bears, and for what follows the "*." of every wildcard.  add_cert is    *)
(* called by several tasks and awaits between its writes; get_cert answers *)
(* the handshakes (ksbh-bin/tls).                                          *)
(***************************************************************************)
EXTENDS Integers, Sequences, FiniteSets

CONSTANTS
    Secrets,        \* names of TLS secrets
    DomainNames,    \* what a client may ask for and a certificate may bear
    Certificates,   \* the certificates that secrets may hold
    Domains,        \* Cert::domains of each
    Wildcards,      \* Cert::wildcards of each, without their "*."
    Parent,         \* a name without its first label, where something is left
    Suffixes,       \* str::ends_with: the names in which a name ends, itself not
    NameLen,        \* str::len
    DefaultCert,    \* DEFAULT_CERT, signed by nobody
    NoCert          \* no value in a map

ASSUME CertsAssumption ==
    /\ Domains \in [Certificates -> Seq(DomainNames)]
    /\ Wildcards \in [Certificates -> Seq(DomainNames)]
    /\ Parent \in [DomainNames -> DomainNames \cup {NoCert}]
    /\ Suffixes \in [DomainNames -> SUBSET DomainNames]
    /\ NameLen \in [DomainNames -> Nat]
    /\ \A n \in DomainNames : Parent[n] # NoCert => Parent[n] \in Suffixes[n]
    /\ DefaultCert \notin Certificates
    /\ NoCert \notin Certificates \cup DomainNames \cup {DefaultCert}

VARIABLES
    certs,          \* secret name -> certificate
    certs_domains   \* name -> certificate

certVars == <<certs, certs_domains>>

CertsTypeOK ==
    /\ certs \in [Secrets -> Certificates \cup {NoCert}]
    /\ certs_domains \in [DomainNames -> Certificates \cup {NoCert}]

CertsInit ==
    /\ certs = [s \in Secrets |-> NoCert]
    /\ certs_domains = [n \in DomainNames |-> NoCert]

In(n, s) == \E k \in DOMAIN s : s[k] = n

\* The keys add_cert writes after the secret's own entry, in order.
Keys(c) == Domains[c] \o Wildcards[c]

\* add_cert: the first write, then one for every key.
RecordCert(s, c) ==
    /\ certs' = [certs EXCEPT ![s] = c]
    /\ UNCHANGED certs_domains

\* Mutant: a name that has a certificate keeps it.
PublishOnce(n, c) ==
    /\ certs_domains' = [certs_domains EXCEPT ![n] = IF @ = NoCert THEN c ELSE @]
    /\ UNCHANGED certs

Publish(n, c) ==
    /\ certs_domains' = [certs_domains EXCEPT ![n] = c]
    /\ UNCHANGED certs

-----------------------------------------------------------------------------
(* get_cert.                                                               *)

\* The suffixes of s's wildcards that a search for n accepts: the end of the
\* name is compared without looking for the dot.
Ends(s, n) ==
    IF certs[s] = NoCert THEN {} ELSE {w \in Suffixes[n] : In(w, Wildcards[certs[s]])}

\* The search through all certificates, which meets them in any order: one
\* that bears the name, else one with the longest wildcard.
Scan(n) ==
    LET bearers == {s \in Secrets : certs[s] # NoCert /\ In(n, Domains[certs[s]])}
        longest == {s \in Secrets : \E w \in Ends(s, n) : \A t \in Secrets :
                        \A v \in Ends(t, n) : NameLen[v] <= NameLen[w]}
    IN  IF bearers # {} THEN {certs[s] : s \in bearers}
        ELSE IF longest # {} THEN {certs[s] : s \in longest}
        ELSE {DefaultCert}

\* Mutant: only the keys are looked up.
GetCertByKey(n) ==
    IF certs_domains[n] # NoCert THEN {certs_domains[n]}
    ELSE IF Parent[n] # NoCert /\ certs_domains[Parent[n]] # NoCert
         THEN {certs_domains[Parent[n]]}
    ELSE {DefaultCert}

\* What a handshake for n may be answered with.
GetCert(n) ==
    IF certs_domains[n] # NoCert THEN {certs_domains[n]}
    ELSE IF Parent[n] # NoCert /\ certs_domains[Parent[n]] # NoCert
         THEN {certs_domains[Parent[n]]}
    ELSE Scan(n)

-----------------------------------------------------------------------------
(* What a certificate is good for (RFC 6125: a wildcard stands for one      *)
(* label).                                                                 *)

Covers(c, n) == In(n, Domains[c]) \/ In(Parent[n], Wildcards[c])
=============================================================================
