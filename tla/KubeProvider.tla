---------------------------- MODULE KubeProvider ----------------------------
(***************************************************************************)
(* The Kubernetes configuration provider (ksbh-config-providers/           *)
(* kubernetes): the controller of the module configurations and the        *)
(* controller of the ingresses, each with its watches, on top of the       *)
(* router and the certificate registry.                                    *)
(*                                                                         *)
(* The cluster is changed from outside.  A controller holds a copy of its  *)
(* objects that follows the cluster, reconciles every object that changed, *)
(* one reconciliation per object at a time, and again when a timer says    *)
(* so.  Of the router this module keeps what the provider has caused: what *)
(* the registries hold for a module and whether an ingress has a route.    *)
(* The API server may be out of reach at any time.                         *)
(***************************************************************************)
EXTENDS Certs

CONSTANTS
    ModuleObjects,  \* ModuleConfiguration objects, cluster-wide
    Ingresses,      \* Ingress objects, of any namespace
    NameOf,         \* metadata.name of an ingress: unique in its namespace only
    ModuleSecrets,  \* secrets that modules refer to
    Services,
    Versions,       \* what a module secret or a service may hold
    CertsOf,        \* what a TLS secret may hold
    Specs,          \* object -> the specs it may have
    Populations,    \* sets of objects and dependencies; the others stay away
    Beginnings,     \* bound: whether objects have the finalizer at the start, and are deleted
    FirstData,      \* bound: what the dependencies hold at the start
    MaxChanges,     \* bound: changes of the cluster from outside, outages included, per population
    None            \* no object, no data, no reference

Objects == ModuleObjects \cup Ingresses
Dependencies == ModuleSecrets \cup Services \cup Secrets

ModuleSpec == [secret_ref : ModuleSecrets \cup {None}, global : BOOLEAN]
IngressSpec == [ours : BOOLEAN,                     \* ingress_class_name
                rules : BOOLEAN,
                tls : Secrets \cup {None},
                service : Services \cup {None}]     \* None: a resource backend

\* What each dependency may hold.
Data(d) == IF d \in Secrets THEN CertsOf[d] ELSE Versions

\* Resource backends need no service; a path of a service that could not be
\* resolved is left out.
Resource == "resource"
Unresolved == "unresolved"

ASSUME KubeAssumption ==
    /\ ModuleObjects \cap Ingresses = {}
    /\ ModuleSecrets \cap Services = {} /\ Secrets \cap (ModuleSecrets \cup Services) = {}
    /\ \A m \in ModuleObjects : Specs[m] \subseteq ModuleSpec
    /\ \A i \in Ingresses : Specs[i] \subseteq IngressSpec
    /\ CertsOf \in [Secrets -> SUBSET Certificates]
    /\ Populations \subseteq SUBSET (Objects \cup Dependencies)
    /\ Beginnings \subseteq {<<FALSE, FALSE>>, <<TRUE, FALSE>>, <<TRUE, TRUE>>}
    /\ \A d \in Dependencies : FirstData[d] \in Data(d) \cup {None}
    /\ MaxChanges \in [Populations -> Nat]
    /\ None \notin Objects \cup Dependencies \cup Versions \cup Certificates

VARIABLES
    population,     \* the objects and dependencies that exist at times
    cluster,        \* object -> what the API server holds
    data,           \* dependency -> what the API server holds
    changes,        \* changes from outside
    api,            \* whether the API server answers
    store,          \* object -> the controller's copy
    due,            \* object -> when it is reconciled next
    task,           \* object -> its reconciliation
    events,         \* dependencies whose change a watch has yet to tell
    refs,           \* secret_refs of the modules, services_refs of the ingresses
    registry,       \* module -> global -> what upsert_module was called with
    route           \* ingress -> None, or what its entries resolve to

world == <<population, cluster, data, changes, api>>
process == <<store, due, task, events, refs, registry, route>>
vars == <<world, process, certVars>>

Object == [spec : UNION {Specs[o] : o \in Objects}, finalizer : BOOLEAN, deleting : BOOLEAN]
Delays == {"no", "now", "soon", "later"}

ASSUME ObjectAssumption == None \notin Object

Idle == [at |-> "idle", copy |-> None, got |-> None, keys |-> <<>>]

KubeTypeOK ==
    /\ CertsTypeOK
    /\ population \in Populations
    /\ cluster \in [Objects -> Object \cup {None}]
    /\ \A d \in Dependencies : data[d] \in Data(d) \cup {None}
    /\ changes \in 0..MaxChanges[population] /\ api \in BOOLEAN
    /\ store \in [Objects -> Object \cup {None}]
    /\ due \in [Objects -> Delays]
    /\ \A o \in Objects :
        /\ cluster[o] # None => o \in population /\ cluster[o].spec \in Specs[o]
        /\ cluster[o] # None /\ cluster[o].deleting => cluster[o].finalizer
        /\ task[o].at = "idle" => task[o] = Idle
        /\ task[o].at # "idle" => task[o].copy.deleting = (task[o].at = "unfinalize")
        /\ task[o].at = "upsert" => o \in ModuleObjects
        /\ task[o].at \in {"tls", "record", "publish", "service", "insert"} => o \in Ingresses
    /\ events \subseteq Dependencies
    /\ \A s \in ModuleSecrets : refs[s] \in ModuleObjects \cup {None}
    /\ \A s \in Services : refs[s] \in Ingresses \cup {None}
    /\ \A s \in Secrets : refs[s] = None
    /\ \A m \in ModuleObjects, g \in BOOLEAN :
        registry[m][g] # None => /\ registry[m][g].spec \in Specs[m]
                                 /\ registry[m][g].spec.global = g
    /\ route \in [Ingresses -> Versions \cup {Resource, Unresolved, None}]

\* The specs whose dependencies are of the population.
SpecsOf(o) ==
    {spec \in Specs[o] :
        IF o \in ModuleObjects
        THEN spec.secret_ref \in population \cup {None}
        ELSE spec.tls \in population \cup {None} /\ spec.service \in population \cup {None}}

\* The process has just started, on what the cluster is and what an earlier
\* process left of finalizers: nothing else outlives a process.  It has to list
\* everything.
Init ==
    /\ population \in Populations
    /\ \E found \in [population \cap Objects -> Object] :
        /\ \A o \in DOMAIN found :
            /\ found[o].spec \in SpecsOf(o)
            /\ <<found[o].finalizer, found[o].deleting>> \in Beginnings
        /\ cluster = [o \in Objects |-> IF o \in population THEN found[o] ELSE None]
    /\ data = [d \in Dependencies |-> IF d \in population THEN FirstData[d] ELSE None]
    /\ changes = 0 /\ api = TRUE
    /\ store = [o \in Objects |-> None]
    /\ due = [o \in Objects |-> "no"]
    /\ task = [o \in Objects |-> Idle]
    /\ events = {d \in Dependencies : data[d] # None}
    /\ refs = [d \in Dependencies |-> None]
    /\ registry = [m \in ModuleObjects |-> [g \in BOOLEAN |-> None]]
    /\ route = [i \in Ingresses |-> None]
    /\ CertsInit

-----------------------------------------------------------------------------
(* The cluster, from outside.                                              *)

Outside ==
    /\ changes < MaxChanges[population]
    /\ changes' = changes + 1
    /\ UNCHANGED <<population, store, due, task, refs, registry, route, certVars>>

Create(o, spec) ==
    /\ o \in population /\ cluster[o] = None
    /\ cluster' = [cluster EXCEPT ![o] = [spec |-> spec, finalizer |-> FALSE, deleting |-> FALSE]]
    /\ UNCHANGED <<data, events, api>>
    /\ Outside

Update(o, spec) ==
    /\ cluster[o] # None /\ ~cluster[o].deleting /\ cluster[o].spec # spec
    /\ cluster' = [cluster EXCEPT ![o].spec = spec]
    /\ UNCHANGED <<data, events, api>>
    /\ Outside

\* An object with a finalizer is only marked.
Delete(o) ==
    /\ cluster[o] # None /\ ~cluster[o].deleting
    /\ cluster' = [cluster EXCEPT ![o] = IF @.finalizer THEN [@ EXCEPT !.deleting = TRUE] ELSE None]
    /\ UNCHANGED <<data, events, api>>
    /\ Outside

ChangeData(d, value) ==
    /\ d \in population
    /\ data[d] # value
    /\ data' = [data EXCEPT ![d] = value]
    /\ events' = events \cup {d}
    /\ UNCHANGED <<cluster, api>>
    /\ Outside

Outage ==
    /\ api
    /\ api' = FALSE
    /\ UNCHANGED <<cluster, data, events>>
    /\ Outside

Recover ==
    /\ ~api
    /\ api' = TRUE
    /\ UNCHANGED <<population, cluster, data, changes, process, certVars>>

-----------------------------------------------------------------------------
(* kube::runtime::Controller: a watch of the objects and one of every kind  *)
(* of dependency, a queue with one place for every object.                 *)

\* An object that is gone leaves the store and is not reconciled.
Observe(o) ==
    /\ api
    /\ store[o] # cluster[o]
    /\ store' = [store EXCEPT ![o] = cluster[o]]
    /\ due' = IF cluster[o] = None THEN due ELSE [due EXCEPT ![o] = "now"]
    /\ UNCHANGED <<world, task, events, refs, registry, route, certVars>>

\* The secret and service watchers: the one object that refs names is due.
Notify(d) ==
    /\ api
    /\ d \in events
    /\ events' = events \ {d}
    /\ due' = IF refs[d] = None THEN due ELSE [due EXCEPT ![refs[d]] = "now"]
    /\ UNCHANGED <<world, store, task, refs, registry, route, certVars>>

Expire(o) ==
    /\ due[o] \in {"soon", "later"}
    /\ due' = [due EXCEPT ![o] = "now"]
    /\ UNCHANGED <<world, store, task, events, refs, registry, route, certVars>>

Take(o) ==
    /\ due[o] = "now"
    /\ task[o].at = "idle"

\* The next reconciliation: never later than one that is due already.
Requeue(o, delay) == due' = [due EXCEPT ![o] = IF @ = "now" THEN @ ELSE delay]

\* The reconciliation goes on, or returns an Action.
Go(o, at) == task' = [task EXCEPT ![o].at = at] /\ UNCHANGED due
Return(o, delay) == task' = [task EXCEPT ![o] = Idle] /\ Requeue(o, delay)

\* Mutant: Action::await_change() after a success.
NoResync == "no"

\* Without any event a module is reconciled again after 300 s, an ingress
\* after 250 s.
ModuleResync == "later"
IngressResync == "later"

\* error_modules: 30 s; error_ingress: 300 s.
Retry(o) == IF o \in ModuleObjects THEN "soon" ELSE "later"

\* What runs up to the first await, with a copy of what the store holds.
Begin(o, at) ==
    /\ due' = [due EXCEPT ![o] = "no"]
    /\ task' = [task EXCEPT ![o] = [Idle EXCEPT !.at = at, !.copy = store[o]]]

BeginAndReturn(o, delay) ==
    /\ due' = [due EXCEPT ![o] = delay]
    /\ UNCHANGED task

\* A get of a secret or a service is answered with it.
Available(d) == d # None /\ api /\ data[d] # None

TakeNothing(o) ==
    /\ Take(o)
    /\ store[o] = None
    /\ BeginAndReturn(o, "no")
    /\ UNCHANGED <<world, store, events, refs, registry, route, certVars>>

-----------------------------------------------------------------------------
(* Finalizers.                                                             *)

\* Mutant: the finalizer is set once everything else is done.
NeedsNone(o) == FALSE

NeedsFinalizer(o) == ~store[o].finalizer

\* The server takes no patch of an object that is gone, and no finalizer for
\* one that is going.
Accepts(o) ==
    /\ api
    /\ cluster[o] # None
    /\ task[o].at = "finalize" => ~cluster[o].deleting

\* ensure_finalizer.
Finalize(o) ==
    /\ task[o].at = "finalize"
    /\ Accepts(o)
    /\ cluster' = [cluster EXCEPT ![o].finalizer = TRUE]
    /\ UNCHANGED <<population, data, changes, api, store, events, registry, route, certVars>>

\* remove_finalizer: with the finalizer a marked object goes.
Unfinalize(o) ==
    /\ task[o].at = "unfinalize"
    /\ Accepts(o)
    /\ cluster' = [cluster EXCEPT ![o] = IF @.deleting THEN None ELSE [@ EXCEPT !.finalizer = FALSE]]
    /\ Return(o, "no")
    /\ UNCHANGED <<population, data, changes, api, store, events, refs, registry, route, certVars>>

\* The request fails, or is refused.
Fail(o) ==
    /\ task[o].at \in {"finalize", "unfinalize"}
    /\ ~Accepts(o)
    /\ Return(o, Retry(o))
    /\ UNCHANGED <<world, store, events, refs, registry, route, certVars>>

-----------------------------------------------------------------------------
(* reconcile_modules.                                                      *)

\* handle_module_deletion: whoever refs names for the secret is taken out.
BeginModuleDeletion(m) ==
    /\ Take(m)
    /\ store[m] # None /\ store[m].deleting
    /\ refs' = [d \in Dependencies |-> IF d = store[m].spec.secret_ref THEN None ELSE refs[d]]
    /\ registry' = [registry EXCEPT ![m] = [g \in BOOLEAN |-> None]]
    /\ Begin(m, "unfinalize")
    /\ UNCHANGED <<world, store, events, route, certVars>>

\* fetch_and_update_module_secret up to the request: the reference is set
\* before the secret is read.
Register(m, spec) ==
    refs' = [d \in Dependencies |-> IF d = spec.secret_ref THEN m ELSE refs[d]]

AfterFinalizer(spec) == IF spec.secret_ref = None THEN "upsert" ELSE "get"

BeginModule(m) ==
    /\ Take(m)
    /\ store[m] # None /\ ~store[m].deleting
    /\ IF NeedsFinalizer(m)
       THEN Begin(m, "finalize") /\ UNCHANGED refs
       ELSE Begin(m, AfterFinalizer(store[m].spec)) /\ Register(m, store[m].spec)
    /\ UNCHANGED <<world, store, events, registry, route, certVars>>

FinalizeModule(m) ==
    /\ Finalize(m)
    /\ Register(m, task[m].copy.spec)
    /\ Go(m, AfterFinalizer(task[m].copy.spec))

\* Mutant: a secret that was read once is not read again.
GetSecretOnce(m) ==
    LET spec == task[m].copy.spec
        held == registry[m][spec.global]
    IN  /\ task[m].at = "get"
        /\ Available(spec.secret_ref)
        /\ task' = [task EXCEPT ![m].at = "upsert",
                                ![m].got = IF held = None THEN data[spec.secret_ref] ELSE held.got]
        /\ UNCHANGED <<world, store, due, events, refs, registry, route, certVars>>

GetSecret(m) ==
    /\ task[m].at = "get"
    /\ Available(task[m].copy.spec.secret_ref)
    /\ task' = [task EXCEPT ![m].at = "upsert", ![m].got = data[task[m].copy.spec.secret_ref]]
    /\ UNCHANGED <<world, store, due, events, refs, registry, route, certVars>>

\* A secret that cannot be had leaves the module as it is.
GetSecretFails(m) ==
    /\ task[m].at = "get"
    /\ ~Available(task[m].copy.spec.secret_ref)
    /\ Return(m, "soon")
    /\ UNCHANGED <<world, store, events, refs, registry, route, certVars>>

\* upsert_module_config: into the registry that global names; the other one
\* keeps what it has.
UpsertModule(m) ==
    /\ task[m].at = "upsert"
    /\ registry' = [registry EXCEPT ![m][task[m].copy.spec.global] =
                       [spec |-> task[m].copy.spec, got |-> task[m].got]]
    /\ Return(m, ModuleResync)
    /\ UNCHANGED <<world, store, events, refs, route, certVars>>

-----------------------------------------------------------------------------
(* reconcile_ingress.                                                      *)

Namesakes(i) == {j \in Ingresses : NameOf[j] = NameOf[i]}

\* Mutant: the class is looked at before the deletion.
DeletedOurs(copy) == copy.deleting /\ copy.spec.ours

\* Mutant: the deletion is left to others.
NotDeleted(copy) == FALSE

Deleted(copy) == copy.deleting

\* handle_deletion: delete_ingress goes by the name alone.
BeginIngressDeletion(i) ==
    /\ Take(i)
    /\ store[i] # None /\ Deleted(store[i])
    /\ route' = [j \in Ingresses |-> IF j \in Namesakes(i) THEN None ELSE route[j]]
    /\ Begin(i, "unfinalize")
    /\ UNCHANGED <<world, store, events, refs, registry, certVars>>

\* A class that is not ours ends it: await_change.  No rules: an error.
BeginIngress(i) ==
    /\ Take(i)
    /\ store[i] # None /\ ~Deleted(store[i])
    /\ LET spec == store[i].spec
       IN  IF ~spec.ours THEN BeginAndReturn(i, "no")
           ELSE IF ~spec.rules THEN BeginAndReturn(i, "later")
           ELSE Begin(i, IF NeedsFinalizer(i) THEN "finalize" ELSE "tls")
    /\ UNCHANGED <<world, store, events, refs, registry, route, certVars>>

FinalizeIngress(i) ==
    /\ Finalize(i)
    /\ Go(i, "tls")
    /\ UNCHANGED refs

\* process_tls_configs: fetch_tls_secret, then add_cert.
GetTls(i) ==
    LET s == task[i].copy.spec.tls
    IN  /\ task[i].at = "tls"
        /\ Available(s)
        /\ task' = [task EXCEPT ![i].at = "record", ![i].got = data[s], ![i].keys = Keys(data[s])]
        /\ UNCHANGED <<world, store, due, events, refs, registry, route, certVars>>

\* No TLS, or a secret that cannot be had in three seconds.
SkipTls(i) ==
    /\ task[i].at = "tls"
    /\ ~Available(task[i].copy.spec.tls)
    /\ Go(i, "service")
    /\ UNCHANGED <<world, store, events, refs, registry, route, certVars>>

AddCert(i) ==
    /\ task[i].at = "record"
    /\ RecordCert(task[i].copy.spec.tls, task[i].got)
    /\ Go(i, "publish")
    /\ UNCHANGED <<world, store, events, refs, registry, route>>

AddCertKey(i) ==
    /\ task[i].at = "publish"
    /\ task[i].keys # <<>>
    /\ Publish(Head(task[i].keys), task[i].got)
    /\ task' = [task EXCEPT ![i].keys = Tail(@)]
    /\ UNCHANGED <<world, store, due, events, refs, registry, route>>

CertAdded(i) ==
    /\ task[i].at = "publish"
    /\ task[i].keys = <<>>
    /\ task' = [task EXCEPT ![i].at = "service", ![i].got = None]
    /\ UNCHANGED <<world, store, due, events, refs, registry, route, certVars>>

\* resolve_service_port, for a port that has a name.
GetService(i) ==
    LET s == task[i].copy.spec.service
    IN  /\ task[i].at = "service"
        /\ Available(s)
        /\ task' = [task EXCEPT ![i].at = "insert", ![i].got = data[s]]
        /\ UNCHANGED <<world, store, due, events, refs, registry, route, certVars>>

\* No service to resolve, or one that cannot be had: a path of an unresolved
\* service is left out.
SkipService(i) ==
    /\ task[i].at = "service"
    /\ ~Available(task[i].copy.spec.service)
    /\ Go(i, "insert")
    /\ UNCHANGED <<world, store, events, refs, registry, route, certVars>>

\* process_rules: insert_ingress appends; the first entry with a path answers.
InsertIngress(i) ==
    LET spec == task[i].copy.spec
        got == task[i].got
        resolved == IF spec.service = None THEN Resource
                    ELSE IF got = None THEN Unresolved ELSE got
    IN  /\ task[i].at = "insert"
        /\ refs' = [d \in Dependencies |-> IF got # None /\ d = spec.service THEN i ELSE refs[d]]
        /\ route' = [route EXCEPT ![i] = IF @ \in {None, Unresolved} THEN resolved ELSE @]
        /\ Return(i, IngressResync)
        /\ UNCHANGED <<world, store, events, registry, certVars>>

-----------------------------------------------------------------------------

ModuleStep(m) ==
    \/ BeginModuleDeletion(m) \/ BeginModule(m)
    \/ FinalizeModule(m) \/ GetSecret(m) \/ GetSecretFails(m) \/ UpsertModule(m)

IngressStep(i) ==
    \/ BeginIngressDeletion(i) \/ BeginIngress(i) \/ FinalizeIngress(i)
    \/ GetTls(i) \/ SkipTls(i) \/ AddCert(i) \/ AddCertKey(i) \/ CertAdded(i)
    \/ GetService(i) \/ SkipService(i) \/ InsertIngress(i)

Run(o) ==
    \/ Expire(o) \/ TakeNothing(o) \/ Unfinalize(o) \/ Fail(o)
    \/ o \in ModuleObjects /\ ModuleStep(o)
    \/ o \in Ingresses /\ IngressStep(o)

Next ==
    \/ \E o \in Objects : \E spec \in SpecsOf(o) : Create(o, spec) \/ Update(o, spec)
    \/ \E o \in Objects : Delete(o)
    \/ \E d \in Dependencies : \E value \in Data(d) \cup {None} : ChangeData(d, value)
    \/ Outage \/ Recover
    \/ \E o \in Objects : Observe(o) \/ Run(o)
    \/ \E d \in Dependencies : Notify(d)

Spec == Init /\ [][Next]_vars

\* The tasks and timers run, the watches deliver, and an outage ends.
FairSpec ==
    /\ Spec
    /\ \A o \in Objects : WF_vars(Observe(o)) /\ WF_vars(Run(o))
    /\ \A d \in Dependencies : WF_vars(Notify(d))
    /\ WF_vars(Recover)

-----------------------------------------------------------------------------
(* Properties.                                                             *)

\* Nothing is left behind: what the routers hold for an object has an object
\* in the cluster that cannot go without the provider's consent.  It is about
\* objects deleted at any moment of a reconciliation, recreated before the
\* store has followed, and errors between the two halves of a deletion.
NoOrphan ==
    /\ \A i \in Ingresses : route[i] # None => cluster[i] # None /\ cluster[i].finalizer
    /\ \A m \in ModuleObjects, g \in BOOLEAN :
        registry[m][g] # None => cluster[m] # None /\ cluster[m].finalizer

\* A change of a secret is not slept through: a module that waits out its five
\* minutes, that the watch of its secret would wake and that the watch has
\* nothing to tell, is registered with the secret's present content.  It is
\* about a secret that changes while it is being read.
NotSleptThrough ==
    \A m \in ModuleObjects :
        LET spec == cluster[m].spec
            d == spec.secret_ref
        IN  /\ cluster[m] # None /\ store[m] = cluster[m]
            /\ d # None /\ refs[d] = m /\ d \notin events
            /\ task[m].at = "idle" /\ due[m] = "later"
            => registry[m][spec.global] = [spec |-> spec, got |-> data[d]]

\* When the cluster is left alone, no deleted object stays, whatever its class
\* has become, whichever of the two halves of its deletion failed, and if an
\* earlier process left it.
DeletionsComplete == <>[](\A o \in Objects : cluster[o] # None => ~cluster[o].deleting)

\* When the cluster is left alone, every module ends up registered as it is,
\* also one whose secret's watch has come to wake another module.
ModulesConverge ==
    <>[](\A m \in ModuleObjects :
            LET spec == cluster[m].spec
                got == IF spec.secret_ref = None THEN None ELSE data[spec.secret_ref]
            IN  /\ cluster[m] # None /\ ~cluster[m].deleting
                /\ spec.secret_ref # None => got # None
                => registry[m][spec.global] = [spec |-> spec, got |-> got])

\* And every ingress of ours has a route, resolved if its service is there;
\* also when another one of its name was deleted, which took its route away.
RoutesConverge ==
    <>[](\A i \in Ingresses :
            LET spec == cluster[i].spec
            IN  cluster[i] # None /\ ~cluster[i].deleting /\ spec.ours /\ spec.rules
                => /\ route[i] # None
                   /\ spec.service # None /\ data[spec.service] # None => route[i] # Unresolved)

\* No other secret's certificate can lie where n is looked up.
Alone(s, n) ==
    \A t \in Secrets \ {s} : \A d \in CertsOf[t] :
        ~In(n, Keys(d)) /\ ~In(Parent[n], Keys(d)) /\ \A w \in Suffixes[n] : ~In(w, Wildcards[d])

\* Another secret's certificate, or an earlier one of this secret, may lie
\* where n is looked up.
Contested(s, n, c) ==
    ~Alone(s, n) \/ \E d \in CertsOf[s] : In(n, Keys(d)) /\ ~In(n, Keys(c))

\* "Automatic certificate rotation" (README), and nothing wakes an ingress when
\* its TLS secret changes: when the cluster is left alone, the names that the
\* secret's certificate covers end up answered with it, if no other certificate
\* and no former name of this one is in the way.
CertsConverge ==
    <>[](\A i \in Ingresses :
            LET spec == cluster[i].spec
                c == data[spec.tls]
            IN  /\ cluster[i] # None /\ ~cluster[i].deleting /\ spec.ours /\ spec.rules
                /\ spec.tls # None /\ c # None
                => \A n \in DomainNames :
                       Covers(c, n) /\ ~Contested(spec.tls, n, c) => GetCert(n) = {c})

\* While certificates are being entered one name after the other, by several
\* tasks and in different versions, a name that the recorded certificate covers
\* is answered with one that covers it, unless a version of it, or another
\* certificate, can be found for a name that it does not cover.  It is about the
\* lookups of get_cert between the writes of add_cert.
HandshakesCovered ==
    \A s \in Secrets, n \in DomainNames :
        /\ certs[s] # NoCert /\ Covers(certs[s], n)
        /\ Alone(s, n)
        /\ \A d \in CertsOf[s] : In(n, Keys(d)) \/ In(Parent[n], Keys(d)) => Covers(d, n)
        => \A c \in GetCert(n) : c # DefaultCert /\ Covers(c, n)
=============================================================================
