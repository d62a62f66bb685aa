------------------------ MODULE KubeProvider_proofs ------------------------
(***************************************************************************)
(* Safety of the provider for every number of objects and dependencies,    *)
(* whatever happens to the cluster and whenever it happens:                *)
(*   NothingLeftBehind      what the routers hold for an object never      *)
(*                          outlives the finalizer that protects it;       *)
(*   KubeTypes              types, of the copies and the tasks included;   *)
(*   NothingSleptThrough    no module waits with an old secret;            *)
(*   HandshakesStayCovered  no handshake meets a half-entered certificate. *)
(*                                                                         *)
(* The first rests on ObjectInv, which says of one object how far its task *)
(* is and what the server must still hold for it.  TypesInv adds the types *)
(* and is used by the other two.  For the third, what a task has read, the *)
(* copy it works on and what the module is registered with are the present *)
(* ones unless something is left that will wake the module (WakeInv).  For *)
(* the fourth, all that is found under a name, or on its way there, bears  *)
(* the name (CertsInv), and of the wildcards that a name ends in there is  *)
(* a longest (SomeEndIsLongest).                                           *)
(***************************************************************************)
EXTENDS KubeProvider, FiniteSetTheorems, SequenceTheorems, WellFoundedInduction, TLAPS

-----------------------------------------------------------------------------
(* Types.                                                                  *)

TaskFields == {"at", "copy", "got", "keys"}

\* An object that the API server, the store or a task has, or none.
Known(o, x) == x # None => x \in Object /\ x.spec \in Specs[o]

Shapes ==
    /\ DOMAIN cluster = Objects /\ DOMAIN store = Objects
    /\ DOMAIN task = Objects /\ DOMAIN due = Objects
    /\ DOMAIN data = Dependencies /\ DOMAIN refs = Dependencies
    /\ DOMAIN route = Ingresses
    /\ DOMAIN registry = ModuleObjects
    /\ \A m \in ModuleObjects : DOMAIN registry[m] = BOOLEAN
    /\ \A o \in Objects : DOMAIN task[o] = TaskFields

LEMMA InitShapes == Init => Shapes
BY DEF Init, Shapes, Idle, TaskFields

LEMMA OutsideShapes ==
    ASSUME Shapes, NEW o \in Objects, NEW spec,
           Create(o, spec) \/ Update(o, spec) \/ Delete(o)
    PROVE  Shapes'
BY DEF Shapes, Create, Update, Delete, Outside, world, process

LEMMA WorldShapes ==
    ASSUME Shapes, NEW d, NEW value, ChangeData(d, value) \/ Outage \/ Recover
    PROVE  Shapes'
BY DEF Shapes, ChangeData, Outage, Recover, Outside, world, process

LEMMA PatchShapes ==
    ASSUME Shapes, NEW o \in Objects, Unfinalize(o) \/ Fail(o)
    PROVE  Shapes'
BY DEF Shapes, Unfinalize, Fail, Return, Requeue, Idle, TaskFields, world

LEMMA ModuleShapes ==
    ASSUME Shapes, NEW m \in ModuleObjects, ModuleStep(m)
    PROVE  Shapes'
<1> m \in Objects
  BY DEF Objects
<1> USE DEF Shapes, world
<1>1. CASE BeginModuleDeletion(m)
  BY <1>1 DEF BeginModuleDeletion, Begin, Idle, TaskFields
<1>2. CASE BeginModule(m)
  BY <1>2 DEF BeginModule, Begin, Register, Idle, TaskFields
<1>3. CASE FinalizeModule(m)
  BY <1>3 DEF FinalizeModule, Finalize, Register, Go, TaskFields
<1>4. CASE GetSecret(m)
  BY <1>4 DEF GetSecret, TaskFields
<1>5. CASE GetSecretFails(m)
  BY <1>5 DEF GetSecretFails, Return, Requeue, Idle, TaskFields
<1>6. CASE UpsertModule(m)
  BY <1>6 DEF UpsertModule, Return, Requeue, Idle, TaskFields
<1> QED BY <1>1, <1>2, <1>3, <1>4, <1>5, <1>6 DEF ModuleStep

LEMMA IngressShapes ==
    ASSUME Shapes, NEW i \in Ingresses, IngressStep(i)
    PROVE  Shapes'
<1> i \in Objects
  BY DEF Objects
<1> USE DEF Shapes, world
<1>1. CASE BeginIngressDeletion(i)
  BY <1>1 DEF BeginIngressDeletion, Begin, Idle, TaskFields
<1>2. CASE BeginIngress(i)
  BY <1>2 DEF BeginIngress, Begin, BeginAndReturn, Idle, TaskFields
<1>3. CASE FinalizeIngress(i)
  BY <1>3 DEF FinalizeIngress, Finalize, Go, TaskFields
<1>4. CASE GetTls(i) \/ SkipTls(i)
  BY <1>4 DEF GetTls, SkipTls, Go, TaskFields
<1>5. CASE AddCert(i) \/ AddCertKey(i) \/ CertAdded(i)
  BY <1>5 DEF AddCert, AddCertKey, CertAdded, Go, TaskFields
<1>6. CASE GetService(i) \/ SkipService(i)
  BY <1>6 DEF GetService, SkipService, Go, TaskFields
<1>7. CASE InsertIngress(i)
  BY <1>7 DEF InsertIngress, Return, Requeue, Idle, TaskFields
<1> QED BY <1>1, <1>2, <1>3, <1>4, <1>5, <1>6, <1>7 DEF IngressStep

-----------------------------------------------------------------------------
(* One object.                                                             *)

\* The API server has the object with the provider's finalizer.
Held(o) == cluster[o] # None /\ cluster[o].finalizer

\* Nothing but the provider's own patch can keep a deletion from completing.
Leaving(o) == cluster[o] = None \/ cluster[o].deleting \/ ~cluster[o].finalizer

Routed(o) ==
    \/ o \in Ingresses /\ route[o] # None
    \/ o \in ModuleObjects /\ \E g \in BOOLEAN : registry[o][g] # None

\* The places behind ensure_finalizer.
Ensured == {"get", "upsert", "tls", "record", "publish", "service", "insert"}

\* The store lags behind the cluster, but not across the provider's patches: a
\* copy with the finalizer tells that the object is held, a copy of a deleted
\* object that it is leaving.  While a task is behind ensure_finalizer the object
\* is held, and once it is taken out of the routers it is not put back.
ObjectInv(o) ==
    /\ Known(o, cluster[o]) /\ Known(o, store[o])
    /\ cluster[o] # None /\ cluster[o].deleting => cluster[o].finalizer
    /\ store[o] # None /\ store[o].finalizer /\ ~store[o].deleting => Held(o)
    /\ store[o] # None /\ store[o].deleting => Leaving(o)
    /\ task[o].at \in Ensured => Held(o)
    /\ task[o].at = "finalize" /\ store[o] # None /\ store[o].deleting
           => cluster[o] # None /\ cluster[o].deleting
    /\ task[o].at = "unfinalize" =>
           /\ Leaving(o) /\ ~Routed(o)
           /\ store[o] = None \/ store[o].deleting \/ ~store[o].finalizer
    /\ Routed(o) => Held(o)

\* A step of others that leaves the object and its task where they are.
LEMMA Stays ==
    ASSUME NEW o \in Objects, ObjectInv(o), cluster'[o] = cluster[o], store'[o] = store[o],
           task'[o].at = task[o].at, Routed(o)' => Routed(o)
    PROVE  ObjectInv(o)'
BY DEF ObjectInv, Held, Leaving, Known

\* The task goes on: behind ensure_finalizer only with an object that is held,
\* to remove_finalizer only with one that is out of the routers.
LEMMA GoesOn ==
    ASSUME NEW o \in Objects, ObjectInv(o), cluster'[o] = cluster[o], store'[o] = store[o],
           Routed(o)' => Routed(o) \/ Held(o),
           task'[o].at \in Ensured => Held(o),
           task'[o].at = "finalize" => ~(store[o] # None /\ store[o].deleting),
           task'[o].at = "unfinalize" => store[o] # None /\ store[o].deleting /\ ~Routed(o)'
    PROVE  ObjectInv(o)'
BY DEF ObjectInv, Held, Leaving, Known

LEMMA ObjectCreated ==
    ASSUME Shapes, NEW o \in Objects, NEW spec \in Specs[o], ObjectInv(o), Create(o, spec)
    PROVE  ObjectInv(o)'
<1> DEFINE new == [spec |-> spec, finalizer |-> FALSE, deleting |-> FALSE]
<1>1. cluster[o] = None /\ cluster'[o] = new /\ store' = store /\ task' = task
  BY DEF Create, Outside, Shapes
<1>2. Routed(o)' = Routed(o)
  BY DEF Create, Outside, Routed
<1>3. new \in Object
  <2>1. spec \in UNION {Specs[x] : x \in Objects}
    OBVIOUS
  <2> QED BY <2>1 DEF Object
<1>4. Known(o, new) /\ new # None /\ ~new.deleting /\ ~new.finalizer
  BY <1>3, ObjectAssumption DEF Known
<1> HIDE DEF new
<1> QED BY <1>1, <1>2, <1>4 DEF ObjectInv, Held, Leaving

LEMMA ObjectUpdated ==
    ASSUME Shapes, NEW o \in Objects, NEW spec \in Specs[o], ObjectInv(o), Update(o, spec)
    PROVE  ObjectInv(o)'
<1> DEFINE new == [cluster[o] EXCEPT !.spec = spec]
<1>1. /\ cluster[o] # None /\ ~cluster[o].deleting
      /\ cluster' = [cluster EXCEPT ![o] = new] /\ store' = store /\ task' = task
  BY DEF Update, Outside
<1>2. Routed(o)' = Routed(o)
  BY DEF Update, Outside, Routed
<1>3. /\ cluster'[o] = new /\ Known(o, new) /\ new # None
      /\ new.finalizer = cluster[o].finalizer /\ new.deleting = cluster[o].deleting
  BY <1>1, ObjectAssumption DEF Known, Object, ObjectInv, Shapes
<1> HIDE DEF new
<1> QED BY <1>1, <1>2, <1>3 DEF ObjectInv, Held, Leaving

LEMMA ObjectDeleted ==
    ASSUME Shapes, NEW o \in Objects, ObjectInv(o), Delete(o)
    PROVE  ObjectInv(o)'
<1> DEFINE marked == [cluster[o] EXCEPT !.deleting = TRUE]
<1>1. /\ cluster[o] # None /\ ~cluster[o].deleting
      /\ cluster'[o] = (IF cluster[o].finalizer THEN marked ELSE None)
      /\ store' = store /\ task' = task
  BY DEF Delete, Outside, Shapes
<1>2. Routed(o)' = Routed(o)
  BY DEF Delete, Outside, Routed
<1>3. /\ Known(o, marked) /\ marked # None
      /\ marked.finalizer = cluster[o].finalizer /\ marked.deleting
  BY <1>1, ObjectAssumption DEF Known, Object, ObjectInv
<1> HIDE DEF marked
<1>4. CASE cluster[o].finalizer
  BY <1>1, <1>2, <1>3, <1>4 DEF ObjectInv, Held, Leaving
<1>5. CASE ~cluster[o].finalizer
  BY <1>1, <1>2, <1>5 DEF ObjectInv, Held, Leaving, Known
<1> QED BY <1>4, <1>5

LEMMA ObjectObserved ==
    ASSUME Shapes, NEW o \in Objects, ObjectInv(o), Observe(o)
    PROVE  ObjectInv(o)'
<1>1. cluster' = cluster /\ store'[o] = cluster[o] /\ task' = task
  BY DEF Observe, world, Shapes
<1>2. Routed(o)' = Routed(o)
  BY DEF Observe, Routed
<1> QED BY <1>1, <1>2 DEF ObjectInv, Held, Leaving

LEMMA ObjectFinalized ==
    ASSUME Shapes, NEW o \in Objects, ObjectInv(o), Finalize(o), task'[o].at \in Ensured
    PROVE  ObjectInv(o)'
<1> DEFINE new == [cluster[o] EXCEPT !.finalizer = TRUE]
<1>1. /\ cluster[o] # None /\ ~cluster[o].deleting /\ task[o].at = "finalize"
      /\ cluster'[o] = new /\ store' = store
  BY DEF Finalize, Accepts, Shapes
<1>2. Routed(o)' = Routed(o)
  BY DEF Finalize, Routed
<1>3. /\ Known(o, new) /\ new # None
      /\ new.finalizer /\ new.deleting = cluster[o].deleting
  BY <1>1, ObjectAssumption DEF Known, Object, ObjectInv
<1>4. task'[o].at # "finalize" /\ task'[o].at # "unfinalize"
  BY DEF Ensured
<1> HIDE DEF new
<1> QED BY <1>1, <1>2, <1>3, <1>4 DEF ObjectInv, Held, Leaving

LEMMA ObjectUnfinalized ==
    ASSUME Shapes, NEW o \in Objects, ObjectInv(o), Unfinalize(o)
    PROVE  ObjectInv(o)'
<1> DEFINE bare == [cluster[o] EXCEPT !.finalizer = FALSE]
<1>1. /\ cluster[o] # None /\ task[o].at = "unfinalize" /\ task'[o].at = "idle"
      /\ cluster'[o] = (IF cluster[o].deleting THEN None ELSE bare)
      /\ store' = store
  BY DEF Unfinalize, Accepts, Return, Idle, Shapes
<1>2. ~Routed(o)'
  BY <1>1 DEF Unfinalize, Routed, ObjectInv
<1>3. /\ Known(o, bare) /\ bare # None
      /\ ~bare.finalizer /\ bare.deleting = cluster[o].deleting
  BY <1>1, ObjectAssumption DEF Known, Object, ObjectInv
<1> HIDE DEF bare
<1>4. CASE cluster[o].deleting
  BY <1>1, <1>2, <1>4 DEF ObjectInv, Held, Leaving, Known, Ensured
<1>5. CASE ~cluster[o].deleting
  BY <1>1, <1>2, <1>3, <1>5 DEF ObjectInv, Held, Leaving, Ensured
<1> QED BY <1>4, <1>5

-----------------------------------------------------------------------------
(* All objects.                                                            *)

ObjectsInv == \A o \in Objects : ObjectInv(o)

LEMMA InitObjects == Init => ObjectsInv
<1> SUFFICES ASSUME Init, NEW o \in Objects PROVE ObjectInv(o)
  BY DEF ObjectsInv
<1>1. PICK found \in [population \cap Objects -> Object] :
         /\ \A x \in DOMAIN found :
             /\ found[x].spec \in SpecsOf(x)
             /\ <<found[x].finalizer, found[x].deleting>> \in Beginnings
         /\ cluster = [x \in Objects |-> IF x \in population THEN found[x] ELSE None]
  BY DEF Init
<1>2. store[o] = None /\ task[o].at = "idle" /\ ~Routed(o)
  BY DEF Init, Idle, Routed
<1>3. CASE o \in population
  <2>1. cluster[o] = found[o] /\ found[o] \in Object /\ found[o].spec \in Specs[o]
    BY <1>1, <1>3 DEF SpecsOf
  <2>2. <<found[o].finalizer, found[o].deleting>>
          \in {<<FALSE, FALSE>>, <<TRUE, FALSE>>, <<TRUE, TRUE>>}
    BY <1>1, <1>3, KubeAssumption DEF KubeAssumption
  <2>3. found[o].deleting => found[o].finalizer
    BY <2>2
  <2> QED BY <1>2, <2>1, <2>3, ObjectAssumption DEF ObjectInv, Known, Ensured
<1>4. CASE o \notin population
  BY <1>1, <1>2, <1>4 DEF ObjectInv, Known, Ensured
<1> QED BY <1>3, <1>4

\* A step of p leaves the others where they are.
LEMMA OthersStay ==
    ASSUME Shapes, ObjectsInv, NEW p \in Objects, ObjectInv(p)',
           \A o \in Objects \ {p} :
               /\ cluster'[o] = cluster[o] /\ store'[o] = store[o] /\ task'[o] = task[o]
               /\ Routed(o)' => Routed(o)
    PROVE  ObjectsInv'
BY Stays DEF ObjectsInv

LEMMA OutsideStep ==
    ASSUME Shapes, ObjectsInv, NEW p \in Objects, NEW spec \in Specs[p],
           Create(p, spec) \/ Update(p, spec)
    PROVE  ObjectsInv'
<1>1. ObjectInv(p)'
  BY ObjectCreated, ObjectUpdated DEF ObjectsInv
<1>2. \A o \in Objects \ {p} : cluster'[o] = cluster[o]
  BY DEF Create, Update, Shapes
<1>3. store' = store /\ task' = task /\ registry' = registry /\ route' = route
  BY DEF Create, Update, Outside
<1>4. \A o \in Objects : Routed(o)' = Routed(o)
  BY <1>3 DEF Routed
<1> QED BY <1>1, <1>2, <1>3, <1>4, OthersStay

LEMMA DeleteStep ==
    ASSUME Shapes, ObjectsInv, NEW p \in Objects, Delete(p)
    PROVE  ObjectsInv'
<1>1. ObjectInv(p)'
  BY ObjectDeleted DEF ObjectsInv
<1>2. \A o \in Objects \ {p} : cluster'[o] = cluster[o]
  BY DEF Delete, Shapes
<1>3. store' = store /\ task' = task /\ registry' = registry /\ route' = route
  BY DEF Delete, Outside
<1>4. \A o \in Objects : Routed(o)' = Routed(o)
  BY <1>3 DEF Routed
<1> QED BY <1>1, <1>2, <1>3, <1>4, OthersStay

\* Steps that touch neither an object, nor a copy, nor a task, nor the routers.
LEMMA QuietStep ==
    ASSUME Shapes, ObjectsInv, UNCHANGED <<cluster, store, task, registry, route>>
    PROVE  ObjectsInv'
<1>1. \A o \in Objects : Routed(o)' = Routed(o)
  BY DEF Routed
<1> QED BY <1>1, Stays DEF ObjectsInv

LEMMA WatchStep ==
    ASSUME Shapes, ObjectsInv, NEW p \in Objects, Observe(p)
    PROVE  ObjectsInv'
<1>1. ObjectInv(p)'
  BY ObjectObserved DEF ObjectsInv
<1>2. \A o \in Objects \ {p} : store'[o] = store[o]
  BY DEF Observe, Shapes
<1>3. cluster' = cluster /\ task' = task /\ registry' = registry /\ route' = route
  BY DEF Observe, world
<1>4. \A o \in Objects : Routed(o)' = Routed(o)
  BY <1>3 DEF Routed
<1> QED BY <1>1, <1>2, <1>3, <1>4, OthersStay

\* A step of p's task that patches nothing.
LEMMA TaskStep ==
    ASSUME Shapes, ObjectsInv, NEW p \in Objects,
           UNCHANGED <<cluster, store>>, NEW t, task' = [task EXCEPT ![p] = t],
           \A o \in Objects \ {p} : Routed(o)' => Routed(o),
           Routed(p)' => Routed(p) \/ Held(p),
           t.at \in Ensured => Held(p),
           t.at = "finalize" => ~(store[p] # None /\ store[p].deleting),
           t.at = "unfinalize" => store[p] # None /\ store[p].deleting /\ ~Routed(p)'
    PROVE  ObjectsInv'
<1>1. task'[p] = t /\ \A o \in Objects \ {p} : task'[o] = task[o]
  BY DEF Shapes
<1>2. ObjectInv(p)'
  BY <1>1, GoesOn DEF ObjectsInv
<1> QED BY <1>1, <1>2, OthersStay

LEMMA UnfinalizeStep ==
    ASSUME Shapes, ObjectsInv, NEW p \in Objects, Unfinalize(p)
    PROVE  ObjectsInv'
<1>1. ObjectInv(p)'
  BY ObjectUnfinalized DEF ObjectsInv
<1>2. \A o \in Objects \ {p} : cluster'[o] = cluster[o] /\ task'[o] = task[o]
  BY DEF Unfinalize, Return, Shapes
<1>3. store' = store /\ registry' = registry /\ route' = route
  BY DEF Unfinalize
<1>4. \A o \in Objects : Routed(o)' = Routed(o)
  BY <1>3 DEF Routed
<1> QED BY <1>1, <1>2, <1>3, <1>4, OthersStay

LEMMA FinalizeStep ==
    ASSUME Shapes, ObjectsInv, NEW p \in Objects, NEW at \in Ensured, Finalize(p), Go(p, at)
    PROVE  ObjectsInv'
<1>1. task'[p].at = at /\ \A o \in Objects \ {p} : task'[o] = task[o]
  BY DEF Go, Shapes, TaskFields
<1>2. ObjectInv(p)'
  BY <1>1, ObjectFinalized DEF ObjectsInv
<1>3. \A o \in Objects \ {p} : cluster'[o] = cluster[o]
  BY DEF Finalize, Shapes
<1>4. store' = store /\ registry' = registry /\ route' = route
  BY DEF Finalize
<1>5. \A o \in Objects : Routed(o)' = Routed(o)
  BY <1>4 DEF Routed
<1> QED BY <1>1, <1>2, <1>3, <1>4, <1>5, OthersStay

\* A step of p's task between two places behind ensure_finalizer, or its end.
LEMMA HeldStep ==
    ASSUME Shapes, ObjectsInv, NEW p \in Objects, UNCHANGED <<cluster, store, registry, route>>,
           task[p].at \in Ensured, NEW t, task' = [task EXCEPT ![p] = t],
           t.at \in Ensured \cup {"idle"}
    PROVE  ObjectsInv'
<1>1. Held(p)
  BY DEF ObjectsInv, ObjectInv
<1>2. \A o \in Objects : Routed(o)' = Routed(o)
  BY DEF Routed
<1>3. t.at # "finalize" /\ t.at # "unfinalize"
  BY DEF Ensured
<1> QED BY <1>1, <1>2, <1>3, TaskStep

LEMMA FailStep ==
    ASSUME Shapes, ObjectsInv, NEW p \in Objects, Fail(p)
    PROVE  ObjectsInv'
<1>1. task' = [task EXCEPT ![p] = Idle] /\ UNCHANGED <<cluster, store, registry, route>>
  BY DEF Fail, Return, world
<1>2. \A o \in Objects : Routed(o)' = Routed(o)
  BY <1>1 DEF Routed
<1>3. Idle.at = "idle" /\ "idle" \notin Ensured
  BY DEF Idle, Ensured
<1> HIDE DEF Idle
<1> QED BY <1>1, <1>2, <1>3, TaskStep

LEMMA ModuleObjectsInv ==
    ASSUME Shapes, ObjectsInv, NEW m \in ModuleObjects, ModuleStep(m)
    PROVE  ObjectsInv'
<1>0. m \in Objects /\ m \notin Ingresses /\ ObjectInv(m)
  BY KubeAssumption DEF Objects, KubeAssumption, ObjectsInv
<1>1. CASE BeginModuleDeletion(m)
  <2> DEFINE t == [Idle EXCEPT !.at = "unfinalize", !.copy = store[m]]
  <2>1. /\ store[m] # None /\ store[m].deleting
        /\ UNCHANGED <<cluster, store, route>> /\ task' = [task EXCEPT ![m] = t]
        /\ registry' = [registry EXCEPT ![m] = [g \in BOOLEAN |-> None]]
    BY <1>1 DEF BeginModuleDeletion, Begin, world
  <2>2. t.at = "unfinalize"
    BY DEF Idle
  <2>3. ~Routed(m)'
    BY <1>0, <2>1 DEF Routed, Shapes
  <2>4. \A o \in Objects \ {m} : Routed(o)' => Routed(o)
    BY <2>1 DEF Routed, Shapes
  <2> HIDE DEF t
  <2> QED BY <1>0, <2>1, <2>2, <2>3, <2>4, TaskStep DEF Ensured
<1>2. CASE BeginModule(m)
  <2>1. PICK at \in {"finalize", "get", "upsert"} :
           /\ at \in Ensured => store[m].finalizer
           /\ task' = [task EXCEPT ![m] = [Idle EXCEPT !.at = at, !.copy = store[m]]]
    BY <1>2 DEF BeginModule, NeedsFinalizer, AfterFinalizer, Begin, Ensured
  <2> DEFINE t == [Idle EXCEPT !.at = at, !.copy = store[m]]
  <2>2. t.at = at
    BY DEF Idle
  <2>3. store[m] # None /\ ~store[m].deleting /\ UNCHANGED <<cluster, store, registry, route>>
    BY <1>2 DEF BeginModule, world
  <2>4. at \in Ensured => Held(m)
    BY <1>0, <2>1, <2>3 DEF ObjectInv
  <2>5. \A o \in Objects : Routed(o)' = Routed(o)
    BY <2>3 DEF Routed
  <2>6. task' = [task EXCEPT ![m] = t]
    BY <2>1
  <2> HIDE DEF t
  <2> QED BY <1>0, <2>2, <2>3, <2>4, <2>5, <2>6, TaskStep
<1>3. CASE FinalizeModule(m)
  <2>1. AfterFinalizer(task[m].copy.spec) \in Ensured
    BY DEF AfterFinalizer, Ensured
  <2> QED BY <1>0, <1>3, <2>1, FinalizeStep DEF FinalizeModule
<1>4. CASE GetSecret(m)
  <2> DEFINE t == [task[m] EXCEPT !.at = "upsert", !.got = data[task[m].copy.spec.secret_ref]]
  <2>1. /\ UNCHANGED <<cluster, store, registry, route>> /\ task[m].at \in Ensured
        /\ task' = [task EXCEPT ![m] = t]
    BY <1>4 DEF GetSecret, world, Ensured
  <2>2. t.at = "upsert"
    BY <1>0 DEF Shapes, TaskFields
  <2> HIDE DEF t
  <2> QED BY <1>0, <2>1, <2>2, HeldStep DEF Ensured
<1>5. CASE GetSecretFails(m)
  <2>1. /\ UNCHANGED <<cluster, store, registry, route>> /\ task[m].at \in Ensured
        /\ task' = [task EXCEPT ![m] = Idle]
    BY <1>5 DEF GetSecretFails, Return, world, Ensured
  <2>2. Idle.at = "idle"
    BY DEF Idle
  <2> HIDE DEF Idle
  <2> QED BY <1>0, <2>1, <2>2, HeldStep
<1>6. CASE UpsertModule(m)
  <2>1. /\ UNCHANGED <<cluster, store, route>> /\ task[m].at \in Ensured
        /\ task' = [task EXCEPT ![m] = Idle]
    BY <1>6 DEF UpsertModule, Return, world, Ensured
  <2>2. Held(m)
    BY <1>0, <2>1 DEF ObjectInv
  <2>3. \A o \in Objects \ {m} : Routed(o)' => Routed(o)
    BY <1>6, <2>1 DEF UpsertModule, Routed, Shapes
  <2>4. Idle.at = "idle" /\ "idle" \notin Ensured
    BY DEF Idle, Ensured
  <2> HIDE DEF Idle
  <2> QED BY <1>0, <2>1, <2>2, <2>3, <2>4, TaskStep
<1> QED BY <1>1, <1>2, <1>3, <1>4, <1>5, <1>6 DEF ModuleStep

LEMMA IngressObjectsInv ==
    ASSUME Shapes, ObjectsInv, NEW i \in Ingresses, IngressStep(i)
    PROVE  ObjectsInv'
<1>0. i \in Objects /\ i \notin ModuleObjects /\ ObjectInv(i)
  BY KubeAssumption DEF Objects, KubeAssumption, ObjectsInv
<1>1. CASE BeginIngressDeletion(i)
  <2> DEFINE t == [Idle EXCEPT !.at = "unfinalize", !.copy = store[i]]
  <2>1. /\ store[i] # None /\ store[i].deleting
        /\ UNCHANGED <<cluster, store, registry>> /\ task' = [task EXCEPT ![i] = t]
        /\ route' = [j \in Ingresses |-> IF j \in Namesakes(i) THEN None ELSE route[j]]
    BY <1>1 DEF BeginIngressDeletion, Deleted, Begin, world
  <2>2. t.at = "unfinalize"
    BY DEF Idle
  <2>3. ~Routed(i)'
    BY <1>0, <2>1 DEF Routed, Namesakes
  <2>4. \A o \in Objects \ {i} : Routed(o)' => Routed(o)
    BY <2>1 DEF Routed
  <2> HIDE DEF t
  <2> QED BY <1>0, <2>1, <2>2, <2>3, <2>4, TaskStep DEF Ensured
<1>2. CASE BeginIngress(i)
  <2>1. /\ store[i] # None /\ ~store[i].deleting
        /\ UNCHANGED <<cluster, store, registry, route>>
    BY <1>2 DEF BeginIngress, Deleted, world
  <2>2. CASE task' = task
    BY <2>1, <2>2, QuietStep
  <2>3. CASE task' # task
    <3>1. PICK at \in {"finalize", "tls"} :
             /\ at \in Ensured => store[i].finalizer
             /\ task' = [task EXCEPT ![i] = [Idle EXCEPT !.at = at, !.copy = store[i]]]
      BY <1>2, <2>3 DEF BeginIngress, NeedsFinalizer, Begin, BeginAndReturn, Ensured
    <3> DEFINE t == [Idle EXCEPT !.at = at, !.copy = store[i]]
    <3>2. t.at = at
      BY DEF Idle
    <3>3. at \in Ensured => Held(i)
      BY <1>0, <2>1, <3>1 DEF ObjectInv
    <3>4. \A o \in Objects : Routed(o)' = Routed(o)
      BY <2>1 DEF Routed
    <3>5. task' = [task EXCEPT ![i] = t]
      BY <3>1
    <3> HIDE DEF t
    <3> QED BY <1>0, <2>1, <3>2, <3>3, <3>4, <3>5, TaskStep
  <2> QED BY <2>2, <2>3
<1>3. CASE FinalizeIngress(i)
  BY <1>0, <1>3, FinalizeStep DEF FinalizeIngress, Ensured
<1>4. CASE \/ GetTls(i) \/ SkipTls(i) \/ AddCert(i) \/ AddCertKey(i) \/ CertAdded(i)
           \/ GetService(i) \/ SkipService(i)
  <2>1. UNCHANGED <<cluster, store, registry, route>> /\ task[i].at \in Ensured
    BY <1>4 DEF GetTls, SkipTls, AddCert, AddCertKey, CertAdded, GetService, SkipService,
                world, Ensured
  <2>2. PICK t : task' = [task EXCEPT ![i] = t] /\ t.at \in Ensured
    <3> USE <1>0 DEF Shapes, TaskFields, Ensured
    <3>1. CASE GetTls(i)
      <4> DEFINE s == task[i].copy.spec.tls
                 t == [task[i] EXCEPT !.at = "record", !.got = data[s], !.keys = Keys(data[s])]
      <4>1. task' = [task EXCEPT ![i] = t] /\ t.at = "record"
        BY <3>1 DEF GetTls
      <4> QED BY <4>1
    <3>2. CASE SkipTls(i) \/ AddCert(i) \/ SkipService(i)
      BY <3>2 DEF SkipTls, AddCert, SkipService, Go
    <3>3. CASE AddCertKey(i)
      <4> DEFINE t == [task[i] EXCEPT !.keys = Tail(@)]
      <4>1. task' = [task EXCEPT ![i] = t] /\ t.at = "publish"
        BY <3>3 DEF AddCertKey
      <4> QED BY <4>1
    <3>4. CASE CertAdded(i) \/ GetService(i)
      BY <3>4 DEF CertAdded, GetService
    <3> QED BY <1>4, <3>1, <3>2, <3>3, <3>4
  <2> QED BY <1>0, <2>1, <2>2, HeldStep
<1>5. CASE InsertIngress(i)
  <2>1. /\ UNCHANGED <<cluster, store, registry>> /\ task[i].at \in Ensured
        /\ task' = [task EXCEPT ![i] = Idle]
    BY <1>5 DEF InsertIngress, Return, world, Ensured
  <2>2. Held(i)
    BY <1>0, <2>1 DEF ObjectInv
  <2>3. \A o \in Objects \ {i} : Routed(o)' => Routed(o)
    BY <1>5, <2>1 DEF InsertIngress, Routed, Shapes
  <2>4. Idle.at = "idle" /\ "idle" \notin Ensured
    BY DEF Idle, Ensured
  <2> HIDE DEF Idle
  <2> QED BY <1>0, <2>1, <2>2, <2>3, <2>4, TaskStep
<1> QED BY <1>1, <1>2, <1>3, <1>4, <1>5 DEF IngressStep

-----------------------------------------------------------------------------
(* The theorem.                                                            *)

IInv == Shapes /\ ObjectsInv

LEMMA IInvStep == IInv /\ [Next]_vars => IInv'
<1> SUFFICES ASSUME IInv, [Next]_vars PROVE IInv'
  OBVIOUS
<1> USE DEF IInv
<1>1. CASE \E o \in Objects : \E spec \in SpecsOf(o) : Create(o, spec) \/ Update(o, spec)
  <2>1. PICK o \in Objects : \E spec \in SpecsOf(o) : Create(o, spec) \/ Update(o, spec)
    BY <1>1
  <2>2. PICK spec \in SpecsOf(o) : Create(o, spec) \/ Update(o, spec)
    BY <2>1
  <2>3. spec \in Specs[o]
    BY DEF SpecsOf
  <2> QED BY <2>2, <2>3, OutsideShapes, OutsideStep
<1>2. CASE \E o \in Objects : Delete(o)
  BY <1>2, OutsideShapes, DeleteStep
<1>3. CASE \/ \E d \in Dependencies : \E value \in Data(d) \cup {None} : ChangeData(d, value)
           \/ Outage \/ Recover
  <2>1. Shapes'
    BY <1>3, WorldShapes
  <2>2. UNCHANGED <<cluster, store, task, registry, route>>
    BY <1>3 DEF ChangeData, Outage, Recover, Outside, process
  <2> QED BY <2>1, <2>2, QuietStep
<1>4. CASE \E d \in Dependencies : Notify(d)
  <2>1. UNCHANGED <<cluster, store, task, registry, route>>
    BY <1>4 DEF Notify, world
  <2>2. Shapes'
    BY <1>4, <2>1 DEF Shapes, Notify, world
  <2> QED BY <2>1, <2>2, QuietStep
<1>5. ASSUME NEW o \in Objects, Observe(o) \/ Run(o)
      PROVE  IInv'
  <2>1. CASE Observe(o)
    <3>1. Shapes'
      BY <2>1 DEF Shapes, Observe, world
    <3> QED BY <2>1, <3>1, WatchStep
  <2>2. CASE Expire(o) \/ TakeNothing(o)
    <3>1. UNCHANGED <<cluster, store, task, registry, route>>
      BY <2>2 DEF Expire, TakeNothing, BeginAndReturn, world
    <3>2. Shapes'
      BY <2>2, <3>1 DEF Shapes, Expire, TakeNothing, BeginAndReturn, world
    <3> QED BY <3>1, <3>2, QuietStep
  <2>3. CASE Unfinalize(o) \/ Fail(o)
    BY <2>3, PatchShapes, UnfinalizeStep, FailStep
  <2>4. CASE o \in ModuleObjects /\ ModuleStep(o)
    BY <2>4, ModuleShapes, ModuleObjectsInv
  <2>5. CASE o \in Ingresses /\ IngressStep(o)
    BY <2>5, IngressShapes, IngressObjectsInv
  <2> QED BY <1>5, <2>1, <2>2, <2>3, <2>4, <2>5 DEF Run
<1>6. CASE UNCHANGED vars
  <2>1. UNCHANGED <<cluster, store, task, registry, route, due, data, refs>>
    BY <1>6 DEF vars, world, process
  <2>2. Shapes'
    BY <2>1 DEF Shapes
  <2> QED BY <2>1, <2>2, QuietStep
<1> QED BY <1>1, <1>2, <1>3, <1>4, <1>5, <1>6 DEF Next

\* What the routers hold for an object, a route or a registered module, always
\* has an object in the cluster that carries the provider's finalizer: for every
\* number of objects, and whenever they are deleted, recreated or changed, and
\* requests to the API server fail, between the steps of a reconciliation.
THEOREM NothingLeftBehind == Spec => []NoOrphan
<1>1. Init => IInv
  BY InitShapes, InitObjects DEF IInv
<1>2. IInv => NoOrphan
  BY DEF IInv, ObjectsInv, ObjectInv, NoOrphan, Routed, Held, Objects
<1> QED BY <1>1, <1>2, IInvStep, PTL DEF Spec

-----------------------------------------------------------------------------
(* KubeTypeOK.  Its parts, and the type of a task.                         *)

Places == {"idle", "finalize", "unfinalize"} \cup Ensured

TaskTyped(o, t) ==
    /\ t.at \in Places
    /\ t.at = "idle" => t = Idle
    /\ t.at # "idle" => /\ t.copy \in Object /\ t.copy.spec \in Specs[o]
                        /\ t.copy.deleting = (t.at = "unfinalize")
    /\ t.at \in {"get", "upsert"} => o \in ModuleObjects
    /\ t.at \in {"tls", "record", "publish", "service", "insert"} => o \in Ingresses
    /\ t.at \in {"finalize", "tls"} => t.got = None
    /\ t.at \in {"record", "publish"} =>
           t.copy.spec.tls \in Secrets /\ t.got \in CertsOf[t.copy.spec.tls]
    /\ t.at \in {"service", "insert"} => t.got \in Versions \cup {None}

ClusterTyped ==
    /\ cluster \in [Objects -> Object \cup {None}]
    /\ \A o \in Objects :
        /\ cluster[o] # None => o \in population /\ cluster[o].spec \in Specs[o]
        /\ cluster[o] # None /\ cluster[o].deleting => cluster[o].finalizer

WorldTyped ==
    /\ population \in Populations
    /\ \A d \in Dependencies : data[d] \in Data(d) \cup {None}
    /\ changes \in 0..MaxChanges[population] /\ api \in BOOLEAN
    /\ events \subseteq Dependencies

CopiesTyped ==
    /\ store \in [Objects -> Object \cup {None}]
    /\ due \in [Objects -> Delays]

RefsTyped ==
    /\ \A s \in ModuleSecrets : refs[s] \in ModuleObjects \cup {None}
    /\ \A s \in Services : refs[s] \in Ingresses \cup {None}
    /\ \A s \in Secrets : refs[s] = None

RegistryTyped ==
    \A m \in ModuleObjects, g \in BOOLEAN :
        registry[m][g] # None => /\ registry[m][g].spec \in Specs[m]
                                 /\ registry[m][g].spec.global = g

RouteTyped == route \in [Ingresses -> Versions \cup {Resource, Unresolved, None}]

TasksTyped == \A o \in Objects : TaskTyped(o, task[o])

RoutersTyped == RefsTyped /\ RegistryTyped /\ RouteTyped /\ CertsTypeOK

TypesInv == IInv /\ ClusterTyped /\ WorldTyped /\ CopiesTyped /\ RoutersTyped /\ TasksTyped

LEMMA TypesSuffice == TypesInv => KubeTypeOK
<1> SUFFICES ASSUME TypesInv PROVE KubeTypeOK
  OBVIOUS
<1>1. \A o \in Objects :
        /\ cluster[o] # None => o \in population /\ cluster[o].spec \in Specs[o]
        /\ cluster[o] # None /\ cluster[o].deleting => cluster[o].finalizer
  BY DEF TypesInv, ClusterTyped
<1>2. \A o \in Objects :
        /\ task[o].at = "idle" => task[o] = Idle
        /\ task[o].at # "idle" => task[o].copy.deleting = (task[o].at = "unfinalize")
        /\ task[o].at = "upsert" => o \in ModuleObjects
        /\ task[o].at \in {"tls", "record", "publish", "service", "insert"} => o \in Ingresses
  BY DEF TypesInv, TasksTyped, TaskTyped
<1> QED BY <1>1, <1>2 DEF KubeTypeOK, TypesInv, ClusterTyped, WorldTyped, CopiesTyped,
                          RoutersTyped, RefsTyped, RegistryTyped, RouteTyped

LEMMA TypesInit == Init => TypesInv
<1> SUFFICES ASSUME Init PROVE TypesInv
  OBVIOUS
<1>1. IInv
  BY InitShapes, InitObjects DEF IInv
<1>2. PICK found \in [population \cap Objects -> Object] :
         /\ \A x \in DOMAIN found :
             /\ found[x].spec \in SpecsOf(x)
             /\ <<found[x].finalizer, found[x].deleting>> \in Beginnings
         /\ cluster = [x \in Objects |-> IF x \in population THEN found[x] ELSE None]
  BY DEF Init
<1>3. ClusterTyped
  <2>1. cluster \in [Objects -> Object \cup {None}]
    BY <1>2
  <2>2. ASSUME NEW o \in Objects, cluster[o] # None
        PROVE  /\ o \in population /\ cluster[o].spec \in Specs[o]
               /\ cluster[o].deleting => cluster[o].finalizer
    <3>1. o \in population /\ cluster[o] = found[o]
      BY <1>2, <2>2
    <3> QED BY <1>1, <1>2, <2>2, <3>1 DEF SpecsOf, IInv, ObjectsInv, ObjectInv
  <2> QED BY <2>1, <2>2 DEF ClusterTyped
<1>4. WorldTyped
  <2>1. population \in Populations /\ changes = 0 /\ api = TRUE /\ events \subseteq Dependencies
    BY DEF Init
  <2>2. MaxChanges[population] \in Nat
    BY <2>1, KubeAssumption
  <2>3. \A d \in Dependencies : data[d] \in Data(d) \cup {None}
    BY KubeAssumption DEF Init
  <2> QED BY <2>1, <2>2, <2>3 DEF WorldTyped
<1>5. CopiesTyped
  BY DEF Init, CopiesTyped, Delays
<1>6. RoutersTyped
  BY DEF Init, RoutersTyped, RefsTyped, RegistryTyped, RouteTyped, Dependencies,
         CertsInit, CertsTypeOK
<1>7. TasksTyped
  <2>1. \A o \in Objects : task[o] = Idle
    BY DEF Init
  <2>2. Idle.at = "idle" /\ "idle" \in Places /\ "idle" \notin Ensured
    BY DEF Idle, Places, Ensured
  <2> HIDE DEF Idle
  <2> QED BY <2>1, <2>2 DEF TasksTyped, TaskTyped, Ensured
<1> QED BY <1>1, <1>3, <1>4, <1>5, <1>6, <1>7 DEF TypesInv

\* What a step leaves alone keeps its type.
LEMMA TypesStay ==
    ASSUME TypesInv
    PROVE  /\ UNCHANGED <<population, cluster>> => ClusterTyped'
           /\ UNCHANGED <<population, data, changes, api, events>> => WorldTyped'
           /\ UNCHANGED <<store, due>> => CopiesTyped'
           /\ UNCHANGED refs => RefsTyped'
           /\ UNCHANGED registry => RegistryTyped'
           /\ UNCHANGED route => RouteTyped'
           /\ UNCHANGED certVars => CertsTypeOK'
           /\ UNCHANGED task => TasksTyped'
BY DEF TypesInv, ClusterTyped, WorldTyped, CopiesTyped, RoutersTyped, RefsTyped, RegistryTyped,
       RouteTyped, CertsTypeOK, certVars, TasksTyped

LEMMA TypesOutside ==
    ASSUME TypesInv, IInv',
           \/ \E o \in Objects : \E spec \in SpecsOf(o) : Create(o, spec) \/ Update(o, spec)
           \/ \E o \in Objects : Delete(o)
    PROVE  TypesInv'
<1>1. /\ UNCHANGED <<population, data, api, events, store, due, task, refs, registry, route, certVars>>
      /\ changes < MaxChanges[population] /\ changes' = changes + 1
  BY DEF Create, Update, Delete, Outside
<1>2. WorldTyped'
  <2>1. MaxChanges[population] \in Nat
    BY KubeAssumption DEF TypesInv, WorldTyped
  <2>2. changes' \in 0..MaxChanges[population]'
    BY <1>1, <2>1 DEF TypesInv, WorldTyped
  <2> QED BY <1>1, <2>2 DEF TypesInv, WorldTyped
<1>3. ASSUME NEW o \in Objects, NEW x \in Object \cup {None}, cluster' = [cluster EXCEPT ![o] = x],
             x # None => /\ o \in population /\ x.spec \in Specs[o]
                         /\ x.deleting => x.finalizer
      PROVE  ClusterTyped'
  BY <1>1, <1>3 DEF TypesInv, ClusterTyped
<1>4. ClusterTyped'
  <2>1. CASE \E o \in Objects : \E spec \in SpecsOf(o) : Create(o, spec)
    <3>1. PICK o \in Objects : \E spec \in SpecsOf(o) : Create(o, spec)
      BY <2>1
    <3>2. PICK spec \in SpecsOf(o) : Create(o, spec)
      BY <3>1
    <3> DEFINE x == [spec |-> spec, finalizer |-> FALSE, deleting |-> FALSE]
    <3>3. spec \in Specs[o] /\ x \in Object
      <4>1. spec \in Specs[o]
        BY DEF SpecsOf
      <4>2. spec \in UNION {Specs[p] : p \in Objects}
        BY <4>1
      <4> QED BY <4>1, <4>2 DEF Object
    <3>4. cluster' = [cluster EXCEPT ![o] = x] /\ o \in population
      BY <3>2 DEF Create
    <3>5. x.spec = spec /\ ~x.deleting
      OBVIOUS
    <3> HIDE DEF x
    <3> QED BY <1>3, <3>3, <3>4, <3>5
  <2>2. CASE \E o \in Objects : \E spec \in SpecsOf(o) : Update(o, spec)
    <3>1. PICK o \in Objects : \E spec \in SpecsOf(o) : Update(o, spec)
      BY <2>2
    <3>2. PICK spec \in SpecsOf(o) : Update(o, spec)
      BY <3>1
    <3> DEFINE x == [cluster[o] EXCEPT !.spec = spec]
    <3>3. /\ cluster' = [cluster EXCEPT ![o] = x]
          /\ cluster[o] # None /\ cluster[o] \in Object /\ o \in population
          /\ ~cluster[o].deleting
      BY <3>2 DEF Update, TypesInv, ClusterTyped
    <3>4. spec \in Specs[o] /\ spec \in UNION {Specs[p] : p \in Objects}
      BY DEF SpecsOf
    <3>5. x \in Object /\ x.spec = spec /\ ~x.deleting
      BY <3>3, <3>4 DEF Object
    <3> HIDE DEF x
    <3> QED BY <1>3, <3>3, <3>4, <3>5
  <2>3. CASE \E o \in Objects : Delete(o)
    <3>1. PICK o \in Objects : Delete(o)
      BY <2>3
    <3> DEFINE marked == [cluster[o] EXCEPT !.deleting = TRUE]
               x == IF cluster[o].finalizer THEN marked ELSE None
    <3>2. /\ cluster' = [cluster EXCEPT ![o] = x]
          /\ cluster[o] # None /\ cluster[o] \in Object /\ o \in population
          /\ cluster[o].spec \in Specs[o]
      BY <3>1 DEF Delete, TypesInv, ClusterTyped
    <3>3. /\ marked \in Object /\ marked.spec = cluster[o].spec
          /\ marked.finalizer = cluster[o].finalizer
      BY <3>2 DEF Object
    <3> HIDE DEF marked
    <3>4. /\ x \in Object \cup {None}
          /\ x # None => x.spec \in Specs[o] /\ x.finalizer
      BY <3>2, <3>3
    <3> HIDE DEF x
    <3> QED BY <1>3, <3>2, <3>4
  <2> QED BY <2>1, <2>2, <2>3
<1> QED BY <1>1, <1>2, <1>4, TypesStay DEF TypesInv, RoutersTyped

LEMMA TypesWorld ==
    ASSUME TypesInv, IInv',
           \/ \E d \in Dependencies : \E value \in Data(d) \cup {None} : ChangeData(d, value)
           \/ Outage \/ Recover
    PROVE  TypesInv'
<1>1. /\ UNCHANGED <<population, cluster, store, due, task, refs, registry, route, certVars>>
      /\ \/ changes' = changes
         \/ changes < MaxChanges[population] /\ changes' = changes + 1
  BY DEF ChangeData, Outage, Recover, Outside, process
<1>2. WorldTyped'
  <2>1. MaxChanges[population] \in Nat
    BY KubeAssumption DEF TypesInv, WorldTyped
  <2>2. changes' \in 0..MaxChanges[population]'
    BY <1>1, <2>1 DEF TypesInv, WorldTyped
  <2>3. CASE \E d \in Dependencies : \E value \in Data(d) \cup {None} : ChangeData(d, value)
    <3>1. PICK d \in Dependencies : \E value \in Data(d) \cup {None} : ChangeData(d, value)
      BY <2>3
    <3>2. PICK value \in Data(d) \cup {None} : ChangeData(d, value)
      BY <3>1
    <3>3. \A e \in Dependencies : data'[e] \in Data(e) \cup {None}
      BY <3>2 DEF ChangeData, TypesInv, IInv, Shapes, WorldTyped
    <3> QED BY <1>1, <2>2, <3>2, <3>3 DEF ChangeData, TypesInv, WorldTyped
  <2>4. CASE Outage \/ Recover
    BY <1>1, <2>2, <2>4 DEF Outage, Recover, process, TypesInv, WorldTyped
  <2> QED BY <2>3, <2>4
<1> QED BY <1>1, <1>2, TypesStay DEF TypesInv, RoutersTyped

LEMMA TypesWatch ==
    ASSUME TypesInv, IInv',
           \/ \E o \in Objects : Observe(o) \/ Expire(o) \/ TakeNothing(o)
           \/ \E d \in Dependencies : Notify(d)
    PROVE  TypesInv'
<1>1. /\ UNCHANGED <<population, cluster, data, changes, api, task, refs, registry, route, certVars>>
      /\ events' \subseteq events
  BY DEF Observe, Expire, TakeNothing, BeginAndReturn, Notify, world
<1>2. WorldTyped'
  BY <1>1 DEF TypesInv, WorldTyped
<1>3. CopiesTyped'
  <2> USE DEF TypesInv, CopiesTyped, ClusterTyped, Delays
  <2>1. CASE \E o \in Objects : Observe(o)
    BY <2>1 DEF Observe
  <2>2. CASE \E o \in Objects : Expire(o) \/ TakeNothing(o)
    BY <2>2 DEF Expire, TakeNothing, BeginAndReturn
  <2>3. CASE \E d \in Dependencies : Notify(d)
    BY <2>3 DEF Notify
  <2> QED BY <2>1, <2>2, <2>3
<1> QED BY <1>1, <1>2, <1>3, TypesStay DEF TypesInv, RoutersTyped

\* A step of p's task.
LEMMA TypesTask ==
    ASSUME TypesInv, IInv', NEW p \in Objects, NEW t, TaskTyped(p, t),
           task' = [task EXCEPT ![p] = t],
           NEW x \in Delays, due' = [due EXCEPT ![p] = x] \/ due' = due,
           ClusterTyped', UNCHANGED <<population, data, changes, api, events, store>>,
           RoutersTyped'
    PROVE  TypesInv'
<1>1. TasksTyped'
  BY DEF TypesInv, IInv, Shapes, TasksTyped
<1>2. CopiesTyped'
  BY DEF TypesInv, CopiesTyped
<1> QED BY <1>1, <1>2, TypesStay DEF TypesInv

LEMMA TaskReturns ==
    ASSUME TypesInv, NEW p \in Objects, NEW delay \in Delays, Return(p, delay)
    PROVE  /\ task' = [task EXCEPT ![p] = Idle] /\ TaskTyped(p, Idle)
           /\ \E x \in Delays : due' = [due EXCEPT ![p] = x]
<1>1. Idle.at = "idle" /\ "idle" \in Places /\ "idle" \notin Ensured
  BY DEF Idle, Places, Ensured
<1>2. TaskTyped(p, Idle)
  BY <1>1 DEF TaskTyped, Ensured
<1>3. \E x \in Delays : due' = [due EXCEPT ![p] = x]
  BY DEF Return, Requeue, TypesInv, CopiesTyped
<1> QED BY <1>2, <1>3 DEF Return

LEMMA TypesReturn ==
    ASSUME TypesInv, IInv', NEW p \in Objects, NEW delay \in Delays, Return(p, delay),
           ClusterTyped', UNCHANGED <<population, data, changes, api, events, store>>,
           RoutersTyped'
    PROVE  TypesInv'
<1>1. /\ task' = [task EXCEPT ![p] = Idle] /\ TaskTyped(p, Idle)
      /\ \E x \in Delays : due' = [due EXCEPT ![p] = x]
  BY TaskReturns
<1> HIDE DEF Idle
<1> QED BY <1>1, TypesTask

\* What the first step of a task takes from the store.
LEMMA TypesBegin ==
    ASSUME TypesInv, IInv', NEW p \in Objects, store[p] # None, NEW at, Begin(p, at),
           at \in {"finalize", "get", "upsert", "tls", "unfinalize"},
           store[p].deleting = (at = "unfinalize"),
           at \in {"get", "upsert"} => p \in ModuleObjects,
           at = "tls" => p \in Ingresses,
           UNCHANGED <<population, cluster, data, changes, api, events, store>>,
           RoutersTyped'
    PROVE  TypesInv'
<1> DEFINE t == [Idle EXCEPT !.at = at, !.copy = store[p]]
<1>1. t.at = at /\ t.copy = store[p] /\ t.got = None
  BY DEF Idle
<1>2. store[p] \in Object /\ store[p].spec \in Specs[p]
  BY DEF TypesInv, IInv, ObjectsInv, ObjectInv, Known
<1>3. task' = [task EXCEPT ![p] = t] /\ due' = [due EXCEPT ![p] = "no"] /\ "no" \in Delays
  BY DEF Begin, Delays
<1> HIDE DEF t
<1>4. TaskTyped(p, t)
  BY <1>1, <1>2 DEF TaskTyped, Places, Ensured
<1> QED BY <1>3, <1>4, TypesTask, TypesStay

\* Where a task goes on with what it has.
LEMMA TypesGo ==
    ASSUME TypesInv, IInv', NEW p \in Objects, NEW t, TaskTyped(p, t),
           task' = [task EXCEPT ![p] = t], due' = due,
           ClusterTyped', UNCHANGED <<population, data, changes, api, events, store>>,
           RoutersTyped'
    PROVE  TypesInv'
BY TypesTask DEF Delays

\* The patches of the finalizer.
LEMMA TypesPatch ==
    ASSUME TypesInv, NEW p \in Objects, UNCHANGED population,
           \/ Finalize(p)
           \/ Unfinalize(p)
    PROVE  ClusterTyped'
<1>1. cluster[p] # None /\ cluster[p] \in Object /\ p \in population /\ cluster[p].spec \in Specs[p]
  BY DEF Finalize, Unfinalize, Accepts, TypesInv, ClusterTyped
<1>2. ASSUME NEW x \in Object \cup {None}, cluster' = [cluster EXCEPT ![p] = x],
             x # None => x.spec = cluster[p].spec /\ (x.deleting => x.finalizer)
      PROVE  ClusterTyped'
  BY <1>1, <1>2 DEF TypesInv, ClusterTyped
<1>3. CASE Finalize(p)
  <2> DEFINE x == [cluster[p] EXCEPT !.finalizer = TRUE]
  <2>1. cluster' = [cluster EXCEPT ![p] = x]
    BY <1>3 DEF Finalize
  <2>2. x \in Object /\ x.spec = cluster[p].spec /\ x.finalizer
    BY <1>1 DEF Object
  <2> HIDE DEF x
  <2> QED BY <1>2, <2>1, <2>2
<1>4. CASE Unfinalize(p)
  <2> DEFINE bare == [cluster[p] EXCEPT !.finalizer = FALSE]
             x == IF cluster[p].deleting THEN None ELSE bare
  <2>1. cluster' = [cluster EXCEPT ![p] = x]
    BY <1>4 DEF Unfinalize
  <2>2. bare \in Object /\ bare.spec = cluster[p].spec /\ bare.deleting = cluster[p].deleting
    BY <1>1 DEF Object
  <2> HIDE DEF bare
  <2>3. x \in Object \cup {None} /\ (x # None => x.spec = cluster[p].spec /\ ~x.deleting)
    BY <2>2
  <2> HIDE DEF x
  <2> QED BY <1>2, <2>1, <2>3
<1> QED BY <1>3, <1>4

LEMMA TypesModule ==
    ASSUME TypesInv, IInv', NEW m \in ModuleObjects, ModuleStep(m)
    PROVE  TypesInv'
<1>0. /\ m \in Objects /\ m \notin Ingresses
      /\ TaskTyped(m, task[m])
  BY KubeAssumption DEF Objects, TypesInv, TasksTyped
<1>1. CASE BeginModuleDeletion(m)
  <2>1. /\ UNCHANGED <<population, cluster, data, changes, api, events, store, route, certVars>>
        /\ store[m] # None /\ store[m].deleting /\ Begin(m, "unfinalize")
    BY <1>1 DEF BeginModuleDeletion, world
  <2>2. RefsTyped'
    BY <1>1 DEF BeginModuleDeletion, TypesInv, RoutersTyped, RefsTyped, Dependencies
  <2>3. RegistryTyped'
    BY <1>1 DEF BeginModuleDeletion, TypesInv, RoutersTyped, RegistryTyped, IInv, Shapes
  <2> QED BY <1>0, <2>1, <2>2, <2>3, TypesStay, TypesBegin DEF RoutersTyped
<1>2. CASE BeginModule(m)
  <2>1. /\ UNCHANGED <<population, cluster, data, changes, api, events, store, registry, route, certVars>>
        /\ store[m] # None /\ ~store[m].deleting
        /\ \E at \in {"finalize", "get", "upsert"} : Begin(m, at)
    BY <1>2 DEF BeginModule, AfterFinalizer, world
  <2>2. RefsTyped'
    <3>1. \/ refs' = refs
          \/ refs' = [d \in Dependencies |-> IF d = store[m].spec.secret_ref THEN m ELSE refs[d]]
      BY <1>2 DEF BeginModule, Register
    <3>2. store[m].spec.secret_ref \in ModuleSecrets \cup {None}
      <4>1. store[m].spec \in Specs[m]
        BY <2>1 DEF TypesInv, IInv, ObjectsInv, ObjectInv, Known, Objects
      <4>2. store[m].spec \in ModuleSpec
        BY <4>1, KubeAssumption
      <4> QED BY <4>2 DEF ModuleSpec
    <3> QED BY <3>1, <3>2, KubeAssumption
              DEF TypesInv, RoutersTyped, RefsTyped, Dependencies
  <2>3. store[m].deleting = FALSE
    BY <1>0, <2>1 DEF TypesInv, IInv, ObjectsInv, ObjectInv, Known, Object
  <2>4. RoutersTyped'
    BY <2>1, <2>2, TypesStay DEF RoutersTyped
  <2>5. PICK at \in {"finalize", "get", "upsert"} : Begin(m, at)
    BY <2>1
  <2> QED BY <1>0, <2>1, <2>3, <2>4, <2>5, TypesBegin
<1>3. CASE FinalizeModule(m)
  <2> DEFINE spec == task[m].copy.spec
             t == [task[m] EXCEPT !.at = AfterFinalizer(spec)]
  <2>1. /\ UNCHANGED <<population, data, changes, api, events, store, registry, route, certVars>>
        /\ task' = [task EXCEPT ![m] = t] /\ due' = due
        /\ refs' = [d \in Dependencies |-> IF d = spec.secret_ref THEN m ELSE refs[d]]
        /\ task[m].at = "finalize"
    BY <1>3 DEF FinalizeModule, Finalize, Go, Register
  <2>2. spec \in Specs[m] /\ spec \in ModuleSpec
    BY <1>0, <2>1, KubeAssumption DEF TaskTyped
  <2>3. RefsTyped'
    BY <2>1, <2>2, KubeAssumption
       DEF ModuleSpec, TypesInv, RoutersTyped, RefsTyped, Dependencies
  <2>4. TaskTyped(m, t)
    <3>1. t.at \in {"get", "upsert"} /\ t.copy = task[m].copy
      BY <1>0 DEF AfterFinalizer, TypesInv, IInv, Shapes, TaskFields
    <3> HIDE DEF t
    <3> QED BY <1>0, <2>1, <3>1 DEF TaskTyped, Places, Ensured
  <2>5. ClusterTyped'
    BY <1>0, <1>3, <2>1, TypesPatch DEF FinalizeModule
  <2> HIDE DEF t
  <2> QED BY <1>0, <2>1, <2>3, <2>4, <2>5, TypesStay, TypesGo DEF RoutersTyped
<1>4. CASE GetSecret(m)
  <2> DEFINE t == [task[m] EXCEPT !.at = "upsert", !.got = data[task[m].copy.spec.secret_ref]]
  <2>1. /\ UNCHANGED <<population, cluster, data, changes, api, events, store, refs, registry, route,
                       certVars>>
        /\ task' = [task EXCEPT ![m] = t] /\ due' = due /\ task[m].at = "get"
    BY <1>4 DEF GetSecret, world
  <2>2. t.at = "upsert" /\ t.copy = task[m].copy
    BY <1>0 DEF TypesInv, IInv, Shapes, TaskFields
  <2> HIDE DEF t
  <2>3. TaskTyped(m, t)
    BY <1>0, <2>1, <2>2 DEF TaskTyped, Places, Ensured
  <2> QED BY <1>0, <2>1, <2>3, TypesStay, TypesGo DEF RoutersTyped
<1>5. CASE GetSecretFails(m)
  <2>1. /\ UNCHANGED <<population, cluster, data, changes, api, events, store, refs, registry, route,
                       certVars>>
        /\ Return(m, "soon")
    BY <1>5 DEF GetSecretFails, world
  <2>2. "soon" \in Delays
    BY DEF Delays
  <2> QED BY <1>0, <2>1, <2>2, TypesStay, TypesReturn DEF RoutersTyped
<1>6. CASE UpsertModule(m)
  <2>1. /\ UNCHANGED <<population, cluster, data, changes, api, events, store, refs, route, certVars>>
        /\ Return(m, "later") /\ task[m].at = "upsert"
        /\ registry' = [registry EXCEPT ![m][task[m].copy.spec.global] =
                           [spec |-> task[m].copy.spec, got |-> task[m].got]]
    BY <1>6 DEF UpsertModule, ModuleResync, world
  <2>2. "later" \in Delays
    BY DEF Delays
  <2>3. task[m].copy.spec \in Specs[m]
    BY <1>0, <2>1 DEF TaskTyped
  <2> DEFINE new == [spec |-> task[m].copy.spec, got |-> task[m].got]
  <2>4. new.spec = task[m].copy.spec
    OBVIOUS
  <2>5. registry' = [registry EXCEPT ![m][task[m].copy.spec.global] = new]
    BY <2>1
  <2> HIDE DEF new
  <2>6. RegistryTyped'
    BY <2>3, <2>4, <2>5 DEF TypesInv, RoutersTyped, RegistryTyped, IInv, Shapes
  <2> QED BY <1>0, <2>1, <2>2, <2>6, TypesStay, TypesReturn DEF RoutersTyped
<1> QED BY <1>1, <1>2, <1>3, <1>4, <1>5, <1>6 DEF ModuleStep

\* What a get of a dependency returns.
LEMMA AvailableData ==
    ASSUME TypesInv
    PROVE  /\ \A s \in Secrets : Available(s) => data[s] \in CertsOf[s]
           /\ \A s \in Services : Available(s) => data[s] \in Versions
<1>1. \A d \in Dependencies : Available(d) => data[d] \in Data(d)
  BY DEF Available, TypesInv, WorldTyped
<1>2. \A s \in Secrets : Available(s) => data[s] \in CertsOf[s]
  BY <1>1 DEF Dependencies, Data
<1>3. \A s \in Services : s \in Dependencies /\ s \notin Secrets
  BY KubeAssumption DEF Dependencies
<1>4. \A s \in Services : Available(s) => data[s] \in Versions
  BY <1>1, <1>3 DEF Data
<1> QED BY <1>2, <1>4

\* An ingress refers to secrets and services, and a secret holds certificates.
LEMMA SpecDependencies ==
    ASSUME NEW i \in Ingresses, NEW spec \in Specs[i]
    PROVE  /\ spec.tls \in Secrets \cup {None} /\ spec.service \in Services \cup {None}
           /\ \A s \in Secrets : CertsOf[s] \subseteq Certificates
<1>1. spec \in IngressSpec
  BY KubeAssumption
<1>2. \A s \in Secrets : CertsOf[s] \subseteq Certificates
  BY KubeAssumption
<1> QED BY <1>1, <1>2 DEF IngressSpec

LEMMA TypesIngress ==
    ASSUME TypesInv, IInv', NEW i \in Ingresses, IngressStep(i)
    PROVE  TypesInv'
<1>0. /\ i \in Objects /\ i \notin ModuleObjects
      /\ TaskTyped(i, task[i]) /\ DOMAIN task[i] = TaskFields
  BY KubeAssumption DEF Objects, TypesInv, IInv, Shapes, TasksTyped
<1>1. CASE BeginIngressDeletion(i)
  <2>1. /\ UNCHANGED <<population, cluster, data, changes, api, events, store, refs, registry, certVars>>
        /\ store[i] # None /\ store[i].deleting /\ Begin(i, "unfinalize")
    BY <1>1 DEF BeginIngressDeletion, Deleted, world
  <2>2. RouteTyped'
    BY <1>1 DEF BeginIngressDeletion, TypesInv, RoutersTyped, RouteTyped
  <2> QED BY <1>0, <2>1, <2>2, TypesStay, TypesBegin DEF RoutersTyped
<1>2. CASE BeginIngress(i)
  <2>1. /\ UNCHANGED <<population, cluster, data, changes, api, events, store, refs, registry, route,
                       certVars>>
        /\ store[i] # None /\ ~store[i].deleting
        /\ \/ Begin(i, "finalize") \/ Begin(i, "tls")
           \/ BeginAndReturn(i, "no") \/ BeginAndReturn(i, "later")
    BY <1>2 DEF BeginIngress, Deleted, world
  <2>2. store[i].deleting \in BOOLEAN
    BY <1>0, <2>1 DEF TypesInv, IInv, ObjectsInv, ObjectInv, Known, Object
  <2>3. RoutersTyped'
    BY <2>1, TypesStay DEF RoutersTyped
  <2>4. CASE Begin(i, "finalize") \/ Begin(i, "tls")
    BY <1>0, <2>1, <2>2, <2>3, <2>4, TypesBegin
  <2>5. CASE BeginAndReturn(i, "no") \/ BeginAndReturn(i, "later")
    <3>1. task' = task /\ CopiesTyped'
      BY <1>0, <2>1, <2>5 DEF BeginAndReturn, TypesInv, CopiesTyped, Delays
    <3> QED BY <2>1, <2>3, <3>1, TypesStay DEF TypesInv
  <2> QED BY <2>1, <2>4, <2>5
<1>3. CASE FinalizeIngress(i)
  <2> DEFINE t == [task[i] EXCEPT !.at = "tls"]
  <2>1. /\ UNCHANGED <<population, data, changes, api, events, store, refs, registry, route, certVars>>
        /\ task' = [task EXCEPT ![i] = t] /\ due' = due /\ task[i].at = "finalize"
    BY <1>3 DEF FinalizeIngress, Finalize, Go
  <2>2. t.at = "tls" /\ t.copy = task[i].copy /\ t.got = task[i].got
    BY <1>0 DEF TaskFields
  <2> HIDE DEF t
  <2>3. TaskTyped(i, t)
    BY <1>0, <2>1, <2>2 DEF TaskTyped, Places, Ensured
  <2>4. ClusterTyped'
    BY <1>0, <1>3, <2>1, TypesPatch DEF FinalizeIngress
  <2> QED BY <1>0, <2>1, <2>3, <2>4, TypesStay, TypesGo DEF RoutersTyped
<1>4. CASE GetTls(i) \/ SkipTls(i) \/ AddCert(i) \/ AddCertKey(i) \/ CertAdded(i)
           \/ GetService(i) \/ SkipService(i)
  <2>1. /\ UNCHANGED <<population, cluster, data, changes, api, events, store, refs, registry, route>>
        /\ due' = due
    BY <1>4 DEF GetTls, SkipTls, AddCert, AddCertKey, CertAdded, GetService, SkipService, Go, world
  <2>2. /\ task[i].at # "idle" /\ task[i].at # "unfinalize"
    BY <1>4 DEF GetTls, SkipTls, AddCert, AddCertKey, CertAdded, GetService, SkipService
  <2>3. /\ task[i].copy \in Object /\ task[i].copy.spec \in Specs[i] /\ task[i].copy.deleting = FALSE
    BY <1>0, <2>2 DEF TaskTyped
  <2>4. CertsTypeOK'
    <3>1. task[i].at \in {"record", "publish"} => task[i].got \in Certificates
      BY <1>0, <2>3, SpecDependencies DEF TaskTyped
    <3>2. CASE AddCert(i)
      BY <3>1, <3>2 DEF AddCert, RecordCert, CertsTypeOK, TypesInv, RoutersTyped
    <3>3. CASE AddCertKey(i)
      BY <3>1, <3>3 DEF AddCertKey, Publish, CertsTypeOK, TypesInv, RoutersTyped
    <3>4. CASE ~AddCert(i) /\ ~AddCertKey(i)
      <4>1. UNCHANGED certVars
        BY <1>4, <3>4 DEF GetTls, SkipTls, CertAdded, GetService, SkipService
      <4> QED BY <4>1, TypesStay
    <3> QED BY <3>2, <3>3, <3>4
  <2>5. PICK t : task' = [task EXCEPT ![i] = t] /\ TaskTyped(i, t)
    <3> USE <1>0, <2>3 DEF TaskFields
    <3>1. CASE GetTls(i)
      <4> DEFINE s == task[i].copy.spec.tls
                 t == [task[i] EXCEPT !.at = "record", !.got = data[s], !.keys = Keys(data[s])]
      <4>1. /\ task' = [task EXCEPT ![i] = t] /\ Available(s)
            /\ t.at = "record" /\ t.copy = task[i].copy /\ t.got = data[s]
        BY <3>1 DEF GetTls
      <4>2. s \in Secrets
        BY <4>1, SpecDependencies DEF Available
      <4>3. data[s] \in CertsOf[s]
        BY <4>1, <4>2, AvailableData
      <4> HIDE DEF t
      <4>4. TaskTyped(i, t)
        BY <4>1, <4>2, <4>3 DEF TaskTyped, Places, Ensured
      <4> QED BY <4>1, <4>4
    <3>2. CASE SkipTls(i) \/ SkipService(i)
      <4> DEFINE at == IF task[i].at = "tls" THEN "service" ELSE "insert"
                 t == [task[i] EXCEPT !.at = at]
      <4>1. /\ task' = [task EXCEPT ![i] = t] /\ task[i].at \in {"tls", "service"}
            /\ t.at \in {"service", "insert"} /\ t.copy = task[i].copy /\ t.got = task[i].got
        BY <3>2 DEF SkipTls, SkipService, Go
      <4> HIDE DEF t, at
      <4>2. TaskTyped(i, t)
        BY <4>1 DEF TaskTyped, Places, Ensured
      <4> QED BY <4>1, <4>2
    <3>3. CASE AddCert(i) \/ AddCertKey(i)
      <4> DEFINE t == IF task[i].at = "record" THEN [task[i] EXCEPT !.at = "publish"]
                      ELSE [task[i] EXCEPT !.keys = Tail(@)]
      <4>1. /\ task' = [task EXCEPT ![i] = t] /\ task[i].at \in {"record", "publish"}
            /\ t.at = "publish" /\ t.copy = task[i].copy /\ t.got = task[i].got
        BY <3>3 DEF AddCert, AddCertKey, Go
      <4> HIDE DEF t
      <4>2. TaskTyped(i, t)
        BY <4>1 DEF TaskTyped, Places, Ensured
      <4> QED BY <4>1, <4>2
    <3>4. CASE CertAdded(i)
      <4> DEFINE t == [task[i] EXCEPT !.at = "service", !.got = None]
      <4>1. task' = [task EXCEPT ![i] = t] /\ t.at = "service" /\ t.copy = task[i].copy /\ t.got = None
        BY <3>4 DEF CertAdded
      <4> HIDE DEF t
      <4>2. TaskTyped(i, t)
        BY <4>1 DEF TaskTyped, Places, Ensured
      <4> QED BY <4>1, <4>2
    <3>5. CASE GetService(i)
      <4> DEFINE s == task[i].copy.spec.service
                 t == [task[i] EXCEPT !.at = "insert", !.got = data[s]]
      <4>1. /\ task' = [task EXCEPT ![i] = t] /\ Available(s)
            /\ t.at = "insert" /\ t.copy = task[i].copy /\ t.got = data[s]
        BY <3>5 DEF GetService
      <4>2. s \in Services
        BY <4>1, SpecDependencies DEF Available
      <4>3. data[s] \in Versions
        BY <4>1, <4>2, AvailableData
      <4> HIDE DEF t
      <4>4. TaskTyped(i, t)
        BY <4>1, <4>3 DEF TaskTyped, Places, Ensured
      <4> QED BY <4>1, <4>4
    <3> QED BY <1>4, <3>1, <3>2, <3>3, <3>4, <3>5
  <2> QED BY <1>0, <2>1, <2>4, <2>5, TypesStay, TypesGo DEF RoutersTyped
<1>5. CASE InsertIngress(i)
  <2>1. /\ UNCHANGED <<population, cluster, data, changes, api, events, store, registry, certVars>>
        /\ Return(i, "later") /\ task[i].at = "insert"
    BY <1>5 DEF InsertIngress, IngressResync, world
  <2>2. task[i].got \in Versions \cup {None}
    BY <1>0, <2>1 DEF TaskTyped
  <2>3. RouteTyped'
    BY <1>5, <2>2 DEF InsertIngress, TypesInv, RoutersTyped, RouteTyped
  <2>4. RefsTyped'
    <3>1. task[i].copy.spec.service \in Services \cup {None}
      BY <1>0, <2>1, SpecDependencies DEF TaskTyped
    <3>2. \A d \in Dependencies : refs'[d] = refs[d] \/ (d = task[i].copy.spec.service /\ refs'[d] = i)
      <4>1. refs' = [d \in Dependencies |->
                        IF task[i].got # None /\ d = task[i].copy.spec.service THEN i ELSE refs[d]]
        BY <1>5 DEF InsertIngress
      <4>2. ASSUME NEW d \in Dependencies
            PROVE  refs'[d] = IF task[i].got # None /\ d = task[i].copy.spec.service
                              THEN i ELSE refs[d]
        BY <4>1
      <4> QED BY <4>2
    <3>3. \A d \in ModuleSecrets \cup Secrets : d # task[i].copy.spec.service
      BY <3>1, KubeAssumption DEF Dependencies
    <3> QED BY <3>2, <3>3 DEF TypesInv, RoutersTyped, RefsTyped, Dependencies
  <2>5. "later" \in Delays
    BY DEF Delays
  <2> QED BY <1>0, <2>1, <2>3, <2>4, <2>5, TypesStay, TypesReturn DEF RoutersTyped
<1> QED BY <1>1, <1>2, <1>3, <1>4, <1>5 DEF IngressStep

LEMMA TypesPatches ==
    ASSUME TypesInv, IInv', NEW p \in Objects, Unfinalize(p) \/ Fail(p)
    PROVE  TypesInv'
<1>1. /\ UNCHANGED <<population, data, changes, api, events, store, refs, registry, route, certVars>>
      /\ \E delay \in Delays : Return(p, delay)
  BY DEF Unfinalize, Fail, Retry, Delays, world
<1>2. ClusterTyped'
  <2>1. CASE Unfinalize(p)
    BY <1>1, <2>1, TypesPatch
  <2>2. CASE Fail(p)
    BY <1>1, <2>2, TypesStay DEF Fail, world
  <2> QED BY <2>1, <2>2
<1> QED BY <1>1, <1>2, TypesStay, TypesReturn DEF RoutersTyped

LEMMA TypesStep == TypesInv /\ [Next]_vars => TypesInv'
<1> SUFFICES ASSUME TypesInv, [Next]_vars PROVE TypesInv'
  OBVIOUS
<1>1. IInv'
  BY IInvStep DEF TypesInv
<1>2. CASE UNCHANGED vars
  BY <1>1, <1>2, TypesStay DEF vars, world, process, TypesInv, RoutersTyped
<1>3. CASE \E o \in Objects : Observe(o) \/ Run(o)
  <2>1. PICK o \in Objects : Observe(o) \/ Run(o)
    BY <1>3
  <2> QED BY <1>1, <2>1, TypesWatch, TypesPatches, TypesModule, TypesIngress DEF Run
<1> QED BY <1>1, <1>2, <1>3, TypesOutside, TypesWorld, TypesWatch DEF Next

LEMMA TypesAlways == Spec => []TypesInv
BY TypesInit, TypesStep, PTL DEF Spec

\* KubeTypeOK: what the API server, the stores, the timers, the tasks and the
\* routers hold is of the kind the provider puts there; in particular a task that
\* is past a deletion is about a deleted object, and a module is registered under
\* the value of global that its specification has.
THEOREM KubeTypes == Spec => []KubeTypeOK
BY TypesAlways, TypesSuffice, PTL

-----------------------------------------------------------------------------
(* NotSleptThrough.                                                        *)

\* The watch of d would wake m, and has nothing to tell.
Alert(m, d) == d # None /\ refs[d] = m /\ d \notin events

\* The content that a task read from its secret is still the present one, or
\* somebody has to tell; and so is what a module is registered with that waits
\* for its timer.  A task works on the store's copy, or the store has moved on
\* and the module is due again.
ReadIsPresent(m) ==
    /\ task[m].at = "upsert" /\ due[m] # "now"
    /\ Alert(m, task[m].copy.spec.secret_ref)
    => task[m].got = data[task[m].copy.spec.secret_ref]

RegisteredIsPresent(m) ==
    /\ task[m].at = "idle" /\ due[m] = "later" /\ store[m] # None
    /\ Alert(m, store[m].spec.secret_ref)
    => registry[m][store[m].spec.global]
           = [spec |-> store[m].spec, got |-> data[store[m].spec.secret_ref]]

CopyIsPresent(m) ==
    task[m].at # "idle" /\ due[m] # "now" /\ store[m] # None
        => store[m].spec = task[m].copy.spec

WakeInv(m) == ReadIsPresent(m) /\ RegisteredIsPresent(m) /\ CopyIsPresent(m)

WakesInv == \A m \in ModuleObjects : WakeInv(m)

\* The secrets that the copies of a module refer to.
LEMMA ModuleSecretsKnown ==
    ASSUME TypesInv, NEW m \in ModuleObjects
    PROVE  /\ m \in Objects /\ m \notin Ingresses /\ m # None
           /\ store[m] # None => store[m].spec.secret_ref \in ModuleSecrets \cup {None}
           /\ task[m].at # "idle" => task[m].copy.spec.secret_ref \in ModuleSecrets \cup {None}
           /\ ModuleSecrets \subseteq Dependencies /\ None \notin Dependencies
<1>1. m \in Objects /\ m \notin Ingresses /\ m # None
  BY KubeAssumption DEF Objects
<1>2. \A spec \in Specs[m] : spec \in ModuleSpec
  BY KubeAssumption
<1>3. store[m] # None => store[m].spec \in Specs[m]
  BY <1>1 DEF TypesInv, IInv, ObjectsInv, ObjectInv, Known
<1>4. task[m].at # "idle" => task[m].copy.spec \in Specs[m]
  BY <1>1 DEF TypesInv, TasksTyped, TaskTyped
<1>5. ModuleSecrets \subseteq Dependencies /\ None \notin Dependencies
  BY KubeAssumption DEF Dependencies
<1> QED BY <1>1, <1>2, <1>3, <1>4, <1>5 DEF ModuleSpec

\* A module that is due has nothing to sleep through.
LEMMA DueIsAwake ==
    ASSUME NEW m, due'[m] = "now"
    PROVE  WakeInv(m)'
BY DEF WakeInv, ReadIsPresent, RegisteredIsPresent, CopyIsPresent

LEMMA RestingIsAwake ==
    ASSUME NEW m, task'[m].at = "idle", due'[m] # "later"
    PROVE  WakeInv(m)'
BY DEF WakeInv, ReadIsPresent, RegisteredIsPresent, CopyIsPresent

\* A step of others, that may only give the watch something to tell, or take
\* the object out of the store.
LEMMA WakeStays ==
    ASSUME TypesInv, NEW m \in ModuleObjects, WakeInv(m),
           task'[m] = task[m], due'[m] = due[m], registry'[m] = registry[m],
           store'[m] = store[m] \/ store'[m] = None,
           \A d \in Dependencies : Alert(m, d)' => Alert(m, d) /\ data'[d] = data[d]
    PROVE  WakeInv(m)'
<1>1. /\ task[m].at # "idle" => task[m].copy.spec.secret_ref \in ModuleSecrets \cup {None}
      /\ store[m] # None => store[m].spec.secret_ref \in ModuleSecrets \cup {None}
      /\ ModuleSecrets \subseteq Dependencies
  BY ModuleSecretsKnown
<1>2. ~Alert(m, None)'
  BY DEF Alert
<1>3. ReadIsPresent(m)'
  <2> DEFINE d == task[m].copy.spec.secret_ref
  <2>1. CASE task[m].at = "upsert" /\ d \in Dependencies
    <3>1. ReadIsPresent(m) /\ (Alert(m, d)' => Alert(m, d) /\ data'[d] = data[d])
      BY <2>1 DEF WakeInv
    <3> QED BY <3>1 DEF ReadIsPresent, Alert
  <2>2. CASE task[m].at = "upsert" /\ d = None
    BY <2>2 DEF ReadIsPresent, Alert
  <2>3. CASE task[m].at # "upsert"
    BY <2>3 DEF ReadIsPresent
  <2> QED BY <1>1, <2>1, <2>2, <2>3
<1>4. RegisteredIsPresent(m)'
  <2> DEFINE d == store[m].spec.secret_ref
  <2>1. CASE store'[m] # None /\ d \in Dependencies
    <3>1. /\ RegisteredIsPresent(m) /\ store'[m] = store[m]
          /\ Alert(m, d)' => Alert(m, d) /\ data'[d] = data[d]
      BY <2>1 DEF WakeInv
    <3> QED BY <3>1 DEF RegisteredIsPresent, Alert
  <2>2. CASE store'[m] # None /\ d = None
    BY <2>2 DEF RegisteredIsPresent, Alert
  <2>3. CASE store'[m] = None
    BY <2>3 DEF RegisteredIsPresent
  <2> QED BY <1>1, <2>1, <2>2, <2>3
<1>5. CopyIsPresent(m)'
  BY DEF WakeInv, CopyIsPresent
<1> QED BY <1>3, <1>4, <1>5 DEF WakeInv

LEMMA WakesOutside ==
    ASSUME TypesInv, WakesInv,
           \/ \E o \in Objects : \E spec \in SpecsOf(o) : Create(o, spec) \/ Update(o, spec)
           \/ \E o \in Objects : Delete(o)
           \/ \E d \in Dependencies : \E value \in Data(d) \cup {None} : ChangeData(d, value)
           \/ Outage \/ Recover
    PROVE  WakesInv'
<1>1. UNCHANGED <<store, due, task, refs, registry>>
  BY DEF Create, Update, Delete, ChangeData, Outage, Recover, Outside, process
<1>2. \A d \in Dependencies : d \notin events' => d \notin events /\ data'[d] = data[d]
  BY DEF Create, Update, Delete, ChangeData, Outage, Recover, process, TypesInv, IInv, Shapes
<1>3. ASSUME NEW m \in ModuleObjects
      PROVE  WakeInv(m)'
  <2>1. \A d \in Dependencies : Alert(m, d)' => Alert(m, d) /\ data'[d] = data[d]
    BY <1>1, <1>2 DEF Alert
  <2>2. WakeInv(m)
    BY DEF WakesInv
  <2> QED BY <1>1, <2>1, <2>2, WakeStays
<1> QED BY <1>3 DEF WakesInv

LEMMA WakesNotify ==
    ASSUME TypesInv, WakesInv, NEW e \in Dependencies, Notify(e)
    PROVE  WakesInv'
<1>1. UNCHANGED <<store, task, refs, registry, data>>
  BY DEF Notify, world
<1>2. /\ events' = events \ {e}
      /\ due' = IF refs[e] = None THEN due ELSE [due EXCEPT ![refs[e]] = "now"]
  BY DEF Notify
<1>3. ASSUME NEW m \in ModuleObjects
      PROVE  WakeInv(m)'
  <2>0. m \in Objects /\ m # None /\ DOMAIN due = Objects /\ WakeInv(m)
    BY ModuleSecretsKnown DEF TypesInv, IInv, Shapes, WakesInv
  <2>1. CASE refs[e] = m
    <3>1. due'[m] = "now"
      BY <1>2, <2>0, <2>1
    <3> QED BY <3>1, DueIsAwake
  <2>2. CASE refs[e] # m
    <3>1. due'[m] = due[m]
      BY <1>2, <2>0, <2>2
    <3>2. \A d \in Dependencies : Alert(m, d)' => Alert(m, d) /\ data'[d] = data[d]
      BY <1>1, <1>2, <2>2 DEF Alert
    <3> QED BY <1>1, <2>0, <3>1, <3>2, WakeStays
  <2> QED BY <2>1, <2>2
<1> QED BY <1>3 DEF WakesInv

\* A step that is about p leaves the modules besides p alone, but that it may
\* take a secret's watch away from them.
LEMMA WakesOthers ==
    ASSUME TypesInv, WakesInv, NEW p \in Objects, p \in ModuleObjects => WakeInv(p)',
           UNCHANGED <<data, events>>,
           \A o \in Objects \ {p} : task'[o] = task[o] /\ due'[o] = due[o] /\ store'[o] = store[o],
           \A m \in ModuleObjects \ {p} : registry'[m] = registry[m],
           \A d \in Dependencies : refs'[d] \in {refs[d], p, None}
    PROVE  WakesInv'
<1>1. ASSUME NEW m \in ModuleObjects, m # p
      PROVE  WakeInv(m)'
  <2>1. m \in Objects /\ m # None /\ WakeInv(m)
    BY ModuleSecretsKnown DEF WakesInv
  <2>2. \A d \in Dependencies : Alert(m, d)' => Alert(m, d) /\ data'[d] = data[d]
    BY <1>1, <2>1 DEF Alert
  <2> QED BY <1>1, <2>1, <2>2, WakeStays
<1> QED BY <1>1 DEF WakesInv

LEMMA WakesStepsOfAll ==
    ASSUME TypesInv, WakesInv, NEW p \in Objects,
           Observe(p) \/ Expire(p) \/ TakeNothing(p) \/ Unfinalize(p) \/ Fail(p)
    PROVE  WakesInv'
<1>0. /\ DOMAIN store = Objects /\ DOMAIN due = Objects /\ DOMAIN task = Objects
  BY DEF TypesInv, IInv, Shapes
<1>1. UNCHANGED <<data, events, refs, registry>>
  BY DEF Observe, Expire, TakeNothing, Unfinalize, Fail, world
<1>2. \A o \in Objects \ {p} : task'[o] = task[o] /\ due'[o] = due[o] /\ store'[o] = store[o]
  BY <1>0 DEF Observe, Expire, TakeNothing, BeginAndReturn, Unfinalize, Fail, Return, Requeue
<1>3. ASSUME p \in ModuleObjects
      PROVE  WakeInv(p)'
  <2>0. WakeInv(p)
    BY <1>3 DEF WakesInv
  <2>1. CASE Expire(p) \/ (Observe(p) /\ cluster[p] # None)
    <3>1. due'[p] = "now"
      BY <1>0, <2>1 DEF Expire, Observe
    <3> QED BY <3>1, DueIsAwake
  <2>2. CASE Observe(p) /\ cluster[p] = None
    <3>1. due'[p] = due[p] /\ task'[p] = task[p] /\ store'[p] = None
      BY <1>0, <2>2 DEF Observe
    <3>2. \A d \in Dependencies : Alert(p, d)' => Alert(p, d) /\ data'[d] = data[d]
      BY <1>1 DEF Alert
    <3> QED BY <1>1, <1>3, <2>0, <3>1, <3>2, WakeStays
  <2>3. CASE TakeNothing(p)
    <3>1. due'[p] = "no" /\ task'[p] = task[p] /\ task[p].at = "idle"
      BY <1>0, <2>3 DEF TakeNothing, Take, BeginAndReturn
    <3> QED BY <3>1, RestingIsAwake
  <2>4. CASE Unfinalize(p) \/ Fail(p)
    <3>1. due'[p] \in {"no", "soon", "now"} /\ task'[p] = Idle
      BY <1>0, <1>3, <2>4 DEF Unfinalize, Fail, Return, Requeue, Retry
    <3>2. Idle.at = "idle"
      BY DEF Idle
    <3>3. task'[p].at = "idle" /\ due'[p] # "later"
      BY <3>1, <3>2
    <3> QED BY <3>3, RestingIsAwake
  <2> QED BY <2>1, <2>2, <2>3, <2>4
<1> QED BY <1>1, <1>2, <1>3, WakesOthers

LEMMA WakesIngress ==
    ASSUME TypesInv, WakesInv, NEW i \in Ingresses, IngressStep(i)
    PROVE  WakesInv'
<1>0. /\ i \in Objects /\ i \notin ModuleObjects
      /\ DOMAIN store = Objects /\ DOMAIN due = Objects /\ DOMAIN task = Objects
      /\ DOMAIN task[i] = TaskFields
  BY KubeAssumption DEF Objects, TypesInv, IInv, Shapes
<1>1. UNCHANGED <<data, events, store, registry>>
  BY DEF IngressStep, BeginIngressDeletion, BeginIngress, FinalizeIngress, Finalize, GetTls, SkipTls,
         AddCert, AddCertKey, CertAdded, GetService, SkipService, InsertIngress, world
<1>2. \A o \in Objects \ {i} : task'[o] = task[o] /\ due'[o] = due[o]
  <2>1. CASE BeginIngressDeletion(i) \/ BeginIngress(i)
    BY <1>0, <2>1 DEF BeginIngressDeletion, BeginIngress, Begin, BeginAndReturn
  <2>2. CASE FinalizeIngress(i) \/ SkipTls(i) \/ AddCert(i) \/ SkipService(i)
    BY <1>0, <2>2 DEF FinalizeIngress, SkipTls, AddCert, SkipService, Go
  <2>3. CASE GetTls(i) \/ AddCertKey(i) \/ CertAdded(i) \/ GetService(i)
    BY <1>0, <2>3 DEF GetTls, AddCertKey, CertAdded, GetService
  <2>4. CASE InsertIngress(i)
    BY <1>0, <2>4 DEF InsertIngress, Return, Requeue
  <2> QED BY <2>1, <2>2, <2>3, <2>4 DEF IngressStep
<1>3. \A d \in Dependencies : refs'[d] \in {refs[d], i, None}
  <2>1. CASE InsertIngress(i)
    <3>1. refs' = [d \in Dependencies |->
                      IF task[i].got # None /\ d = task[i].copy.spec.service THEN i ELSE refs[d]]
      BY <2>1 DEF InsertIngress
    <3>2. ASSUME NEW d \in Dependencies
          PROVE  refs'[d] = IF task[i].got # None /\ d = task[i].copy.spec.service
                            THEN i ELSE refs[d]
      BY <3>1
    <3> QED BY <3>2
  <2>2. CASE ~InsertIngress(i)
    <3>1. refs' = refs
      BY <2>2 DEF IngressStep, BeginIngressDeletion, BeginIngress, FinalizeIngress, GetTls, SkipTls,
                  AddCert, AddCertKey, CertAdded, GetService, SkipService
    <3> QED BY <3>1
  <2> QED BY <2>1, <2>2
<1> QED BY <1>0, <1>1, <1>2, <1>3, WakesOthers

LEMMA WakesModule ==
    ASSUME TypesInv, WakesInv, NEW m \in ModuleObjects, ModuleStep(m)
    PROVE  WakesInv'
<1>0. /\ m \in Objects /\ m # None
      /\ DOMAIN store = Objects /\ DOMAIN due = Objects /\ DOMAIN task = Objects
      /\ DOMAIN task[m] = TaskFields
      /\ DOMAIN registry = ModuleObjects /\ DOMAIN registry[m] = BOOLEAN
      /\ WakeInv(m)
  BY ModuleSecretsKnown DEF TypesInv, IInv, Shapes, WakesInv
<1>1. UNCHANGED <<data, events, store>>
  BY DEF ModuleStep, BeginModuleDeletion, BeginModule, FinalizeModule, Finalize, GetSecret,
         GetSecretFails, UpsertModule, world
<1>2. \A o \in Objects \ {m} : task'[o] = task[o] /\ due'[o] = due[o]
  BY <1>0 DEF ModuleStep, BeginModuleDeletion, BeginModule, Begin, FinalizeModule, Go, GetSecret,
              GetSecretFails, UpsertModule, Return, Requeue
<1>3. \A o \in ModuleObjects \ {m} : registry'[o] = registry[o]
  BY <1>0 DEF ModuleStep, BeginModuleDeletion, BeginModule, FinalizeModule, Finalize, GetSecret,
              GetSecretFails, UpsertModule
<1>4. \A d \in Dependencies : refs'[d] \in {refs[d], m, None}
  BY DEF ModuleStep, BeginModuleDeletion, BeginModule, FinalizeModule, Register, GetSecret,
         GetSecretFails, UpsertModule
<1>5. WakeInv(m)'
  <2>1. CASE BeginModuleDeletion(m) \/ BeginModule(m)
    <3>1. PICK at \in {"unfinalize", "finalize", "get", "upsert"} :
             /\ task' = [task EXCEPT ![m] = [Idle EXCEPT !.at = at, !.copy = store[m]]]
             /\ at = "upsert" => store[m].spec.secret_ref = None
      BY <2>1 DEF BeginModuleDeletion, BeginModule, Begin, AfterFinalizer
    <3> DEFINE t == [Idle EXCEPT !.at = at, !.copy = store[m]]
    <3>2. task'[m] = t /\ t.at = at /\ t.copy = store[m]
      BY <1>0, <3>1 DEF Idle
    <3> HIDE DEF t
    <3>3. ~Alert(m, None)'
      BY DEF Alert
    <3> QED BY <1>1, <3>1, <3>2, <3>3
           DEF WakeInv, ReadIsPresent, RegisteredIsPresent, CopyIsPresent, Alert
  <2>2. CASE FinalizeModule(m)
    <3> DEFINE at == AfterFinalizer(task[m].copy.spec)
               t == [task[m] EXCEPT !.at = at]
    <3>1. task[m].at = "finalize" /\ task'[m] = t /\ due' = due
      BY <1>0, <2>2 DEF FinalizeModule, Finalize, Go
    <3>2. t.at = at /\ t.copy = task[m].copy
      BY <1>0 DEF TaskFields
    <3>3. at \in {"get", "upsert"} /\ (at = "upsert" => task[m].copy.spec.secret_ref = None)
      BY DEF AfterFinalizer
    <3> HIDE DEF t, at
    <3>4. ~Alert(m, None)'
      BY DEF Alert
    <3> QED BY <1>0, <1>1, <3>1, <3>2, <3>3, <3>4
           DEF WakeInv, ReadIsPresent, RegisteredIsPresent, CopyIsPresent, Alert
  <2>3. CASE GetSecret(m)
    <3> DEFINE t == [task[m] EXCEPT !.at = "upsert", !.got = data[task[m].copy.spec.secret_ref]]
    <3>1. task[m].at = "get" /\ task'[m] = t /\ due' = due
      BY <1>0, <2>3 DEF GetSecret
    <3>2. /\ t.at = "upsert" /\ t.copy = task[m].copy
          /\ t.got = data[task[m].copy.spec.secret_ref]
      BY <1>0 DEF TaskFields
    <3> HIDE DEF t
    <3> QED BY <1>0, <1>1, <3>1, <3>2
           DEF WakeInv, ReadIsPresent, RegisteredIsPresent, CopyIsPresent, Alert
  <2>4. CASE GetSecretFails(m)
    <3>1. due'[m] \in {"soon", "now"} /\ task'[m] = Idle
      BY <1>0, <2>4 DEF GetSecretFails, Return, Requeue
    <3>2. Idle.at = "idle"
      BY DEF Idle
    <3>3. task'[m].at = "idle" /\ due'[m] # "later"
      BY <3>1, <3>2
    <3> QED BY <3>3, RestingIsAwake
  <2>5. CASE UpsertModule(m)
    <3> DEFINE spec == task[m].copy.spec
               new == [spec |-> spec, got |-> task[m].got]
    <3>1. /\ task[m].at = "upsert" /\ task'[m] = Idle /\ refs' = refs
          /\ due'[m] = IF due[m] = "now" THEN "now" ELSE "later"
          /\ registry' = [registry EXCEPT ![m][spec.global] = new]
      BY <1>0, <2>5 DEF UpsertModule, Return, Requeue, ModuleResync
    <3>2. Idle.at = "idle"
      BY DEF Idle
    <3>3. CASE due[m] = "now"
      BY <3>1, <3>3, DueIsAwake
    <3>4. CASE due[m] # "now" /\ store[m] = None
      BY <1>1, <3>1, <3>2, <3>4
           DEF WakeInv, ReadIsPresent, RegisteredIsPresent, CopyIsPresent, Alert
    <3>5. CASE due[m] # "now" /\ store[m] # None
      <4>1. store'[m] = store[m] /\ store[m].spec = spec
        BY <1>0, <1>1, <3>1, <3>5
           DEF WakeInv, ReadIsPresent, RegisteredIsPresent, CopyIsPresent, Alert
      <4>2. spec.global \in BOOLEAN
        <5>1. spec \in Specs[m]
          BY <1>0, <3>1 DEF TypesInv, TasksTyped, TaskTyped
        <5> QED BY <5>1, KubeAssumption DEF ModuleSpec
      <4>3. registry'[m][spec.global] = new
        BY <1>0, <3>1, <4>2
      <4> DEFINE d == spec.secret_ref
      <4>4. d # None /\ refs[d] = m /\ d \notin events => task[m].got = data[d]
        BY <1>0, <3>1, <3>5 DEF WakeInv, ReadIsPresent, Alert
      <4> HIDE DEF new
      <4>5. d # None /\ refs'[d] = m /\ d \notin events'
            => new = [spec |-> spec, got |-> data'[d]]
        BY <1>1, <3>1, <4>4 DEF new
      <4>6. RegisteredIsPresent(m)'
        BY <3>1, <4>1, <4>3, <4>5 DEF RegisteredIsPresent, Alert
      <4> HIDE DEF spec, Idle
      <4> QED BY <3>1, <3>2, <4>6 DEF WakeInv, ReadIsPresent, CopyIsPresent
    <3> QED BY <3>3, <3>4, <3>5
  <2> QED BY <2>1, <2>2, <2>3, <2>4, <2>5 DEF ModuleStep
<1> QED BY <1>0, <1>1, <1>2, <1>3, <1>4, <1>5, WakesOthers

LEMMA WakesStep == TypesInv /\ WakesInv /\ [Next]_vars => WakesInv'
<1> SUFFICES ASSUME TypesInv, WakesInv, [Next]_vars PROVE WakesInv'
  OBVIOUS
<1>1. CASE UNCHANGED vars
  BY <1>1 DEF vars, world, process, WakesInv, WakeInv, ReadIsPresent, RegisteredIsPresent,
              CopyIsPresent, Alert
<1>2. CASE \E o \in Objects : Observe(o) \/ Run(o)
  <2>1. PICK o \in Objects : Observe(o) \/ Run(o)
    BY <1>2
  <2> QED BY <2>1, WakesStepsOfAll, WakesModule, WakesIngress DEF Run
<1> QED BY <1>1, <1>2, WakesOutside, WakesNotify DEF Next

\* NotSleptThrough (fetch_and_update_module_secret): a module that waits for its
\* timer, whose secret's watch would wake it and has nothing to tell, is
\* registered with the secret as it is now; however often the secret, the module
\* and the other modules that refer to the secret change while it is being read.
THEOREM NothingSleptThrough == Spec => []NotSleptThrough
<1>1. Init => WakesInv
  <2>1. \A m \in ModuleObjects : m \in Objects
    BY DEF Objects
  <2>2. Idle.at = "idle"
    BY DEF Idle
  <2> HIDE DEF Idle
  <2> QED BY <2>1, <2>2 DEF Init, WakesInv, WakeInv, ReadIsPresent, RegisteredIsPresent,
                         CopyIsPresent
<1>2. WakesInv => NotSleptThrough
  BY DEF WakesInv, WakeInv, RegisteredIsPresent, NotSleptThrough, Alert
<1> QED BY <1>1, <1>2, TypesAlways, WakesStep, PTL DEF Spec

-----------------------------------------------------------------------------
(* HandshakesCovered.                                                      *)

\* The names that a certificate is entered under.
Named(c) == {n \in DomainNames : In(n, Keys(c))}

\* The registry holds for a secret what the secret may hold, and under a name
\* only a certificate that is entered under it; so will the tasks.
RecordsInv == \A s \in Secrets : certs[s] # NoCert => certs[s] \in CertsOf[s]

NamesInv ==
    \A n \in DomainNames : certs_domains[n] # NoCert =>
        /\ In(n, Keys(certs_domains[n]))
        /\ \E s \in Secrets : certs_domains[n] \in CertsOf[s]

KeysInv ==
    \A i \in Ingresses : task[i].at \in {"record", "publish"} =>
        task[i].keys \in Seq(Named(task[i].got))

CertsInv == RecordsInv /\ NamesInv /\ KeysInv

LEMMA KeysAreNames ==
    ASSUME NEW c \in Certificates
    PROVE  /\ Keys(c) \in Seq(Named(c))
           /\ \A x : In(x, Keys(c)) <=> In(x, Domains[c]) \/ In(x, Wildcards[c])
<1> DEFINE d == Domains[c]
           w == Wildcards[c]
<1>1. d \in Seq(DomainNames) /\ w \in Seq(DomainNames)
  BY CertsAssumption
<1> HIDE DEF d, w
<1>2. /\ d \o w \in Seq(DomainNames) /\ Len(d \o w) = Len(d) + Len(w)
      /\ \A k \in 1..(Len(d) + Len(w)) :
            (d \o w)[k] = IF k <= Len(d) THEN d[k] ELSE w[k - Len(d)]
  BY <1>1
<1>3. Len(d) \in Nat /\ Len(w) \in Nat /\ DOMAIN d = 1..Len(d) /\ DOMAIN w = 1..Len(w)
  BY <1>1
<1>4. DOMAIN (d \o w) = 1..(Len(d) + Len(w))
  BY <1>2
<1>5. ASSUME NEW x PROVE In(x, d \o w) <=> In(x, d) \/ In(x, w)
  <2>1. ASSUME In(x, d) PROVE In(x, d \o w)
    BY <1>2, <1>3, <1>4, <2>1 DEF In
  <2>2. ASSUME In(x, w) PROVE In(x, d \o w)
    <3>1. PICK k \in 1..Len(w) : w[k] = x
      BY <1>3, <2>2 DEF In
    <3>2. Len(d) + k \in 1..(Len(d) + Len(w)) /\ (d \o w)[Len(d) + k] = x
      BY <1>2, <1>3, <3>1
    <3> QED BY <1>4, <3>2 DEF In
  <2>3. ASSUME In(x, d \o w) PROVE In(x, d) \/ In(x, w)
    <3>1. PICK k \in 1..(Len(d) + Len(w)) : (d \o w)[k] = x
      BY <1>4, <2>3 DEF In
    <3>2. CASE k <= Len(d)
      BY <1>2, <1>3, <3>1, <3>2 DEF In
    <3>3. CASE ~(k <= Len(d))
      <4>1. k - Len(d) \in DOMAIN w /\ w[k - Len(d)] = x
        BY <1>2, <1>3, <3>1, <3>3
      <4> QED BY <4>1 DEF In
    <3> QED BY <3>2, <3>3
  <2> QED BY <2>1, <2>2, <2>3
<1>6. \A k \in DOMAIN (d \o w) : (d \o w)[k] \in {n \in DomainNames : In(n, d \o w)}
  BY <1>2 DEF In
<1>7. d \o w \in Seq({n \in DomainNames : In(n, d \o w)})
  <2> DEFINE u == d \o w
             S == {n \in DomainNames : In(n, u)}
  <2>1. u \in Seq(DomainNames) /\ \A k \in DOMAIN u : u[k] \in S
    BY <1>2, <1>6
  <2> HIDE DEF u, S
  <2>2. u \in Seq(S)
    BY <2>1
  <2> QED BY <2>2 DEF u, S
<1> QED BY <1>5, <1>7 DEF Keys, Named, d, w

\* Some suffix among the wildcards is the longest.
LEMMA SomeEndIsLongest ==
    ASSUME NEW c \in Certificates, NEW n \in DomainNames,
           NEW E, E = {w \in Suffixes[n] : In(w, Wildcards[c])}, E # {}
    PROVE  \E w \in E : \A v \in E : NameLen[v] <= NameLen[w]
<1> DEFINE wild == Wildcards[c]
           P == {k \in DOMAIN wild : wild[k] \in Suffixes[n]}
           Longer(k) == {j \in P : NameLen[wild[j]] > NameLen[wild[k]]}
           T == {Longer(k) : k \in P}
<1>1. wild \in Seq(DomainNames) /\ NameLen \in [DomainNames -> Nat]
  BY CertsAssumption
<1>2. IsFiniteSet(P)
  <2>1. DOMAIN wild = 1..Len(wild) /\ Len(wild) \in Nat
    BY <1>1
  <2>2. IsFiniteSet(DOMAIN wild)
    BY <2>1, FS_Interval
  <2> QED BY <2>2, FS_Subset
<1>3. \A k \in P : NameLen[wild[k]] \in Nat /\ wild[k] \in E
  BY <1>1 DEF In
<1>4. \A w \in E : \E k \in P : wild[k] = w
  BY DEF In
<1> HIDE DEF wild
<1>5. T \subseteq FiniteSubsetsOf(P) /\ T # {}
  <2>1. \A k \in P : Longer(k) \in SUBSET P /\ IsFiniteSet(Longer(k))
    <3>1. \A k : Longer(k) \in SUBSET P
      OBVIOUS
    <3> HIDE DEF P, Longer
    <3> QED BY <1>2, <3>1, FS_Subset
  <2>2. P # {}
    BY <1>4
  <2> HIDE DEF P, Longer
  <2> QED BY <2>1, <2>2 DEF FiniteSubsetsOf
<1>6. PICK best \in T : \A other \in T : <<other, best>> \notin StrictSubsetOrdering(P)
  <2>1. IsWellFoundedOn(StrictSubsetOrdering(P), FiniteSubsetsOf(P))
    BY FS_StrictSubsetOrderingWellFounded
  <2> HIDE DEF T, P
  <2> QED BY <1>5, <2>1, WFMin
<1>7. PICK k \in P : best = Longer(k)
  BY <1>6
<1>8. \A j \in P : NameLen[wild[j]] <= NameLen[wild[k]]
  <2> SUFFICES ASSUME NEW j \in P, NameLen[wild[j]] > NameLen[wild[k]] PROVE FALSE
    BY <1>3, <1>7
  <2>1. Longer(j) \subseteq Longer(k) /\ j \in Longer(k) /\ j \notin Longer(j)
    BY <1>3
  <2>2. <<Longer(j), Longer(k)>> \in StrictSubsetOrdering(P)
    BY <2>1 DEF StrictSubsetOrdering
  <2> QED BY <1>6, <1>7, <2>2
<1> QED BY <1>3, <1>4, <1>7, <1>8

\* A lookup that finds its own secret's certificates only.
LEMMA CoveredWhenAlone ==
    ASSUME CertsTypeOK, RecordsInv, NamesInv
    PROVE  HandshakesCovered
<1> SUFFICES ASSUME NEW s \in Secrets, NEW n \in DomainNames,
                    certs[s] # NoCert, Covers(certs[s], n), Alone(s, n),
                    \A d \in CertsOf[s] : In(n, Keys(d)) \/ In(Parent[n], Keys(d)) => Covers(d, n),
                    NEW c \in GetCert(n)
             PROVE  c # DefaultCert /\ Covers(c, n)
  BY DEF HandshakesCovered
<1>1. /\ \A t \in Secrets : CertsOf[t] \subseteq Certificates
      /\ DefaultCert \notin Certificates
  BY KubeAssumption, CertsAssumption
<1>2. \A d \in Certificates : \A x : In(x, Keys(d)) <=> In(x, Domains[d]) \/ In(x, Wildcards[d])
  BY KeysAreNames
<1>3. ASSUME NEW x \in {n, Parent[n]}, x \in DomainNames,
             certs_domains[x] # NoCert, c = certs_domains[x]
      PROVE  c # DefaultCert /\ Covers(c, n)
  <2>1. PICK t \in Secrets : c \in CertsOf[t] /\ In(x, Keys(c))
    BY <1>3 DEF NamesInv
  <2>2. t = s
    BY <2>1 DEF Alone
  <2> QED BY <1>1, <2>1, <2>2
<1>4. Parent[n] # NoCert => Parent[n] \in DomainNames /\ Parent[n] \in Suffixes[n]
  BY CertsAssumption
<1>5. ASSUME c \in Scan(n) PROVE c = certs[s]
  <2>1. certs[s] \in CertsOf[s] /\ certs[s] \in Certificates
    BY <1>1 DEF RecordsInv
  <2>2. ASSUME NEW t \in Secrets, t # s, certs[t] # NoCert
        PROVE  ~In(n, Domains[certs[t]]) /\ \A w \in Suffixes[n] : ~In(w, Wildcards[certs[t]])
    <3>1. certs[t] \in CertsOf[t] /\ certs[t] \in Certificates
      BY <1>1, <2>2 DEF RecordsInv
    <3> QED BY <1>2, <2>2, <3>1 DEF Alone
  <2> DEFINE bearers == {t \in Secrets : certs[t] # NoCert /\ In(n, Domains[certs[t]])}
             longest == {t \in Secrets : \E w \in Ends(t, n) : \A u \in Secrets :
                             \A v \in Ends(u, n) : NameLen[v] <= NameLen[w]}
  <2>3. bearers \subseteq {s}
    BY <2>2
  <2>4. \A t \in Secrets \ {s} : Ends(t, n) = {}
    BY <2>2 DEF Ends
  <2>5. longest \subseteq {s}
    BY <2>4
  <2>6. s \in bearers \/ s \in longest
    <3>1. CASE In(n, Domains[certs[s]])
      BY <3>1
    <3>2. CASE In(Parent[n], Wildcards[certs[s]])
      <4>1. Parent[n] # NoCert
        BY <2>1, <3>2, CertsAssumption DEF In
      <4>2. Parent[n] \in Ends(s, n)
        BY <1>4, <3>2, <4>1 DEF Ends
      <4>3. PICK w \in Ends(s, n) : \A v \in Ends(s, n) : NameLen[v] <= NameLen[w]
        BY <2>1, <4>2, SomeEndIsLongest DEF Ends
      <4>4. \A u \in Secrets : \A v \in Ends(u, n) : NameLen[v] <= NameLen[w]
        BY <2>4, <4>3
      <4> QED BY <4>3, <4>4
    <3> QED BY <3>1, <3>2 DEF Covers
  <2>7. Scan(n) = IF bearers # {} THEN {certs[t] : t \in bearers}
                  ELSE IF longest # {} THEN {certs[t] : t \in longest} ELSE {DefaultCert}
    BY DEF Scan
  <2> HIDE DEF bearers, longest
  <2> QED BY <1>5, <2>3, <2>5, <2>6, <2>7
<1>6. CASE certs_domains[n] # NoCert
  BY <1>3, <1>6 DEF GetCert
<1>7. CASE certs_domains[n] = NoCert /\ Parent[n] # NoCert /\ certs_domains[Parent[n]] # NoCert
  BY <1>3, <1>4, <1>7 DEF GetCert
<1>8. CASE c \in Scan(n)
  <2>1. certs[s] \in Certificates
    BY <1>1 DEF RecordsInv
  <2> QED BY <1>1, <1>5, <1>8, <2>1
<1> QED BY <1>6, <1>7, <1>8 DEF GetCert

LEMMA CertsStep == TypesInv /\ CertsInv /\ [Next]_vars => CertsInv'
<1> SUFFICES ASSUME TypesInv, CertsInv, [Next]_vars PROVE CertsInv'
  OBVIOUS
<1>0. /\ DOMAIN task = Objects /\ Ingresses \subseteq Objects
      /\ \A o \in Objects : DOMAIN task[o] = TaskFields
      /\ certs \in [Secrets -> Certificates \cup {NoCert}]
      /\ certs_domains \in [DomainNames -> Certificates \cup {NoCert}]
  BY DEF TypesInv, IInv, Shapes, RoutersTyped, CertsTypeOK, Objects
<1>1. ASSUME UNCHANGED certVars,
             \A i \in Ingresses : \/ task'[i] = task[i]
                                  \/ task'[i].at \notin {"record", "publish"}
      PROVE  CertsInv'
  <2>1. RecordsInv' /\ NamesInv'
    BY <1>1 DEF certVars, CertsInv, RecordsInv, NamesInv
  <2>2. KeysInv'
    BY <1>1 DEF CertsInv, KeysInv
  <2> QED BY <2>1, <2>2 DEF CertsInv
<1>2. CASE UNCHANGED vars
  BY <1>1, <1>2 DEF vars, process
<1>3. CASE \/ \E o \in Objects : \E spec \in SpecsOf(o) : Create(o, spec) \/ Update(o, spec)
           \/ \E o \in Objects : Delete(o)
           \/ \E d \in Dependencies : \E value \in Data(d) \cup {None} : ChangeData(d, value)
           \/ Outage \/ Recover
           \/ \E d \in Dependencies : Notify(d)
  <2>1. UNCHANGED <<task, certVars>>
    BY <1>3 DEF Create, Update, Delete, ChangeData, Outage, Recover, Outside, process, Notify
  <2> QED BY <1>1, <2>1
<1>4. ASSUME NEW o \in Objects,
             \/ Observe(o) \/ Expire(o) \/ TakeNothing(o) \/ Unfinalize(o) \/ Fail(o)
             \/ ModuleStep(o)
      PROVE  CertsInv'
  <2>1. UNCHANGED certVars
    BY <1>4 DEF Observe, Expire, TakeNothing, Unfinalize, Fail, ModuleStep, BeginModuleDeletion,
                BeginModule, FinalizeModule, Finalize, GetSecret, GetSecretFails, UpsertModule
  <2>2. task' = task \/ \E t : task' = [task EXCEPT ![o] = t] /\ t.at \notin {"record", "publish"}
    <3>1. CASE Observe(o) \/ Expire(o) \/ TakeNothing(o)
      BY <3>1 DEF Observe, Expire, TakeNothing, BeginAndReturn
    <3>2. CASE Unfinalize(o) \/ Fail(o) \/ GetSecretFails(o) \/ UpsertModule(o)
      BY <3>2 DEF Unfinalize, Fail, GetSecretFails, UpsertModule, Return, Idle
    <3>3. CASE BeginModuleDeletion(o) \/ BeginModule(o)
      <4>1. PICK at \in {"unfinalize", "finalize", "get", "upsert"} : Begin(o, at)
        BY <3>3 DEF BeginModuleDeletion, BeginModule, AfterFinalizer
      <4> DEFINE t == [Idle EXCEPT !.at = at, !.copy = store[o]]
      <4>2. task' = [task EXCEPT ![o] = t] /\ t.at = at
        BY <4>1 DEF Begin, Idle
      <4> HIDE DEF t
      <4> QED BY <4>2
    <3>4. CASE FinalizeModule(o) \/ GetSecret(o)
      <4> DEFINE at == IF FinalizeModule(o) THEN AfterFinalizer(task[o].copy.spec) ELSE "upsert"
                 t == IF FinalizeModule(o) THEN [task[o] EXCEPT !.at = at]
                      ELSE [task[o] EXCEPT !.at = "upsert",
                                           !.got = data[task[o].copy.spec.secret_ref]]
      <4>1. at \in {"get", "upsert"}
        BY DEF AfterFinalizer
      <4>2. t.at = at
        BY <1>0 DEF TaskFields
      <4>3. task' = [task EXCEPT ![o] = t]
        BY <3>4 DEF FinalizeModule, Go, GetSecret
      <4> HIDE DEF t, at
      <4> QED BY <4>1, <4>2, <4>3
    <3> QED BY <1>4, <3>1, <3>2, <3>3, <3>4 DEF ModuleStep
  <2> QED BY <1>0, <1>1, <2>1, <2>2
<1>5. ASSUME NEW i \in Ingresses, IngressStep(i)
      PROVE  CertsInv'
  <2>0. i \in Objects /\ TaskTyped(i, task[i]) /\ DOMAIN task[i] = TaskFields
    BY <1>0 DEF TypesInv, TasksTyped
  <2>1. ASSUME UNCHANGED certVars,
               NEW t, task' = [task EXCEPT ![i] = t], t.at \notin {"record", "publish"}
        PROVE  CertsInv'
    BY <1>0, <1>1, <2>1
  <2>2. CASE \/ BeginIngressDeletion(i) \/ BeginIngress(i) \/ InsertIngress(i)
             \/ FinalizeIngress(i) \/ SkipTls(i) \/ SkipService(i) \/ CertAdded(i) \/ GetService(i)
    <3>1. UNCHANGED certVars
      BY <2>2 DEF BeginIngressDeletion, BeginIngress, InsertIngress, FinalizeIngress, Finalize,
                  SkipTls, SkipService, CertAdded, GetService
    <3>2. CASE BeginIngressDeletion(i) \/ BeginIngress(i)
      <4>1. task' = task \/ \E at \in {"unfinalize", "finalize", "tls"} : Begin(i, at)
        BY <3>2 DEF BeginIngressDeletion, BeginIngress, BeginAndReturn
      <4>2. ASSUME NEW at \in {"unfinalize", "finalize", "tls"}, Begin(i, at)
            PROVE  CertsInv'
        <5> DEFINE t == [Idle EXCEPT !.at = at, !.copy = store[i]]
        <5>1. task' = [task EXCEPT ![i] = t] /\ t.at = at
          BY <4>2 DEF Begin, Idle
        <5> HIDE DEF t
        <5> QED BY <2>1, <3>1, <5>1
      <4> QED BY <1>1, <3>1, <4>1, <4>2
    <3>3. CASE InsertIngress(i)
      BY <2>1, <3>1, <3>3 DEF InsertIngress, Return, Idle
    <3>4. CASE FinalizeIngress(i) \/ SkipTls(i) \/ SkipService(i)
      <4> DEFINE at == IF FinalizeIngress(i) THEN "tls"
                       ELSE IF SkipTls(i) THEN "service" ELSE "insert"
                 t == [task[i] EXCEPT !.at = at]
      <4>1. task' = [task EXCEPT ![i] = t]
        BY <3>4 DEF FinalizeIngress, SkipTls, SkipService, Go
      <4>2. t.at = at
        BY <2>0 DEF TaskFields
      <4>3. at \notin {"record", "publish"}
        OBVIOUS
      <4> HIDE DEF t, at
      <4> QED BY <2>1, <3>1, <4>1, <4>2, <4>3
    <3>5. CASE CertAdded(i)
      <4> DEFINE t == [task[i] EXCEPT !.at = "service", !.got = None]
      <4>1. task' = [task EXCEPT ![i] = t] /\ t.at = "service"
        BY <2>0, <3>5 DEF CertAdded, TaskFields
      <4> HIDE DEF t
      <4> QED BY <2>1, <3>1, <4>1
    <3>6. CASE GetService(i)
      <4> DEFINE t == [task[i] EXCEPT !.at = "insert", !.got = data[task[i].copy.spec.service]]
      <4>1. task' = [task EXCEPT ![i] = t] /\ t.at = "insert"
        BY <2>0, <3>6 DEF GetService, TaskFields
      <4> HIDE DEF t
      <4> QED BY <2>1, <3>1, <4>1
    <3> QED BY <2>2, <3>2, <3>3, <3>4, <3>5, <3>6
  <2>3. ASSUME NEW t, task' = [task EXCEPT ![i] = t], t.keys \in Seq(Named(t.got))
        PROVE  KeysInv'
    BY <1>0, <2>3 DEF CertsInv, KeysInv
  <2>4. CASE GetTls(i)
    <3> DEFINE s == task[i].copy.spec.tls
               t == [task[i] EXCEPT !.at = "record", !.got = data[s], !.keys = Keys(data[s])]
    <3>1. task' = [task EXCEPT ![i] = t] /\ UNCHANGED certVars /\ Available(s) /\ task[i].at = "tls"
      BY <2>4 DEF GetTls
    <3>2. t.got = data[s] /\ t.keys = Keys(data[s])
      BY <2>0 DEF TaskFields
    <3>3. data[s] \in Certificates
      <4>1. s \in Secrets
        BY <2>0, <3>1, SpecDependencies DEF TaskTyped, Available
      <4> QED BY <3>1, <4>1, AvailableData, KubeAssumption
    <3> HIDE DEF t
    <3>4. t.keys \in Seq(Named(t.got))
      BY <3>2, <3>3, KeysAreNames
    <3> QED BY <2>3, <3>1, <3>4 DEF certVars, CertsInv, RecordsInv, NamesInv
  <2>5. CASE AddCert(i)
    <3> DEFINE s == task[i].copy.spec.tls
               t == [task[i] EXCEPT !.at = "publish"]
    <3>1. /\ task' = [task EXCEPT ![i] = t] /\ task[i].at = "record"
          /\ certs' = [certs EXCEPT ![s] = task[i].got] /\ certs_domains' = certs_domains
      BY <2>5 DEF AddCert, RecordCert, Go
    <3>2. t.got = task[i].got /\ t.keys = task[i].keys
      BY <2>0 DEF TaskFields
    <3> HIDE DEF t
    <3>3. KeysInv'
      BY <2>3, <3>1, <3>2 DEF CertsInv, KeysInv
    <3>4. s \in Secrets /\ task[i].got \in CertsOf[s]
      BY <2>0, <3>1 DEF TaskTyped
    <3>5. RecordsInv'
      BY <1>0, <3>1, <3>4 DEF CertsInv, RecordsInv
    <3> QED BY <3>1, <3>3, <3>5 DEF CertsInv, NamesInv
  <2>6. CASE AddCertKey(i)
    <3> DEFINE n == Head(task[i].keys)
               t == [task[i] EXCEPT !.keys = Tail(@)]
    <3>1. /\ task' = [task EXCEPT ![i] = t] /\ task[i].at = "publish" /\ task[i].keys # <<>>
          /\ certs_domains' = [certs_domains EXCEPT ![n] = task[i].got] /\ certs' = certs
      BY <2>6 DEF AddCertKey, Publish
    <3>2. t.got = task[i].got /\ t.keys = Tail(task[i].keys)
      BY <2>0 DEF TaskFields
    <3> HIDE DEF t
    <3>3. task[i].keys \in Seq(Named(task[i].got))
      BY <3>1 DEF CertsInv, KeysInv
    <3>4. n \in Named(task[i].got) /\ Tail(task[i].keys) \in Seq(Named(task[i].got))
      <4> DEFINE N == Named(task[i].got)
      <4> HIDE DEF N
      <4>1. task[i].keys \in Seq(N) /\ task[i].keys # <<>>
        BY <3>1, <3>3 DEF N
      <4>2. Head(task[i].keys) \in N /\ Tail(task[i].keys) \in Seq(N)
        BY <4>1
      <4> QED BY <4>2 DEF N
    <3>5. KeysInv'
      BY <2>3, <3>1, <3>2, <3>4
    <3>6. \E s \in Secrets : task[i].got \in CertsOf[s]
      BY <2>0, <3>1 DEF TaskTyped
    <3> HIDE DEF n
    <3>7. NamesInv'
      BY <1>0, <3>1, <3>4, <3>6 DEF CertsInv, NamesInv, Named
    <3> QED BY <3>1, <3>5, <3>7 DEF CertsInv, RecordsInv
  <2> QED BY <1>5, <2>2, <2>4, <2>5, <2>6 DEF IngressStep
<1>6. CASE \E o \in Objects : Observe(o) \/ Run(o)
  <2>1. PICK o \in Objects : Observe(o) \/ Run(o)
    BY <1>6
  <2> QED BY <1>4, <1>5, <2>1 DEF Run
<1> QED BY <1>2, <1>3, <1>6 DEF Next

\* HandshakesCovered (get_cert beside add_cert): while several tasks enter
\* several versions of certificates one name after the other, a name that the
\* recorded certificate covers never falls to the default certificate nor to one
\* that does not cover it, for any secrets, certificates and names.
THEOREM HandshakesStayCovered == Spec => []HandshakesCovered
<1>1. Init => CertsInv
  <2>1. Ingresses \subseteq Objects /\ Idle.at = "idle"
    BY DEF Objects, Idle
  <2> HIDE DEF Idle
  <2> QED BY <2>1 DEF Init, CertsInit, CertsInv, RecordsInv, NamesInv, KeysInv
<1>2. TypesInv /\ CertsInv => HandshakesCovered
  BY CoveredWhenAlone DEF TypesInv, RoutersTyped, CertsInv
<1> QED BY <1>1, <1>2, TypesAlways, CertsStep, PTL DEF Spec
=============================================================================
