------------------------- MODULE FileProvider_proofs -------------------------
(***************************************************************************)
(* Safety of the file provider for all files, router tables and changes:   *)
(*   ProviderTypes       types, and when operations and events may occur;  *)
(*   ProviderUsesRouter  the provider's calls are a behaviour of Router,   *)
(*                       so that the theorems about Router hold of it;     *)
(*   LoadsAreInForce     what a load has parsed is in force at its end;    *)
(*   SecondLoadsRepair   the chains are right after a second load.         *)
(*                                                                         *)
(* LoadInv follows a load call by call: what was passed on is in the       *)
(* router, or the call under way still has it (ModulesIn, IngressesIn); a  *)
(* load of what was loaded before sets no configuration that was not set   *)
(* already (Remembered), so that no chain that the last module has made    *)
(* current ceases to be (Repaired).                                        *)
(***************************************************************************)
EXTENDS FileProvider, Router_proofs

-----------------------------------------------------------------------------
(* The contents of files.                                                  *)

Declared == [name : Modules, global : BOOLEAN, def : Definitions]
Serving == [name : Ingresses, rules : Rules, config : IngressConfigs]

LEMMA ContentsTyped ==
    ASSUME NEW c \in Contents
    PROVE  /\ c.modules \in Seq(Declared) /\ c.ingresses \in Seq(Serving)
           /\ Len(c.modules) \in Nat /\ Len(c.ingresses) \in Nat
           /\ DOMAIN c.modules = 1..Len(c.modules)
           /\ DOMAIN c.ingresses = 1..Len(c.ingresses)
           /\ \A n, m \in DOMAIN c.ingresses : c.ingresses[n].name = c.ingresses[m].name => n = m
<1>1. c.modules \in Seq(Declared) /\ c.ingresses \in Seq(Serving)
  BY FileProviderAssumption DEF Declared, Serving
<1>2. \A n, m \in DOMAIN c.ingresses : c.ingresses[n].name = c.ingresses[m].name => n = m
  BY FileProviderAssumption
<1> QED BY <1>1, <1>2

\* The number of calls of a load.
Size(c) == Len(c.modules) + Len(c.ingresses)

LEMMA SizeIsNatural ==
    ASSUME NEW c \in Contents
    PROVE  Size(c) \in Nat
<1>1. \A a, b \in Nat : a + b \in Nat
  OBVIOUS
<1>2. Len(c.modules) \in Nat /\ Len(c.ingresses) \in Nat
  BY ContentsTyped
<1> HIDE <1>1
<1> QED BY <1>1, <1>2, Zenon DEF Size

-----------------------------------------------------------------------------
(* The calls of the provider are operations of the router.                 *)

\* What a load passes on next: a module or an ingress of the file.
NextModule == config.modules[applied + 1]
NextIngress == config.ingresses[applied + 1 - Len(config.modules)]

LEMMA PassesOn ==
    ASSUME config \in Contents, applied \in Nat,
           applied < Len(config.modules) + Len(config.ingresses), PassOn(config)
    PROVE  \/ /\ applied + 1 \in DOMAIN config.modules
              /\ NextModule \in Declared
              /\ UpsertModule(NextModule.name, NextModule.global, NextModule.def)
           \/ /\ applied >= Len(config.modules)
              /\ applied + 1 - Len(config.modules) \in DOMAIN config.ingresses
              /\ NextIngress \in Serving
              /\ InsertIngress(NextIngress.name, NextIngress.rules, NextIngress.config)
<1>1. /\ config.modules \in Seq(Declared) /\ config.ingresses \in Seq(Serving)
      /\ Len(config.modules) \in Nat /\ Len(config.ingresses) \in Nat
      /\ DOMAIN config.modules = 1..Len(config.modules)
      /\ DOMAIN config.ingresses = 1..Len(config.ingresses)
  BY ContentsTyped
<1>2. CASE applied < Len(config.modules)
  <2>1. applied + 1 \in DOMAIN config.modules
    BY <1>1, <1>2
  <2>2. NextModule \in Declared
    BY <1>1, <2>1 DEF NextModule
  <2> QED BY <1>2, <2>1, <2>2 DEF PassOn, NextModule
<1>3. CASE ~(applied < Len(config.modules))
  <2> DEFINE ms == Len(config.modules)
             is == Len(config.ingresses)
             served == config.ingresses
  <2>0. /\ ms \in Nat /\ is \in Nat /\ ~(applied < ms) /\ applied < ms + is
        /\ served \in Seq(Serving) /\ DOMAIN served = 1..is
    BY <1>1, <1>3
  <2> HIDE DEF ms, is, served
  <2>1. applied + 1 - ms \in DOMAIN served /\ applied >= ms
    BY <2>0
  <2>2. NextIngress \in Serving
    <3>1. \A k \in DOMAIN served : served[k] \in Serving
      BY <2>0
    <3> QED BY <2>1, <3>1 DEF NextIngress, ms, served
  <2>3. /\ applied >= Len(config.modules)
        /\ applied + 1 - Len(config.modules) \in DOMAIN config.ingresses
    BY <2>1 DEF ms, served
  <2> QED BY <1>3, <2>2, <2>3 DEF PassOn, NextIngress
<1> QED BY <1>2, <1>3

-----------------------------------------------------------------------------
(* Types.                                                                  *)

FileTyped ==
    /\ file \in Contents \cup {Broken, Missing}
    /\ changes \in 0..MaxChanges

\* Nothing is told of the file before it is watched.
EventsTyped ==
    /\ watch \in {"none", "on", "lost"}
    /\ raised \in Seq({"modify", "remove"})
    /\ rx \in Seq({"modify", "remove"})
    /\ Len(rx) <= Capacity
    /\ watch = "none" => raised = <<>> /\ rx = <<>>

LoadTyped ==
    /\ pc \in {"load", "apply", "watch", "select", "stopped"}
    /\ config \in Contents \cup {Absent}
    /\ previous \in Contents \cup {Absent}
    /\ unheard \in BOOLEAN
    /\ applied \in Nat
    /\ pc = "apply" => config # Absent /\ applied <= Len(config.modules) + Len(config.ingresses)
    /\ writer # "idle" => pc = "apply"

PTypes == RInv /\ FileTyped /\ EventsTyped /\ LoadTyped

LEMMA PTypesInit == ProviderInit => PTypes
<1> SUFFICES ASSUME ProviderInit PROVE PTypes
  OBVIOUS
<1>1. RInv
  BY RInvInit DEF ProviderInit
<1>2. FileTyped /\ EventsTyped
  BY FileProviderAssumption DEF ProviderInit, FileTyped, EventsTyped
<1>3. LoadTyped
  BY DEF ProviderInit, Init, LoadTyped
<1> QED BY <1>1, <1>2, <1>3 DEF PTypes

LEMMA PTypesStay ==
    /\ RInv /\ UNCHANGED vars => RInv'
    /\ FileTyped /\ UNCHANGED <<file, changes>> => FileTyped'
    /\ EventsTyped /\ UNCHANGED <<watch, raised, rx>> => EventsTyped'
<1>1. RInv /\ UNCHANGED vars => RInv'
  BY RInvStep
<1>2. FileTyped /\ UNCHANGED <<file, changes>> => FileTyped'
  BY DEF FileTyped
<1>3. EventsTyped /\ UNCHANGED <<watch, raised, rx>> => EventsTyped'
  BY DEF EventsTyped
<1> QED BY <1>1, <1>2, <1>3

LEMMA PTypesOutside ==
    ASSUME PTypes,
           \/ \E c \in Contents \cup {Broken} : Save(c)
           \/ \E c \in Contents \cup {Missing} : Exchange(c)
           \/ Deliver
    PROVE  PTypes'
<1>1. UNCHANGED vars /\ UNCHANGED <<pc, config, applied, previous>>
  BY DEF Save, Exchange, Deliver, history
<1>2. UNCHANGED writer
  BY <1>1 DEF vars
<1>3. CASE \E c \in Contents \cup {Broken} : Save(c)
  <2>1. PICK c \in Contents \cup {Broken} : Save(c)
    BY <1>3
  <2>2. FileTyped'
    BY <2>1, FileProviderAssumption DEF Save, Change, PTypes, FileTyped
  <2>3. EventsTyped'
    BY <2>1 DEF Save, PTypes, EventsTyped
  <2>4. LoadTyped'
    BY <1>1, <1>2, <2>1 DEF Save, PTypes, LoadTyped
  <2> QED BY <1>1, <2>2, <2>3, <2>4, PTypesStay DEF PTypes
<1>4. CASE \E c \in Contents \cup {Missing} : Exchange(c)
  <2>1. PICK c \in Contents \cup {Missing} : Exchange(c)
    BY <1>4
  <2>2. FileTyped'
    BY <2>1, FileProviderAssumption DEF Exchange, Change, PTypes, FileTyped
  <2>3. EventsTyped'
    BY <2>1 DEF Exchange, PTypes, EventsTyped
  <2>4. LoadTyped'
    BY <1>1, <1>2, <2>1 DEF Exchange, PTypes, LoadTyped
  <2> QED BY <1>1, <2>2, <2>3, <2>4, PTypesStay DEF PTypes
<1>5. CASE Deliver
  <2>1. /\ raised # <<>> /\ Len(rx) < Capacity
        /\ rx' = Append(rx, Head(raised)) /\ raised' = Tail(raised)
        /\ UNCHANGED <<file, changes, watch, unheard>>
    BY <1>5 DEF Deliver, Send, history
  <2>2. EventsTyped'
    <3> DEFINE Kinds == {"modify", "remove"}
    <3>1. raised \in Seq(Kinds) /\ rx \in Seq(Kinds)
      BY DEF PTypes, EventsTyped
    <3> HIDE DEF Kinds
    <3>2. Head(raised) \in Kinds /\ Tail(raised) \in Seq(Kinds)
      BY <2>1, <3>1
    <3>3. Append(rx, Head(raised)) \in Seq(Kinds) /\ Len(rx') = Len(rx) + 1 /\ Len(rx) \in Nat
      BY <2>1, <3>1, <3>2
    <3>4. Len(rx') <= Capacity
      BY <2>1, <3>3, FileProviderAssumption
    <3> QED BY <2>1, <3>2, <3>3, <3>4 DEF PTypes, EventsTyped, Kinds
  <2>3. LoadTyped'
    BY <1>1, <1>2, <2>1 DEF PTypes, LoadTyped
  <2> QED BY <1>1, <2>1, <2>2, <2>3, PTypesStay DEF PTypes
<1> QED BY <1>3, <1>4, <1>5

LEMMA RInvWriterStep ==
    ASSUME RInv, WriterStep
    PROVE  RInv'
BY RInvStep DEF Next

LEMMA PTypesProvider ==
    ASSUME PTypes, ProviderStep \/ Shutdown
    PROVE  PTypes'
<1>1. UNCHANGED <<file, changes>> /\ FileTyped'
  BY PTypesStay DEF ProviderStep, Read, Apply, Loaded, Watch, Receive, RouterStep, Shutdown, PTypes
<1>2. CASE Read \/ Loaded \/ Watch \/ Shutdown
  <2>1. RInv' /\ writer' = writer
    BY <1>2, PTypesStay DEF Read, Loaded, Watch, Shutdown, PTypes, vars
  <2>2. EventsTyped'
    BY <1>2 DEF Read, Loaded, Watch, Shutdown, PTypes, EventsTyped
  <2>3. LoadTyped'
    <3>1. CASE Read
      <4>1. CASE file \in Contents
        <5>1. /\ config' = file /\ previous' = config /\ applied' = 0 /\ pc' = "apply"
              /\ unheard' = FALSE
          BY <3>1, <4>1 DEF Read
        <5>2. file # Absent
          BY <4>1, FileProviderAssumption
        <5>3. Size(file) \in Nat /\ 0 <= Size(file)
          BY <4>1, SizeIsNatural
        <5> QED BY <2>1, <4>1, <5>1, <5>2, <5>3 DEF PTypes, LoadTyped, Size
      <4>2. CASE file \notin Contents
        BY <2>1, <3>1, <4>2 DEF Read, AfterLoad, PTypes, LoadTyped
      <4> QED BY <4>1, <4>2
    <3>2. CASE Loaded
      BY <2>1, <3>2 DEF Loaded, AfterLoad, history, PTypes, LoadTyped
    <3>3. CASE Watch \/ Shutdown
      BY <2>1, <3>3 DEF Watch, Shutdown, history, PTypes, LoadTyped
    <3> QED BY <1>2, <3>1, <3>2, <3>3
  <2> QED BY <1>1, <2>1, <2>2, <2>3 DEF PTypes
<1>3. CASE Receive
  <2>1. /\ rx # <<>> /\ rx' = Tail(rx) /\ pc = "select" /\ pc' \in {"load", "select"}
        /\ UNCHANGED vars /\ UNCHANGED <<watch, raised, config, applied, previous, unheard>>
    BY <1>3 DEF Receive, history
  <2>2. EventsTyped'
    <3> DEFINE Kinds == {"modify", "remove"}
    <3>1. rx \in Seq(Kinds)
      BY DEF PTypes, EventsTyped
    <3> HIDE DEF Kinds
    <3>2. Tail(rx) \in Seq(Kinds) /\ Len(Tail(rx)) <= Len(rx) /\ Len(rx) \in Nat /\ Len(Tail(rx)) \in Nat
      BY <2>1, <3>1
    <3>3. Len(rx') <= Capacity
      BY <2>1, <3>2, FileProviderAssumption DEF PTypes, EventsTyped
    <3> QED BY <2>1, <3>2, <3>3 DEF PTypes, EventsTyped, Kinds
  <2>3. LoadTyped'
    BY <2>1 DEF PTypes, LoadTyped, vars
  <2> QED BY <1>1, <2>1, <2>2, <2>3, PTypesStay DEF PTypes
<1>4. CASE Apply
  <2>1. /\ pc = "apply" /\ applied < Len(config.modules) + Len(config.ingresses)
        /\ PassOn(config) /\ applied' = applied + 1
        /\ UNCHANGED <<watch, raised, rx, pc, config, previous, unheard>>
    BY <1>4 DEF Apply, history
  <2>2. config \in Contents /\ applied \in Nat
    BY <2>1 DEF PTypes, LoadTyped
  <2>3. RInv'
    BY <2>1, <2>2, PassesOn, RInvUpsertModule, RInvInsertIngress DEF Declared, Serving, PTypes
  <2>4. LoadTyped'
    <3>1. Size(config) \in Nat
      BY <2>2, SizeIsNatural
    <3>2. applied < Size(config)
      BY <2>1 DEF Size
    <3>3. applied + 1 <= Size(config) /\ applied + 1 \in Nat
      BY <2>2, <3>1, <3>2
    <3> QED BY <2>1, <3>3 DEF PTypes, LoadTyped, Size
  <2> QED BY <1>1, <2>1, <2>3, <2>4, PTypesStay DEF PTypes
<1>5. CASE RouterStep
  <2>1. /\ WriterStep
        /\ UNCHANGED <<watch, raised, rx, pc, config, applied, previous, unheard>>
    BY <1>5 DEF RouterStep, provider, history
  <2>2. writer # "idle"
    BY <2>1 DEF WriterStep, InsertHost, ReloadHost, DeleteFromHost, Finish
  <2>3. LoadTyped'
    BY <2>1, <2>2 DEF PTypes, LoadTyped
  <2> QED BY <1>1, <2>1, <2>3, PTypesStay, RInvWriterStep DEF PTypes
<1> QED BY <1>2, <1>3, <1>4, <1>5 DEF ProviderStep

LEMMA PTypesStep == PTypes /\ [ProviderNext]_allVars => PTypes'
<1> SUFFICES ASSUME PTypes, [ProviderNext]_allVars PROVE PTypes'
  OBVIOUS
<1>1. CASE UNCHANGED allVars
  <2>1. /\ UNCHANGED vars /\ UNCHANGED <<file, changes>> /\ UNCHANGED <<watch, raised, rx>>
        /\ UNCHANGED <<pc, config, applied, previous, unheard, writer>>
    BY <1>1 DEF allVars, vars, provider, history
  <2>2. LoadTyped'
    BY <2>1 DEF PTypes, LoadTyped
  <2> QED BY <2>1, <2>2, PTypesStay DEF PTypes
<1> QED BY <1>1, PTypesOutside, PTypesProvider DEF ProviderNext

LEMMA PTypesAlways == ProviderSpec => []PTypes
BY PTypesInit, PTypesStep, PTL DEF ProviderSpec

\* ProviderTypeOK: the variables of the provider keep their types, an operation of
\* the router runs only inside a load, a load passes on no more than the file
\* has, and no event waits before the file is watched.
THEOREM ProviderTypes == ProviderSpec => []ProviderTypeOK
BY PTypesAlways, PTL DEF PTypes, RInv, FileTyped, EventsTyped, LoadTyped, ProviderTypeOK

\* The provider's calls are among those of Router: what Router_proofs shows of the
\* tables holds of those that a file provider keeps (apply_config).
THEOREM ProviderUsesRouter == ProviderSpec => Spec
<1>1. ProviderInit => Init
  BY DEF ProviderInit
<1>2. PTypes /\ [ProviderNext]_allVars => [Next]_vars
  <2> SUFFICES ASSUME PTypes, [ProviderNext]_allVars PROVE [Next]_vars
    OBVIOUS
  <2>1. CASE Apply
    <3>1. config \in Contents /\ applied \in Nat
      BY <2>1 DEF Apply, PTypes, LoadTyped
    <3>2. \/ UpsertModule(NextModule.name, NextModule.global, NextModule.def) /\ NextModule \in Declared
          \/ InsertIngress(NextIngress.name, NextIngress.rules, NextIngress.config) /\ NextIngress \in Serving
      BY <2>1, <3>1, PassesOn DEF Apply
    <3> QED BY <3>2 DEF Next, Declared, Serving
  <2>2. CASE RouterStep
    BY <2>2 DEF RouterStep, Next
  <2>3. CASE ~Apply /\ ~RouterStep
    BY <2>3 DEF allVars, ProviderNext, ProviderStep, Save, Exchange, Deliver, Read, Loaded, Watch,
                Receive, Shutdown
  <2> QED BY <2>1, <2>2, <2>3
<1> QED BY <1>1, <1>2, PTypesAlways, PTL DEF ProviderSpec, Spec

-----------------------------------------------------------------------------
(* Loads.                                                                  *)

\* The k-th ingress of the file has its configuration, the k-th module its
\* definition or that of a later one of its name, and a rule its entry.
SetAt(k) == ingress_module_config[config.ingresses[k].name] = config.ingresses[k].config

Registered(m) == (IF m.global THEN global_module_registry ELSE module_registry)[m.name] = m.def

Overridden(k) ==
    \E j \in DOMAIN config.modules :
        /\ j > k /\ j <= applied
        /\ config.modules[j].name = config.modules[k].name
        /\ config.modules[j].global = config.modules[k].global

Served(rule, i) == \E e \in Elements(hosts[rule.host]) : e.ingress = i /\ e.paths = rule.paths

\* The insertion of the k-th ingress is under way and has the rule still to publish.
Awaited(k, rule) ==
    writer = "inserting" /\ applied = Len(config.modules) + k /\ rule \in Elements(rules)

\* What was passed on of the file is in the router.
ModulesIn ==
    pc = "apply" => \A k \in DOMAIN config.modules :
        k <= applied => Registered(config.modules[k]) \/ Overridden(k)

IngressesIn ==
    pc = "apply" => \A k \in DOMAIN config.ingresses :
        applied >= Len(config.modules) + k =>
            /\ SetAt(k)
            /\ \A rule \in Elements(config.ingresses[k].rules) :
                   Served(rule, config.ingresses[k].name) \/ Awaited(k, rule)

\* The operation that is under way belongs to the load.
InsertsNext ==
    /\ writer # "deleting"
    /\ writer = "inserting" =>
        /\ applied - Len(config.modules) \in DOMAIN config.ingresses
        /\ writing = config.ingresses[applied - Len(config.modules)].name

\* After a load, and in a load of the same once more, all its ingresses have
\* their configurations; then the chains stay as the last module leaves them.
Remembered ==
    config # Absent /\ (pc = "apply" => config = previous) =>
        \A k \in DOMAIN config.ingresses : SetAt(k)

Repaired ==
    /\ pc = "apply" /\ config = previous /\ config.modules # <<>>
    /\ applied >= Len(config.modules) /\ writer # "reloading"
    => AllCurrent

LoadInv == ModulesIn /\ IngressesIn /\ InsertsNext /\ Remembered /\ Repaired

LEMMA LoadInvInit == ProviderInit => LoadInv
BY DEF ProviderInit, Init, LoadInv, ModulesIn, IngressesIn, InsertsNext, Remembered, Repaired

\* A step that leaves the router and the load alone.
LEMMA LoadInvStays ==
    ASSUME LoadInv, UNCHANGED vars, UNCHANGED <<config, applied, previous>>,
           pc' = pc \/ (pc' # "apply" /\ pc # "apply")
    PROVE  LoadInv'
<1>1. /\ UNCHANGED <<hosts, module_registry, global_module_registry, ingress_module_config>>
      /\ UNCHANGED <<writer, writing, rules>>
  BY DEF vars, registries
<1>2. /\ \A k \in DOMAIN config.ingresses : SetAt(k)' <=> SetAt(k)
      /\ \A k \in DOMAIN config.modules : Overridden(k)' <=> Overridden(k)
      /\ \A m : Registered(m)' <=> Registered(m)
      /\ \A rule, i : Served(rule, i)' <=> Served(rule, i)
      /\ \A k, rule : Awaited(k, rule)' <=> Awaited(k, rule)
  BY <1>1 DEF SetAt, Overridden, Registered, Served, Awaited
<1>3. AllCurrent' <=> AllCurrent
  BY <1>1 DEF AllCurrent, ChainIsCurrent
<1>4. ModulesIn'
  BY <1>2 DEF LoadInv, ModulesIn
<1>5. IngressesIn'
  BY <1>2 DEF LoadInv, IngressesIn
<1>6. InsertsNext'
  BY <1>1 DEF LoadInv, InsertsNext
<1>7. Remembered'
  BY <1>2 DEF LoadInv, Remembered
<1>8. Repaired'
  BY <1>1, <1>3 DEF LoadInv, Repaired
<1> QED BY <1>4, <1>5, <1>6, <1>7, <1>8 DEF LoadInv

\* A new load has passed on nothing yet; what it finds of an earlier one is the
\* whole of it.
LEMMA LoadInvRead ==
    ASSUME PTypes, LoadInv, Read
    PROVE  LoadInv'
<1>1. CASE file \notin Contents
  <2>1. UNCHANGED vars /\ UNCHANGED <<config, applied, previous>> /\ pc = "load" /\ pc' # "apply"
    BY <1>1 DEF Read, AfterLoad
  <2> QED BY <2>1, LoadInvStays
<1>2. CASE file \in Contents
  <2>1. /\ pc = "load" /\ pc' = "apply" /\ config' = file /\ previous' = config /\ applied' = 0
        /\ UNCHANGED vars
    BY <1>2 DEF Read
  <2>2. UNCHANGED <<hosts, module_registry, global_module_registry, ingress_module_config>>
        /\ UNCHANGED <<writer, writing, rules>>
    BY <2>1 DEF vars, registries
  <2>3. writer = "idle"
    BY <2>1 DEF PTypes, LoadTyped
  <2>4. /\ file.modules \in Seq(Declared) /\ Len(file.modules) \in Nat
        /\ DOMAIN file.modules = 1..Len(file.modules)
        /\ DOMAIN file.ingresses = 1..Len(file.ingresses) /\ Len(file.ingresses) \in Nat
    BY <1>2, ContentsTyped
  <2>5. ModulesIn'
    <3>1. \A k \in 1..Len(file.modules) : ~(k <= 0)
      OBVIOUS
    <3> QED BY <2>1, <2>4, <3>1 DEF ModulesIn
  <2>6. IngressesIn'
    <3>1. \A k \in 1..Len(file.ingresses) : ~(0 >= Len(file.modules) + k)
      BY <2>4
    <3> QED BY <2>1, <2>4, <3>1 DEF IngressesIn
  <2>7. InsertsNext'
    BY <2>2, <2>3 DEF InsertsNext
  <2>8. Remembered'
    <3> SUFFICES ASSUME file = config PROVE \A k \in DOMAIN file.ingresses : SetAt(k)'
      BY <2>1 DEF Remembered
    <3>1. config # Absent
      BY <1>2, FileProviderAssumption
    <3> QED BY <2>1, <2>2, <3>1 DEF LoadInv, Remembered, SetAt
  <2>9. Repaired'
    <3>1. file.modules # <<>> => ~(0 >= Len(file.modules))
      BY <2>4
    <3> QED BY <2>1, <3>1 DEF Repaired
  <2> QED BY <2>5, <2>6, <2>7, <2>8, <2>9 DEF LoadInv
<1> QED BY <1>1, <1>2

LEMMA LoadInvLoaded ==
    ASSUME PTypes, LoadInv, Loaded
    PROVE  LoadInv' /\ InForce(config)
           /\ (config = previous /\ config.modules # <<>> => AllCurrent)
<1>1. /\ pc = "apply" /\ pc' # "apply" /\ writer = "idle"
      /\ applied = Len(config.modules) + Len(config.ingresses)
      /\ UNCHANGED vars /\ UNCHANGED <<config, applied, previous>>
  BY DEF Loaded, AfterLoad, history
<1>2. /\ UNCHANGED <<hosts, module_registry, global_module_registry, ingress_module_config>>
      /\ UNCHANGED <<writer, writing, rules>>
  BY <1>1 DEF vars, registries
<1>3. config \in Contents
  BY <1>1 DEF PTypes, LoadTyped
<1>4. /\ config.modules \in Seq(Declared) /\ config.ingresses \in Seq(Serving)
      /\ Len(config.modules) \in Nat /\ Len(config.ingresses) \in Nat
      /\ DOMAIN config.modules = 1..Len(config.modules)
      /\ DOMAIN config.ingresses = 1..Len(config.ingresses)
  BY <1>3, ContentsTyped
<1>5. /\ applied >= Len(config.modules)
      /\ \A k \in DOMAIN config.modules : k <= applied
      /\ \A k \in DOMAIN config.ingresses : applied >= Len(config.modules) + k
  <2> DEFINE ms == Len(config.modules)
             is == Len(config.ingresses)
  <2> HIDE DEF ms, is
  <2>1. /\ ms \in Nat /\ is \in Nat /\ applied = ms + is
        /\ DOMAIN config.modules = 1..ms /\ DOMAIN config.ingresses = 1..is
    BY <1>1, <1>4 DEF ms, is
  <2>2. /\ applied >= ms
        /\ \A k \in DOMAIN config.modules : k <= applied
        /\ \A k \in DOMAIN config.ingresses : applied >= ms + k
    BY <2>1
  <2> QED BY <2>2 DEF ms
<1>6. \A k \in DOMAIN config.ingresses :
        /\ SetAt(k)
        /\ \A rule \in Elements(config.ingresses[k].rules) : Served(rule, config.ingresses[k].name)
  BY <1>1, <1>5 DEF LoadInv, IngressesIn, Awaited
<1>7. \A k \in DOMAIN config.modules : Registered(config.modules[k]) \/ Overridden(k)
  BY <1>1, <1>5 DEF LoadInv, ModulesIn
<1>8. InForce(config)
  <2>1. \A n \in DOMAIN config.modules :
            \/ (IF config.modules[n].global THEN global_module_registry
                ELSE module_registry)[config.modules[n].name] = config.modules[n].def
            \/ \E k \in DOMAIN config.modules :
                   k > n /\ config.modules[k].name = config.modules[n].name
                   /\ config.modules[k].global = config.modules[n].global
    BY <1>7 DEF Registered, Overridden
  <2>2. ASSUME NEW i \in Elements(config.ingresses)
        PROVE  /\ ingress_module_config[i.name] = i.config
               /\ \A rule \in Elements(i.rules) : \E e \in Elements(hosts[rule.host]) :
                      e.ingress = i.name /\ e.paths = rule.paths
    <3>1. PICK k \in DOMAIN config.ingresses : i = config.ingresses[k]
      BY DEF Elements
    <3> QED BY <1>6, <3>1 DEF SetAt, Served
  <2> QED BY <2>1, <2>2 DEF InForce
<1>9. config = previous /\ config.modules # <<>> => AllCurrent
  BY <1>1, <1>5 DEF LoadInv, Repaired
<1>10. LoadInv'
  <2>1. InsertsNext'
    BY <1>1, <1>2 DEF InsertsNext
  <2>2. Remembered'
    BY <1>1, <1>2, <1>6 DEF Remembered, SetAt
  <2> QED BY <1>1, <2>1, <2>2 DEF LoadInv, ModulesIn, IngressesIn, Repaired
<1> QED BY <1>8, <1>9, <1>10

\* What the steps of an operation do to the entries.
LEMMA WriterSteps ==
    ASSUME RInv, InsertsNext, WriterStep
    PROVE  /\ UNCHANGED <<module_registry, global_module_registry, ingress_module_config>>
           /\ \A h \in Hosts : \A e \in Elements(hosts[h]) : \E f \in Elements(hosts'[h]) :
                  f.ingress = e.ingress /\ f.paths = e.paths
           /\ \A rule \in Elements(rules) :
                  \/ writer' = "inserting" /\ rule \in Elements(rules')
                  \/ \E e \in Elements(hosts'[rule.host]) : e.ingress = writing /\ e.paths = rule.paths
           /\ writer' = "inserting" => writer = "inserting" /\ writing' = writing
           /\ writer' # "deleting"
           /\ writer' = "reloading" \/ writer = "reloading" \/ (AllCurrent => AllCurrent')
           /\ writer' # "reloading" /\ writer = "reloading" => AllCurrent'
<1>0. DOMAIN hosts = Hosts /\ rules \in Seq(Rule)
  BY DEF RInv, TypeOK, Rule
<1>1. CASE InsertHost
  <2>1. /\ writer = "inserting" /\ writer' = "inserting" /\ writing' = writing
        /\ rules # <<>> /\ rules' = Tail(rules) /\ Head(rules).host \in Hosts
        /\ NewEntry \in HostEntry /\ ChainIsCurrent(NewEntry)
        /\ \A h \in Hosts : hosts'[h] = IF h = Head(rules).host THEN Push(hosts[h], NewEntry)
                                        ELSE hosts[h]
        /\ UNCHANGED <<module_registry, global_module_registry, ingress_module_config>>
    BY <1>1, InsertHostAppends
  <2>2. \A h \in Hosts : Elements(Push(hosts[h], NewEntry)) = Elements(hosts[h]) \cup {NewEntry}
    BY <2>1, PushAppends DEF RInv
  <2>3. \A h \in Hosts :
            Elements(hosts'[h]) = IF h = Head(rules).host THEN Elements(hosts[h]) \cup {NewEntry}
                                  ELSE Elements(hosts[h])
    BY <2>1, <2>2
  <2>4. NewEntry.ingress = writing /\ NewEntry.paths = Head(rules).paths
    BY DEF NewEntry
  <2>5. \A rule \in Elements(rules) : rule = Head(rules) \/ rule \in Elements(rules')
    <3> DEFINE R == Rule
    <3> HIDE DEF R
    <3>1. /\ Head(rules) = rules[1] /\ Len(rules) \in Nat /\ DOMAIN rules = 1..Len(rules)
          /\ Len(Tail(rules)) = Len(rules) - 1 /\ DOMAIN Tail(rules) = 1..(Len(rules) - 1)
          /\ \A n \in 1..(Len(rules) - 1) : Tail(rules)[n] = rules[n + 1]
      <4>1. rules \in Seq(R) /\ rules # <<>>
        BY <1>0, <2>1 DEF R
      <4> QED BY <4>1
    <3> SUFFICES ASSUME NEW n \in DOMAIN rules, n # 1 PROVE rules[n] \in Elements(rules')
      BY <3>1 DEF Elements
    <3>2. n - 1 \in DOMAIN Tail(rules) /\ Tail(rules)[n - 1] = rules[n]
      BY <3>1
    <3> QED BY <2>1, <3>2 DEF Elements
  <2>6. \A e : ChainIsCurrent(e)' <=> ChainIsCurrent(e)
    BY <2>1 DEF ChainIsCurrent
  <2>7. AllCurrent => AllCurrent'
    <3> SUFFICES ASSUME AllCurrent, NEW h \in Hosts, NEW e \in Elements(hosts'[h])
                 PROVE  ChainIsCurrent(e)
      BY <2>6 DEF AllCurrent
    <3>1. e \in Elements(hosts[h]) \/ e = NewEntry
      BY <2>3
    <3>2. ChainIsCurrent(NewEntry)
      BY <2>1
    <3> HIDE DEF NewEntry
    <3> QED BY <3>1, <3>2 DEF AllCurrent
  <2> HIDE DEF NewEntry
  <2> QED BY <2>1, <2>3, <2>4, <2>5, <2>7
<1>2. CASE \E h \in Hosts : ReloadHost(h)
  <2>1. PICK h \in Hosts : ReloadHost(h)
    BY <1>2
  <2>2. /\ writer = "reloading" /\ writer' = "reloading" /\ rules' = rules
        /\ hosts' = [hosts EXCEPT ![h] = Reload(hosts[h])]
        /\ UNCHANGED <<module_registry, global_module_registry, ingress_module_config>>
    BY <2>1 DEF ReloadHost, registries
  <2>3. Elements(rules) = {}
    BY <2>2 DEF RInv, TypeOK, Elements
  <2>4. \A g \in Hosts : \A e \in Elements(hosts[g]) : \E f \in Elements(hosts'[g]) :
            f.ingress = e.ingress /\ f.paths = e.paths
    <3> DEFINE new == Reload(hosts[h])
    <3>1. /\ DOMAIN new = DOMAIN hosts[h]
          /\ \A n \in DOMAIN new : new[n].ingress = hosts[h][n].ingress /\ new[n].paths = hosts[h][n].paths
      BY ReloadKeepsEntries DEF RInv
    <3> HIDE DEF new
    <3>2. \A g \in Hosts : hosts'[g] = IF g = h THEN new ELSE hosts[g]
      BY <1>0, <2>2 DEF new
    <3> QED BY <3>1, <3>2 DEF Elements
  <2> QED BY <2>2, <2>3, <2>4
<1>3. CASE \E h \in Hosts : DeleteFromHost(h)
  BY <1>3 DEF DeleteFromHost, InsertsNext
<1>4. CASE Finish
  <2>1. /\ rules = <<>> /\ writer' = "idle" /\ UNCHANGED hosts
        /\ UNCHANGED <<module_registry, global_module_registry, ingress_module_config>>
    BY <1>4 DEF Finish, LoopEnds, registries
  <2>2. Elements(rules) = {}
    BY <2>1 DEF Elements
  <2>3. writer = "reloading" => AllCurrent'
    BY <1>4, RInvFinish
  <2>4. AllCurrent => AllCurrent'
    BY <2>1 DEF AllCurrent, ChainIsCurrent
  <2> QED BY <2>1, <2>2, <2>3, <2>4
<1> QED BY <1>1, <1>2, <1>3, <1>4 DEF WriterStep

LEMMA LoadInvRouter ==
    ASSUME PTypes, LoadInv, RouterStep
    PROVE  LoadInv'
<1>1. /\ WriterStep /\ UNCHANGED <<pc, config, applied, previous>>
  BY DEF RouterStep, provider, history
<1>2. RInv /\ InsertsNext
  BY DEF PTypes, LoadInv
<1>3. /\ UNCHANGED <<module_registry, global_module_registry, ingress_module_config>>
      /\ \A h \in Hosts : \A e \in Elements(hosts[h]) : \E f \in Elements(hosts'[h]) :
             f.ingress = e.ingress /\ f.paths = e.paths
      /\ \A rule \in Elements(rules) :
             \/ writer' = "inserting" /\ rule \in Elements(rules')
             \/ \E e \in Elements(hosts'[rule.host]) : e.ingress = writing /\ e.paths = rule.paths
      /\ writer' = "inserting" => writer = "inserting" /\ writing' = writing
      /\ writer' # "deleting"
  BY <1>1, <1>2, WriterSteps
<1>4. /\ writer' = "reloading" \/ writer = "reloading" \/ (AllCurrent => AllCurrent')
      /\ writer' # "reloading" /\ writer = "reloading" => AllCurrent'
  BY <1>1, <1>2, WriterSteps
<1>5. /\ \A k : SetAt(k)' <=> SetAt(k)
      /\ \A k : Overridden(k)' <=> Overridden(k)
      /\ \A m : Registered(m)' <=> Registered(m)
  BY <1>1, <1>3 DEF SetAt, Overridden, Registered
<1>6. ModulesIn'
  BY <1>1, <1>5 DEF LoadInv, ModulesIn
<1>7. IngressesIn'
  <2> SUFFICES ASSUME pc = "apply", NEW k \in DOMAIN config.ingresses,
                      applied >= Len(config.modules) + k
               PROVE  /\ SetAt(k)'
                      /\ \A rule \in Elements(config.ingresses[k].rules) :
                             Served(rule, config.ingresses[k].name)' \/ Awaited(k, rule)'
    BY <1>1 DEF IngressesIn
  <2>0. config \in Contents
    BY DEF PTypes, LoadTyped
  <2>1. /\ SetAt(k)
        /\ \A rule \in Elements(config.ingresses[k].rules) :
               Served(rule, config.ingresses[k].name) \/ Awaited(k, rule)
    BY DEF LoadInv, IngressesIn
  <2>2. ASSUME NEW rule \in Elements(config.ingresses[k].rules), Served(rule, config.ingresses[k].name)
        PROVE  Served(rule, config.ingresses[k].name)'
    <3>1. rule.host \in Hosts
      <4>1. config.ingresses[k] \in Serving
        BY <2>0, ContentsTyped
      <4>2. config.ingresses[k].rules \in Seq(Rule)
        BY <4>1, RouterAssumption DEF Serving, Rule
      <4> DEFINE list == config.ingresses[k].rules
      <4> HIDE DEF list
      <4>3. \A n \in DOMAIN list : list[n] \in Rule
        BY <4>2 DEF list
      <4>4. rule \in Rule
        BY <4>3 DEF Elements, list
      <4> QED BY <4>4 DEF Rule
    <3> QED BY <1>1, <1>3, <2>2, <3>1 DEF Served
  <2>3. ASSUME NEW rule \in Elements(config.ingresses[k].rules), Awaited(k, rule)
        PROVE  Served(rule, config.ingresses[k].name)' \/ Awaited(k, rule)'
    <3>1. writing = config.ingresses[k].name
      <4>1. applied = Len(config.modules) + k /\ Len(config.modules) \in Nat /\ k \in Nat
        BY <2>0, <2>3, ContentsTyped DEF Awaited
      <4>2. applied - Len(config.modules) = k
        BY <4>1
      <4> QED BY <1>2, <2>3, <4>2 DEF InsertsNext, Awaited
    <3> QED BY <1>1, <1>3, <2>3, <3>1 DEF Served, Awaited
  <2> QED BY <1>5, <2>1, <2>2, <2>3
<1>8. InsertsNext'
  BY <1>1, <1>2, <1>3 DEF InsertsNext
<1>9. Remembered'
  BY <1>1, <1>5 DEF LoadInv, Remembered
<1>10. Repaired'
  BY <1>1, <1>4 DEF LoadInv, Repaired
<1> QED BY <1>6, <1>7, <1>8, <1>9, <1>10 DEF LoadInv

LEMMA LoadInvApply ==
    ASSUME PTypes, LoadInv, Apply
    PROVE  LoadInv'
<1>1. /\ pc = "apply" /\ pc' = "apply" /\ writer = "idle" /\ applied' = applied + 1
      /\ applied < Len(config.modules) + Len(config.ingresses) /\ PassOn(config)
      /\ UNCHANGED <<config, previous>>
  BY DEF Apply, history
<1>2. config \in Contents /\ applied \in Nat
  BY <1>1 DEF PTypes, LoadTyped
<1>3. /\ config.modules \in Seq(Declared) /\ config.ingresses \in Seq(Serving)
      /\ Len(config.modules) \in Nat /\ Len(config.ingresses) \in Nat
      /\ DOMAIN config.modules = 1..Len(config.modules)
      /\ DOMAIN config.ingresses = 1..Len(config.ingresses)
      /\ \A n, m \in DOMAIN config.ingresses :
            config.ingresses[n].name = config.ingresses[m].name => n = m
  BY <1>2, ContentsTyped
<1> DEFINE ms == Len(config.modules)
<1>4. CASE /\ applied + 1 \in DOMAIN config.modules /\ NextModule \in Declared
           /\ UpsertModule(NextModule.name, NextModule.global, NextModule.def)
  <2>1. /\ UNCHANGED <<hosts, ingress_module_config>> /\ writer' = "reloading"
        /\ applied + 1 <= ms
    BY <1>3, <1>4 DEF UpsertModule, StartReload
  <2>2. \A m \in Declared :
           /\ m.name = NextModule.name /\ m.global = NextModule.global /\ m.def = NextModule.def
              => Registered(m)'
           /\ ~(m.name = NextModule.name /\ m.global = NextModule.global)
              => (Registered(m)' <=> Registered(m))
    <3>1. /\ module_registry \in [Modules -> Definitions \cup {Absent}]
          /\ global_module_registry \in [Modules -> Definitions \cup {Absent}]
      BY DEF PTypes, RInv, TypeOK
    <3>2. CASE NextModule.global
      <4>1. /\ global_module_registry' = [global_module_registry EXCEPT ![NextModule.name] = NextModule.def]
            /\ module_registry' = module_registry
        BY <1>4, <3>2 DEF UpsertModule
      <4> QED BY <1>4, <3>1, <3>2, <4>1 DEF Registered, Declared
    <3>3. CASE ~NextModule.global
      <4>1. /\ module_registry' = [module_registry EXCEPT ![NextModule.name] = NextModule.def]
            /\ global_module_registry' = global_module_registry
        BY <1>4, <3>3 DEF UpsertModule
      <4> QED BY <1>4, <3>1, <3>3, <4>1 DEF Registered, Declared
    <3> QED BY <3>2, <3>3
  <2>3. ModulesIn'
    <3> SUFFICES ASSUME NEW k \in DOMAIN config.modules, k <= applied + 1
                 PROVE  Registered(config.modules[k])' \/ Overridden(k)'
      BY <1>1 DEF ModulesIn
    <3>1. config.modules[k] \in Declared /\ k \in Nat /\ NextModule = config.modules[applied + 1]
      BY <1>3 DEF NextModule
    <3>2. CASE k = applied + 1
      <4>1. PICK m \in Declared : m = config.modules[k]
        BY <3>1
      <4>2. Registered(m)'
        BY <2>2, <3>1, <3>2, <4>1
      <4> QED BY <1>1, <4>1, <4>2 DEF Registered
    <3>3. CASE k # applied + 1
      <4>1. k <= applied /\ applied + 1 > k
        BY <1>2, <3>1, <3>3
      <4>2. Overridden(k) => Overridden(k)'
        <5>1. \A j \in DOMAIN config.modules : j <= applied => j <= applied + 1
          BY <1>2, <1>3
        <5> QED BY <1>1, <5>1 DEF Overridden
      <4>3. /\ config.modules[k].name = NextModule.name /\ config.modules[k].global = NextModule.global
            => Overridden(k)'
        <5>1. applied + 1 <= applied'
          BY <1>1, <1>2
        <5> QED BY <1>1, <1>4, <3>1, <4>1, <5>1 DEF Overridden
      <4>4. Registered(config.modules[k]) \/ Overridden(k)
        BY <1>1, <4>1 DEF LoadInv, ModulesIn
      <4>5. PICK m \in Declared : m = config.modules[k]
        BY <3>1
      <4>6. Registered(m) => Registered(m)' \/ Overridden(k)'
        BY <2>2, <4>3, <4>5
      <4>7. Registered(config.modules[k]) => Registered(config.modules[k])' \/ Overridden(k)'
        BY <1>1, <4>5, <4>6 DEF Registered
      <4> QED BY <4>2, <4>4, <4>7
    <3> QED BY <3>2, <3>3
  <2>4. IngressesIn' /\ InsertsNext' /\ Repaired'
    <3>1. \A k \in DOMAIN config.ingresses : ~(applied + 1 >= ms + k)
      BY <1>2, <1>3, <2>1
    <3> QED BY <1>1, <2>1, <3>1 DEF IngressesIn, InsertsNext, Repaired
  <2>5. Remembered'
    BY <1>1, <2>1 DEF LoadInv, Remembered, SetAt
  <2> QED BY <2>3, <2>4, <2>5 DEF LoadInv
<1>5. CASE /\ applied >= ms /\ applied + 1 - ms \in DOMAIN config.ingresses
           /\ NextIngress \in Serving
           /\ InsertIngress(NextIngress.name, NextIngress.rules, NextIngress.config)
  <2> DEFINE next == applied + 1 - ms
  <2>1. /\ writer' = "inserting" /\ writing' = NextIngress.name /\ rules' = NextIngress.rules
        /\ ingress_module_config' = [ingress_module_config EXCEPT ![NextIngress.name] = NextIngress.config]
        /\ UNCHANGED <<hosts, module_registry, global_module_registry>>
    BY <1>5 DEF InsertIngress, registries
  <2>2. /\ next \in DOMAIN config.ingresses /\ NextIngress = config.ingresses[next]
        /\ ms \in Nat /\ next \in Nat /\ applied' - ms = next /\ applied' = ms + next
    <3>1. next \in DOMAIN config.ingresses /\ NextIngress = config.ingresses[next]
      BY <1>5 DEF NextIngress
    <3>2. ms \in Nat /\ applied' = applied + 1 /\ applied \in Nat /\ next \in Nat
      BY <1>1, <1>2, <1>3, <3>1
    <3> HIDE DEF ms
    <3>3. applied' - ms = next /\ applied' = ms + next
      BY <3>2
    <3> QED BY <3>1, <3>2, <3>3
  <2>3. \A i \in Ingresses : ingress_module_config'[i] =
            IF i = NextIngress.name THEN NextIngress.config ELSE ingress_module_config[i]
    BY <2>1 DEF PTypes, RInv, TypeOK
  <2>4. ASSUME NEW k \in DOMAIN config.ingresses
        PROVE  /\ config.ingresses[k].name \in Ingresses
               /\ k = next => SetAt(k)'
               /\ k # next => (SetAt(k)' <=> SetAt(k))
    <3>1. config.ingresses[k].name \in Ingresses
      <4>1. config.ingresses[k] \in Serving
        BY <1>3
      <4> QED BY <4>1 DEF Serving
    <3>2. k # next => config.ingresses[k].name # NextIngress.name
      BY <1>3, <2>2
    <3> HIDE DEF next
    <3> QED BY <1>1, <2>2, <2>3, <3>1, <3>2 DEF SetAt
  <2>5. ModulesIn'
    <3>1. \A k \in DOMAIN config.modules : k <= applied
      BY <1>2, <1>3, <1>5
    <3>2. \A j \in DOMAIN config.modules : j <= applied + 1
      BY <1>2, <1>3, <3>1
    <3>3. \A k \in DOMAIN config.modules : Overridden(k) => Overridden(k)'
      BY <1>1, <3>2 DEF Overridden
    <3>4. \A m : Registered(m) => Registered(m)'
      BY <2>1 DEF Registered
    <3> QED BY <1>1, <3>1, <3>3, <3>4 DEF LoadInv, ModulesIn
  <2>6. IngressesIn'
    <3> SUFFICES ASSUME NEW k \in DOMAIN config.ingresses, applied + 1 >= ms + k
                 PROVE  /\ SetAt(k)'
                        /\ \A rule \in Elements(config.ingresses[k].rules) :
                               Served(rule, config.ingresses[k].name)' \/ Awaited(k, rule)'
      BY <1>1 DEF IngressesIn
    <3>1. CASE k = next
      BY <1>1, <2>1, <2>2, <2>4, <3>1 DEF Awaited
    <3>2. CASE k # next
      <4>1. applied >= ms + k
        BY <1>2, <1>3, <2>2, <3>2
      <4>2. /\ SetAt(k)
            /\ \A rule \in Elements(config.ingresses[k].rules) : Served(rule, config.ingresses[k].name)
        BY <1>1, <4>1 DEF LoadInv, IngressesIn, Awaited
      <4>3. \A rule, i : Served(rule, i) => Served(rule, i)'
        BY <2>1 DEF Served
      <4> QED BY <1>1, <2>4, <3>2, <4>2, <4>3
    <3> QED BY <3>1, <3>2
  <2>7. InsertsNext'
    BY <1>1, <2>1, <2>2 DEF InsertsNext
  <2>8. config = previous =>
            /\ \A k \in DOMAIN config.ingresses : SetAt(k)
            /\ ingress_module_config' = ingress_module_config
    <3> SUFFICES ASSUME config = previous
                 PROVE  /\ \A k \in DOMAIN config.ingresses : SetAt(k)
                        /\ ingress_module_config' = ingress_module_config
      OBVIOUS
    <3>1. config # Absent
      BY <1>2, FileProviderAssumption
    <3>2. \A k \in DOMAIN config.ingresses : SetAt(k)
      BY <3>1 DEF LoadInv, Remembered
    <3>3. ingress_module_config[NextIngress.name] = NextIngress.config
      BY <2>2, <3>2 DEF SetAt
    <3> QED BY <2>1, <3>2, <3>3 DEF PTypes, RInv, TypeOK
  <2>9. Remembered'
    BY <1>1, <2>4, <2>8 DEF Remembered
  <2>10. Repaired'
    <3> SUFFICES ASSUME config = previous, config.modules # <<>> PROVE AllCurrent'
      BY <1>1 DEF Repaired
    <3>1. AllCurrent
      BY <1>1, <1>5 DEF LoadInv, Repaired
    <3>2. UNCHANGED <<module_registry, global_module_registry, ingress_module_config, hosts>>
      BY <2>1, <2>8
    <3>3. \A e : ChainIsCurrent(e)' <=> ChainIsCurrent(e)
      BY <3>2 DEF ChainIsCurrent
    <3> QED BY <3>1, <3>2, <3>3 DEF AllCurrent
  <2> QED BY <2>5, <2>6, <2>7, <2>9, <2>10 DEF LoadInv
<1> QED BY <1>1, <1>2, <1>4, <1>5, PassesOn

LEMMA LoadInvStep == PTypes /\ LoadInv /\ [ProviderNext]_allVars => LoadInv'
<1> SUFFICES ASSUME PTypes, LoadInv, [ProviderNext]_allVars PROVE LoadInv'
  OBVIOUS
<1>1. CASE UNCHANGED allVars
  BY <1>1, LoadInvStays DEF allVars, provider, history
<1>2. CASE \/ \E c \in Contents \cup {Broken} : Save(c)
           \/ \E c \in Contents \cup {Missing} : Exchange(c)
           \/ Deliver
  <2>1. UNCHANGED vars /\ UNCHANGED <<pc, config, applied, previous>>
    BY <1>2 DEF Save, Exchange, Deliver, history
  <2> QED BY <2>1, LoadInvStays
<1>3. CASE Watch \/ Receive \/ Shutdown
  <2>1. /\ UNCHANGED vars /\ UNCHANGED <<config, applied, previous>>
        /\ pc # "apply" \/ pc' = pc
    BY <1>3 DEF Watch, Receive, Shutdown, history
  <2>2. pc' # "apply"
    <3>1. pc \in {"watch", "select"}
      BY <1>3 DEF Watch, Receive, Shutdown
    <3>2. pc' \in {"select", "load", "stopped"}
      BY <1>3 DEF Watch, Receive, Shutdown
    <3> QED BY <3>2
  <2>3. pc # "apply"
    BY <1>3 DEF Watch, Receive, Shutdown
  <2> QED BY <2>1, <2>2, <2>3, LoadInvStays
<1> QED BY <1>1, <1>2, <1>3, LoadInvRead, LoadInvApply, LoadInvLoaded, LoadInvRouter
        DEF ProviderNext, ProviderStep

LEMMA LoadInvAlways == ProviderSpec => []LoadInv
BY PTypesAlways, LoadInvInit, LoadInvStep, PTL DEF ProviderSpec

LoadsTakeEffect == [][Loaded => InForce(config)]_allVars

\* LoadsTakeEffect: when a load returns, all that it parsed is in force, whatever
\* was loaded before, however often, and whatever happened to the file meanwhile
\* (load_and_apply_config): every module under its last definition, every ingress
\* with its configuration and an entry for each of its rules.
THEOREM LoadsAreInForce == ProviderSpec => LoadsTakeEffect
<1>1. PTypes /\ LoadInv /\ [ProviderNext]_allVars => [Loaded => InForce(config)]_allVars
  BY LoadInvLoaded
<1> QED BY <1>1, PTypesAlways, LoadInvAlways, PTL DEF ProviderSpec, LoadsTakeEffect

\* SecondLoadRepairs: when a file that names a module was loaded twice in a row,
\* every entry of every host has the chain that is due to it, although the first
\* of the two loads leaves the entries of the ingresses that it changed behind
\* (load_and_apply_config, upsert_module, insert_ingress).
THEOREM SecondLoadsRepair == ProviderSpec => SecondLoadRepairs
<1>1. PTypes /\ LoadInv /\ [ProviderNext]_allVars
      => [Loaded /\ config = previous /\ config.modules # <<>> => AllCurrent]_allVars
  BY LoadInvLoaded
<1> QED BY <1>1, PTypesAlways, LoadInvAlways, PTL DEF ProviderSpec, SecondLoadRepairs
=============================================================================
