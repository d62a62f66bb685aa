------------------------------- MODULE Router -------------------------------
(***************************************************************************)
(* The routing tables (routing/router.rs): per host the list of entries    *)
(* that the ingresses have added, the two registries of modules and the    *)
(* modules each ingress asks for.                                          *)
(*                                                                         *)
(* The configuration provider is the only writer: its service has one      *)
(* thread and no operation of the router awaits, so operations never       *)
(* overlap.  The requests read from other threads, and an operation that   *)
(* changes several hosts publishes them one by one: a request may be       *)
(* routed between any two steps.                                           *)
(***************************************************************************)
EXTENDS PathMatch

CONSTANTS
    Hosts,          \* host names
    Ingresses,      \* ingress names
    Modules,        \* names of module configurations
    Definitions,    \* ModuleInnerConfig: a type and its configuration
    Weight,         \* get_weight() of the type of a definition
    HashOrder,      \* the order in which a scan of a registry meets the names
    RequestPaths,   \* paths a request may ask for
    DeclaredPaths,  \* the HostPaths that providers have built, by reference
    PathsOf,        \* what each of them holds
    Rules,          \* the lists of [host, paths] a provider may pass
    IngressConfigs, \* the IngressModuleConfig values a provider may pass
    MaxEntries,     \* bound: entries of a host
    Absent          \* no value in a map

ASSUME RouterAssumption ==
    /\ Weight \in [Definitions -> Nat]
    /\ HashOrder \in Seq(Modules)
    /\ \A m \in Modules : \E n \in 1..Len(HashOrder) : HashOrder[n] = m
    /\ RequestPaths \subseteq Path
    /\ PathsOf \in [DeclaredPaths -> HostPaths]
    /\ Rules \subseteq Seq([host : Hosts, paths : DeclaredPaths])
    /\ IngressConfigs \subseteq [modules : Seq(Modules), excluded : SUBSET Modules]
    /\ MaxEntries \in Nat
    /\ Absent \notin Definitions \cup IngressConfigs \cup Ingresses

VARIABLES
    hosts,                   \* host -> Host::entries; <<>> stands for no such key
    module_registry,         \* name -> definition or Absent
    global_module_registry,  \* name -> definition or Absent
    ingress_module_config,   \* ingress -> IngressModuleConfig or Absent
    writer,                  \* the operation the provider is in
    writing,                 \* the ingress it inserts or deletes, or Absent
    rules,                   \* insert_ingress: the rules still to publish
    host_keys                \* delete and reload: the hosts still to visit

registries == <<module_registry, global_module_registry>>
vars == <<hosts, registries, ingress_module_config, writer, writing, rules, host_keys>>

MergedModule == [name : Modules, def : Definitions]
HostEntry == [ingress : Ingresses, merged_modules : Seq(MergedModule), paths : DeclaredPaths]

TypeOK ==
    /\ hosts \in [Hosts -> Seq(HostEntry)]
    /\ module_registry \in [Modules -> Definitions \cup {Absent}]
    /\ global_module_registry \in [Modules -> Definitions \cup {Absent}]
    /\ ingress_module_config \in [Ingresses -> IngressConfigs \cup {Absent}]
    /\ writer \in {"idle", "inserting", "deleting", "reloading"}
    /\ writing \in Ingresses \cup {Absent}
    /\ rules \in Seq([host : Hosts, paths : DeclaredPaths])
    /\ host_keys \in SUBSET Hosts
    /\ (writer \in {"inserting", "deleting"}) <=> (writing # Absent)
    /\ rules # <<>> => writer = "inserting"
    /\ host_keys # {} => writer \in {"deleting", "reloading"}
    /\ \A h \in Hosts : Len(hosts[h]) <= MaxEntries

Init ==
    /\ hosts = [h \in Hosts |-> <<>>]
    /\ module_registry = [m \in Modules |-> Absent]
    /\ global_module_registry = [m \in Modules |-> Absent]
    /\ ingress_module_config = [i \in Ingresses |-> Absent]
    /\ writer = "idle"
    /\ writing = Absent
    /\ rules = <<>>
    /\ host_keys = {}

-----------------------------------------------------------------------------
(* The chain of modules of an ingress.                                     *)

Elements(s) == {s[n] : n \in DOMAIN s}

\* sort_by on the weights, the heaviest first; the sort is stable.
Precedes(s, i, j) ==
    \/ Weight[s[i].def] > Weight[s[j].def]
    \/ Weight[s[i].def] = Weight[s[j].def] /\ i < j

ByWeight(s) ==
    [n \in DOMAIN s |->
        s[CHOOSE i \in DOMAIN s :
            Cardinality({j \in DOMAIN s : Precedes(s, j, i)}) = n - 1]]

\* What s holds at these positions, in the order of s.
Only(s, positions) ==
    [k \in 1..Cardinality(positions) |->
        s[CHOOSE n \in positions : Cardinality({m \in positions : m < n}) = k - 1]]

\* The names that registry defines, each with its definition.
Defined(names, registry) ==
    LET known == Only(names, {n \in DOMAIN names : registry[names[n]] # Absent})
    IN  [n \in DOMAIN known |-> [name |-> known[n], def |-> registry[known[n]]]]

GlobalModules == ByWeight(Defined(HashOrder, global_module_registry))

\* Mutant: excluded_modules is not looked at.
MergeAll(config) ==
    LET kept == {n \in DOMAIN GlobalModules :
                    GlobalModules[n].name \notin Elements(config.modules)}
    IN  ByWeight(Only(GlobalModules, kept) \o Defined(config.modules, module_registry))

\* The global modules the ingress neither excludes nor names itself, then
\* those it names, if module_registry has them.
Merge(config) ==
    LET kept == {n \in DOMAIN GlobalModules :
                    GlobalModules[n].name \notin config.excluded \cup Elements(config.modules)}
    IN  ByWeight(Only(GlobalModules, kept) \o Defined(config.modules, module_registry))

\* An ingress without configuration gets the global modules.
MergedModules(i) ==
    IF ingress_module_config[i] = Absent
    THEN GlobalModules
    ELSE Merge(ingress_module_config[i])

KnownHosts == {h \in Hosts : hosts[h] # <<>>}

-----------------------------------------------------------------------------
(* upsert_module and delete_module_config: both reload every ingress.      *)

StartReload ==
    /\ writer' = "reloading"
    /\ host_keys' = KnownHosts
    /\ UNCHANGED <<hosts, ingress_module_config, writing, rules>>

\* A module whose "global" flag changes is not taken out of the registry it
\* was in.
UpsertModule(m, global, def) ==
    /\ writer = "idle"
    /\ IF global
       THEN /\ global_module_registry' = [global_module_registry EXCEPT ![m] = def]
            /\ UNCHANGED module_registry
       ELSE /\ module_registry' = [module_registry EXCEPT ![m] = def]
            /\ UNCHANGED global_module_registry
    /\ StartReload

DeleteModuleConfig(m) ==
    /\ writer = "idle"
    /\ module_registry' = [module_registry EXCEPT ![m] = Absent]
    /\ global_module_registry' = [global_module_registry EXCEPT ![m] = Absent]
    /\ StartReload

\* Mutant: only the entry that is matched first is rebuilt.
ReloadFirst(entries) ==
    [n \in DOMAIN entries |->
        IF n = 1
        THEN [entries[n] EXCEPT !.merged_modules = MergedModules(entries[n].ingress)]
        ELSE entries[n]]

\* Every entry of the host is rebuilt with the chain of its ingress.
Reload(entries) ==
    [n \in DOMAIN entries |->
        [entries[n] EXCEPT !.merged_modules = MergedModules(entries[n].ingress)]]

ReloadHost(h) ==
    /\ writer = "reloading"
    /\ h \in host_keys
    /\ hosts' = [hosts EXCEPT ![h] = Reload(@)]
    /\ host_keys' = host_keys \ {h}
    /\ UNCHANGED <<registries, ingress_module_config, writer, writing, rules>>

-----------------------------------------------------------------------------
(* insert_ingress: an entry is appended for every rule, also when the      *)
(* ingress already has entries there.                                      *)

InsertIngress(i, list, config) ==
    /\ writer = "idle"
    /\ \A h \in Hosts :
        Len(hosts[h]) + Cardinality({n \in DOMAIN list : list[n].host = h}) <= MaxEntries
    /\ ingress_module_config' = [ingress_module_config EXCEPT ![i] = config]
    /\ writer' = "inserting"
    /\ writing' = i
    /\ rules' = list
    /\ UNCHANGED <<hosts, registries, host_keys>>

\* Mutant: the newest entry is matched first.
Prepend(entries, entry) == <<entry>> \o entries

Push(entries, entry) == Append(entries, entry)

InsertHost ==
    /\ writer = "inserting"
    /\ rules # <<>>
    /\ LET rule == Head(rules)
           entry == [ingress |-> writing,
                     merged_modules |-> MergedModules(writing),
                     paths |-> rule.paths]
       IN  hosts' = [hosts EXCEPT ![rule.host] = Push(@, entry)]
    /\ rules' = Tail(rules)
    /\ UNCHANGED <<registries, ingress_module_config, writer, writing, host_keys>>

-----------------------------------------------------------------------------
(* delete_ingress.                                                         *)

DeleteIngress(i) ==
    /\ writer = "idle"
    /\ ingress_module_config' = [ingress_module_config EXCEPT ![i] = Absent]
    /\ writer' = "deleting"
    /\ writing' = i
    /\ host_keys' = KnownHosts
    /\ UNCHANGED <<hosts, registries, rules>>

\* Mutant: only the first entry of the ingress is taken out.
WithoutFirstOf(entries, i) ==
    LET mine == {n \in DOMAIN entries : entries[n].ingress = i}
        first == Earliest(mine)
    IN  IF mine = {} THEN entries
        ELSE SubSeq(entries, 1, first - 1) \o SubSeq(entries, first + 1, Len(entries))

Without(entries, i) == Only(entries, {n \in DOMAIN entries : entries[n].ingress # i})

DeleteFromHost(h) ==
    /\ writer = "deleting"
    /\ h \in host_keys
    /\ hosts' = [hosts EXCEPT ![h] = Without(@, writing)]
    /\ host_keys' = host_keys \ {h}
    /\ UNCHANGED <<registries, ingress_module_config, writer, writing, rules>>

\* Mutant: the loop over the hosts returns where it should continue.
LoopReturns == rules = <<>>

LoopEnds == rules = <<>> /\ host_keys = {}

\* The operation returns to the provider.
Finish ==
    /\ writer # "idle"
    /\ LoopEnds
    /\ writer' = "idle"
    /\ writing' = Absent
    /\ UNCHANGED <<hosts, registries, ingress_module_config, rules, host_keys>>

WriterStep ==
    \/ InsertHost
    \/ \E h \in Hosts : ReloadHost(h) \/ DeleteFromHost(h)
    \/ Finish

Next ==
    \/ \E m \in Modules, global \in BOOLEAN, d \in Definitions : UpsertModule(m, global, d)
    \/ \E m \in Modules : DeleteModuleConfig(m)
    \/ \E i \in Ingresses, list \in Rules, c \in IngressConfigs : InsertIngress(i, list, c)
    \/ \E i \in Ingresses : DeleteIngress(i)
    \/ WriterStep

Spec == Init /\ [][Next]_vars

-----------------------------------------------------------------------------
(* find_route, as a request evaluates it in one read of the host.          *)

\* What each HostPaths answers to each request path.
Finds ==
    [paths \in DeclaredPaths |-> [p \in RequestPaths |-> Find(PathsOf[paths], Normalised(p))]]

BackendOf(paths, p) == Finds[paths][p]

Matching(entries, p) == {n \in DOMAIN entries : BackendOf(entries[n].paths, p) # NoBackend}

\* What a request gets besides the modules from a host with these entries:
\* the first that matches answers.
AnswerOf(entries, p) ==
    LET matching == Matching(entries, p)
        route == entries[Earliest(matching)]
    IN  IF matching = {} THEN Absent
        ELSE <<route.ingress, BackendOf(route.paths, p)>>

Answer(h, p) == AnswerOf(hosts[h], p)

-----------------------------------------------------------------------------
(* Properties.                                                             *)

\* No request is routed by an ingress that is gone: an entry belongs to an
\* ingress that is configured, or to the one delete_ingress is taking out of
\* hosts it has not visited yet.  It is about delete_ingress against an
\* insert_ingress that has run more than once for the same ingress.
NoOrphanRoutes ==
    \A h \in Hosts : \A e \in Elements(hosts[h]) :
        \/ ingress_module_config[e.ingress] # Absent
        \/ writer = "deleting" /\ writing = e.ingress /\ h \in host_keys

Debts ==
    [paths \in DeclaredPaths |-> [p \in RequestPaths |-> Owed(PathsOf[paths], Normalised(p))]]

Owing(entries, p) == {n \in DOMAIN entries : Debts[entries[n].paths][p] # NoBackend}

\* The paths whose answer a slash at the end may not change.
Slashable == {p \in RequestPaths :
    Append(p, Slash) \in RequestPaths /\ p # Root /\ Normalised(p) # <<>>}

\* A request is answered as its path deserves, told by segments and ranks
\* instead of characters and loops: the first entry with a rule for it, there
\* an exact rule before a prefix before the others, and among these the one
\* declared first.  With or without slashes at its end, a path gets the same
\* answer, unless it is all slashes.  It is about find_route and
\* HostPaths::find over what insertions and deletions leave of a host.
AnswersAreOwed ==
    \A h \in Hosts, p \in RequestPaths :
        LET answer == Answer(h, p)
            owing == Owing(hosts[h], p)
            first == Earliest(owing)
        IN  /\ answer = IF owing = {} THEN Absent
                        ELSE <<hosts[h][first].ingress, Debts[hosts[h][first].paths][p]>>
            /\ p \in Slashable => answer = Answer(h, Append(p, Slash))

\* Nobody but the ingress concerned sees an operation: the answer to a request
\* changes only where there was none, by inserting an ingress, or where the
\* ingress that gave it is being deleted.  In particular the reload that
\* follows every module change never makes a host unreachable or sends a
\* request elsewhere, although it rewrites every host.
RoutesChangeOnPurpose ==
    [][\A h \in Hosts, p \in RequestPaths :
          hosts[h]' # hosts[h] =>
              LET old == Answer(h, p)
                  new == AnswerOf(hosts'[h], p)
              IN  \/ new = old
                  \/ writer = "inserting" /\ old = Absent /\ new[1] = writing
                  \/ writer = "deleting" /\ old[1] = writing]_vars

\* The chain an entry should carry, told without the code's way of building
\* it: which modules, from which registry, in which order of weight,
\* and of equal weight in the order in which the ingress names them.  The
\* documentation gives the second order alone: "called in order that they're
\* defined in the configuration file", `a->b->c->backend` (proxy/mod.rs 8-10).
ChainIsCurrent(e) ==
    LET config == ingress_module_config[e.ingress]
        own == IF config = Absent THEN {} ELSE Elements(config.modules)
        excluded == IF config = Absent THEN {} ELSE config.excluded
        chain == e.merged_modules
    IN  /\ {m.name : m \in Elements(chain)} =
               {m \in own : module_registry[m] # Absent}
               \cup {m \in Modules \ (own \cup excluded) : global_module_registry[m] # Absent}
        /\ \A m \in Elements(chain) :
               m.def = IF m.name \in own THEN module_registry[m.name]
                       ELSE global_module_registry[m.name]
        /\ \A n, m \in DOMAIN chain : n < m => Weight[chain[n].def] >= Weight[chain[m].def]
        /\ config # Absent =>
            \A n, m \in DOMAIN config.modules :
                LET first == module_registry[config.modules[n]]
                    second == module_registry[config.modules[m]]
                IN  (/\ n < m /\ first # Absent /\ second # Absent
                     /\ Weight[first] = Weight[second])
                    => \E x, y \in DOMAIN chain :
                          /\ x < y
                          /\ chain[x].name = config.modules[n]
                          /\ chain[y].name = config.modules[m]

AllCurrent == \A h \in Hosts : \A e \in Elements(hosts[h]) : ChainIsCurrent(e)

\* When upsert_module or delete_module_config returns, every entry of every
\* host carries the chain of its ingress for the registries as they are now.
ReloadIsComplete ==
    [][writer = "reloading" /\ writer' = "idle" => AllCurrent']_vars

\* Violated.  "Config reloaded successfully" (the file provider), "YAML file
\* watching" (README): a host that only this ingress serves answers with the
\* paths insert_ingress was last called with, where they match.
UpdateTakesEffect ==
    [][writer = "inserting" /\ rules # <<>> =>
          \A h \in Hosts, p \in RequestPaths :
              LET rule == Head(rules)
                  alone == \A e \in Elements(hosts[h]) : e.ingress = writing
              IN  h = rule.host /\ alone /\ BackendOf(rule.paths, p) # NoBackend
                  => AnswerOf(hosts'[h], p) = <<writing, BackendOf(rule.paths, p)>>]_vars

=============================================================================
