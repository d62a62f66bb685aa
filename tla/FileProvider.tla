---------------------------- MODULE FileProvider ----------------------------
(***************************************************************************)
(* The file configuration provider (ksbh-config-providers/file): it loads  *)
(* the file once, then starts to watch it, and loads it again at every     *)
(* event that tells of a change.  A load reads and parses the whole file,  *)
(* then calls the router for every module and every ingress of it.         *)
(*                                                                         *)
(* The file is changed from outside: written in place, in as many writes   *)
(* as the editor likes, or exchanged for another file of the same name.    *)
(* The watch is on the file, not on the name.                              *)
(***************************************************************************)
EXTENDS Router

CONSTANTS
    Contents,       \* Config: what the file may hold
    Broken,         \* the file holds something that is not a Config
    Missing,        \* there is no such file
    Capacity,       \* of the channel of events
    MaxChanges      \* bound: changes of the file

\* An ingress is named once in a file.
ASSUME FileProviderAssumption ==
    /\ \A c \in Contents :
        /\ DOMAIN c = {"modules", "ingresses"}
        /\ c.modules \in Seq([name : Modules, global : BOOLEAN, def : Definitions])
        /\ c.ingresses \in Seq([name : Ingresses, rules : Rules, config : IngressConfigs])
        /\ \A n, m \in DOMAIN c.ingresses : c.ingresses[n].name = c.ingresses[m].name => n = m
    /\ Broken \notin Contents /\ Missing \notin Contents /\ Broken # Missing
    /\ Absent \notin Contents
    /\ Capacity \in Nat \ {0}
    /\ MaxChanges \in Nat

VARIABLES
    file,       \* what is on the disk
    changes,    \* how often it changed
    watch,      \* of the file: not yet on, on, or lost with the file
    raised,     \* events that wait in the watcher's thread
    rx,         \* the channel of events
    pc,         \* where the provider is
    config,     \* load_and_apply_config: what it parsed
    applied,    \* modules and ingresses of config it has passed on
    previous,   \* history: what the last load before that parsed
    unheard     \* history: no load was or will be after the last change

provider == <<watch, raised, rx, pc, config, applied>>
history == <<previous, unheard>>
allVars == <<vars, file, changes, provider, history>>

ProviderTypeOK ==
    /\ TypeOK
    /\ file \in Contents \cup {Broken, Missing}
    /\ changes \in 0..MaxChanges
    /\ watch \in {"none", "on", "lost"}
    /\ raised \in Seq({"modify", "remove"})
    /\ rx \in Seq({"modify", "remove"})
    /\ Len(rx) <= Capacity
    /\ pc \in {"load", "apply", "watch", "select", "stopped"}
    /\ config \in Contents \cup {Absent}
    /\ previous \in Contents \cup {Absent}
    /\ unheard \in BOOLEAN
    /\ pc = "apply" => config # Absent /\ applied <= Len(config.modules) + Len(config.ingresses)
    /\ writer # "idle" => pc = "apply"
    /\ pc \in {"load", "apply"} /\ watch = "none" => rx = <<>>

ProviderInit ==
    /\ Init
    /\ file \in Contents \cup {Broken, Missing}
    /\ changes = 0
    /\ watch = "none"
    /\ raised = <<>>
    /\ rx = <<>>
    /\ pc = "load"
    /\ config = Absent
    /\ applied = 0
    /\ previous = Absent
    /\ unheard = FALSE

-----------------------------------------------------------------------------
(* The file and its watch.                                                 *)

Change(content) ==
    /\ changes < MaxChanges
    /\ file' = content
    /\ changes' = changes + 1

\* Written in place.
Save(content) ==
    /\ file # Missing
    /\ Change(content)
    /\ raised' = IF watch = "on" THEN Append(raised, "modify") ELSE raised
    /\ unheard' = (watch # "on")
    /\ UNCHANGED <<vars, watch, rx, pc, config, applied, previous>>

\* Exchanged or deleted: the watched file loses its name, which is told with
\* an event of one kind or the other, and is not watched any more.
Exchange(content) ==
    /\ Change(content)
    /\ IF watch = "on"
       THEN /\ watch' = "lost"
            /\ \E kind \in {"modify", "remove"} :
                /\ raised' = Append(raised, kind)
                /\ unheard' = (kind # "modify")
       ELSE unheard' = TRUE /\ UNCHANGED <<watch, raised>>
    /\ UNCHANGED <<vars, rx, pc, config, applied, previous>>

\* Mutant: a channel without bound.
SendUnbounded == rx' = Append(rx, Head(raised))

\* blocking_send.
Send ==
    /\ Len(rx) < Capacity
    /\ rx' = Append(rx, Head(raised))

\* The thread of the watcher passes on one event after the other.
Deliver ==
    /\ raised # <<>>
    /\ Send
    /\ raised' = Tail(raised)
    /\ UNCHANGED <<vars, file, changes, watch, pc, config, applied, history>>

-----------------------------------------------------------------------------
(* load_and_apply_config.                                                  *)

AfterLoad == IF watch = "none" THEN "watch" ELSE "select"

\* A file that cannot be read or parsed leaves everything as it is.
Read ==
    /\ pc = "load"
    /\ unheard' = FALSE
    /\ IF file \in Contents
       THEN /\ config' = file
            /\ previous' = config
            /\ applied' = 0
            /\ pc' = "apply"
       ELSE /\ pc' = AfterLoad
            /\ UNCHANGED <<config, previous, applied>>
    /\ UNCHANGED <<vars, file, changes, watch, raised, rx>>

\* All modules, then all ingresses, in the order of the file.
PassOn(content) ==
    IF applied < Len(content.modules)
    THEN LET m == content.modules[applied + 1]
         IN  UpsertModule(m.name, m.global, m.def)
    ELSE LET i == content.ingresses[applied + 1 - Len(content.modules)]
         IN  InsertIngress(i.name, i.rules, i.config)

Apply ==
    /\ pc = "apply"
    /\ writer = "idle"
    /\ applied < Len(config.modules) + Len(config.ingresses)
    /\ PassOn(config)
    /\ applied' = applied + 1
    /\ UNCHANGED <<file, changes, watch, raised, rx, pc, config, history>>

\* Mutant: the events that came during the load are taken for its own.
LoadedAndDrained ==
    /\ pc = "apply"
    /\ writer = "idle"
    /\ applied = Len(config.modules) + Len(config.ingresses)
    /\ pc' = AfterLoad
    /\ rx' = <<>>
    /\ UNCHANGED <<vars, file, changes, watch, raised, config, applied, history>>

Loaded ==
    /\ pc = "apply"
    /\ writer = "idle"
    /\ applied = Len(config.modules) + Len(config.ingresses)
    /\ pc' = AfterLoad
    /\ UNCHANGED <<vars, file, changes, watch, raised, rx, config, applied, history>>

-----------------------------------------------------------------------------
(* watch_config_file.                                                      *)

\* A file that is not there cannot be watched; the watcher may fail otherwise.
Watch ==
    /\ pc = "watch"
    /\ \/ file # Missing /\ watch' = "on" /\ pc' = "select"
       \/ pc' = "stopped" /\ UNCHANGED watch
    /\ UNCHANGED <<vars, file, changes, raised, rx, config, applied, history>>

\* Modify(_) and Create(_): of the events of one file, those of its changes.
Reloading == {"modify"}

Receive ==
    /\ pc = "select"
    /\ rx # <<>>
    /\ rx' = Tail(rx)
    /\ pc' = IF Head(rx) \in Reloading THEN "load" ELSE "select"
    /\ UNCHANGED <<vars, file, changes, watch, raised, config, applied, history>>

Shutdown ==
    /\ pc = "select"
    /\ pc' = "stopped"
    /\ UNCHANGED <<vars, file, changes, watch, raised, rx, config, applied, history>>

RouterStep ==
    /\ WriterStep
    /\ UNCHANGED <<file, changes, provider, history>>

ProviderStep == Read \/ Apply \/ Loaded \/ Watch \/ Receive \/ RouterStep

ProviderNext ==
    \/ \E c \in Contents \cup {Broken} : Save(c)
    \/ \E c \in Contents \cup {Missing} : Exchange(c)
    \/ Deliver
    \/ ProviderStep
    \/ Shutdown

\* The service and the watcher have threads of their own; nobody has to change
\* the file or to stop the service.
ProviderSpec ==
    /\ ProviderInit /\ [][ProviderNext]_allVars
    /\ WF_allVars(ProviderStep)
    /\ WF_allVars(Deliver)

-----------------------------------------------------------------------------
(* Properties.                                                             *)

\* A module's definition reached the registry it belongs to, a rule its host.
InForce(content) ==
    /\ \A n \in DOMAIN content.modules :
        LET m == content.modules[n]
        IN  \/ (IF m.global THEN global_module_registry ELSE module_registry)[m.name] = m.def
            \/ \E k \in DOMAIN content.modules :
                   k > n /\ content.modules[k].name = m.name /\ content.modules[k].global = m.global
    /\ \A i \in Elements(content.ingresses) :
        /\ ingress_module_config[i.name] = i.config
        /\ \A rule \in Elements(i.rules) : \E e \in Elements(hosts[rule.host]) :
               e.ingress = i.name /\ e.paths = rule.paths

\* "YAML file watching" (README): what the file holds comes into force, unless
\* the provider stopped, or the change was made where no event tells of it:
\* between the first load and the start of the watch, or after the file was
\* exchanged.  It is about events that pile up while a load runs, files that
\* are read half written, and loads that fail.
FileComesIntoForce ==
    []<>(\/ pc = "stopped"
         \/ unheard
         \/ file \notin Contents
         \/ InForce(file))

\* An entry of an ingress that changed its modules keeps its old chain through
\* the load that changed them, because the modules are passed on first.  A
\* second load of the same file makes it current, if the file names a module.
SecondLoadRepairs ==
    [][Loaded /\ config = previous /\ config.modules # <<>> => AllCurrent]_allVars
=============================================================================
