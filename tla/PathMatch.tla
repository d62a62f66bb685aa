------------------------------ MODULE PathMatch ------------------------------
(***************************************************************************)
(* The paths of a host and the search among them (routing/hosts.rs), with  *)
(* the normalisation of the request path that find_route does first.       *)
(* A path is a sequence of characters; only the slash is told apart.       *)
(***************************************************************************)
EXTENDS Integers, Sequences, SequencesExt

CONSTANTS
    Slash,          \* the character that ends a segment
    Characters,     \* all characters
    Backends,       \* ServiceBackendType
    NoBackend       \* find returns None

ASSUME PathMatchAssumption ==
    /\ Slash \in Characters
    /\ NoBackend \notin Backends

Path == Seq(Characters)
Root == <<Slash>>
PathBackend == [path : Path, backend : Backends]

\* exact is a map and as such without order: no path twice.
HostPaths ==
    {p \in [exact : SUBSET PathBackend,
            prefix : Seq(PathBackend),
            implementation_specific : Seq(PathBackend)] :
        \A a, b \in p.exact : a.path = b.path => a = b}

-----------------------------------------------------------------------------

Earliest(positions) == CHOOSE n \in positions : \A m \in positions : n <= m
Latest(positions) == CHOOSE n \in positions : \A m \in positions : m <= n

\* trim_end_matches on a path of more than one character: all its slashes at
\* the end, so that only slashes leave an empty path.
Normalised(path) ==
    LET kept == {n \in DOMAIN path : path[n] # Slash}
    IN  IF Len(path) <= 1 THEN path
        ELSE IF kept = {} THEN <<>> ELSE SubSeq(path, 1, Latest(kept))

\* Mutant: starts_with without the look at the next character.
PathPrefixMatchAnywhere(prefix, path) == prefix = Root \/ IsPrefix(prefix, path)

PathPrefixMatch(prefix, path) ==
    \/ prefix = Root
    \/ path = prefix
    \/ /\ IsStrictPrefix(prefix, path)
       /\ path[Len(prefix) + 1] = Slash

\* The backend of the first of the rules that match, if there is one.
FirstMatch(rules, matching) ==
    IF matching = {} THEN NoBackend
    ELSE rules[Earliest(matching)].backend

Find(paths, path) ==
    LET exact == {e \in paths.exact : e.path = path}
        below == {n \in DOMAIN paths.prefix : PathPrefixMatch(paths.prefix[n].path, path)}
        starting == {n \in DOMAIN paths.implementation_specific :
                        IsPrefix(paths.implementation_specific[n].path, path)}
        prefix == FirstMatch(paths.prefix, below)
    IN  IF exact # {} THEN (CHOOSE e \in exact : TRUE).backend
        ELSE IF prefix # NoBackend THEN prefix
        ELSE FirstMatch(paths.implementation_specific, starting)

-----------------------------------------------------------------------------
(* What find should find, told by the ancestors of a path: what is left of   *)
(* it when it is cut before a slash.                                       *)

Ancestors(path) ==
    {SubSeq(path, 1, n) : n \in {m \in 0..Len(path) : m = Len(path) \/ path[m + 1] = Slash}}

\* A prefix rule stands for whole segments.
Below(prefix, path) == prefix \in Ancestors(path) \cup {Root}

\* The rules that may answer, best kind first, by order within a kind.
Ranked(paths, path) ==
    {<<1, 1, rule.backend>> : rule \in {e \in paths.exact : e.path = path}}
    \cup {<<2, n, paths.prefix[n].backend>> :
             n \in {m \in DOMAIN paths.prefix : Below(paths.prefix[m].path, path)}}
    \cup {<<3, n, paths.implementation_specific[n].backend>> :
             n \in {m \in DOMAIN paths.implementation_specific :
                       IsPrefix(paths.implementation_specific[m].path, path)}}

\* The backend a host with these paths owes the request.
Owed(paths, path) ==
    LET ranked == Ranked(paths, path)
        best == CHOOSE r \in ranked :
                    \A s \in ranked : r[1] < s[1] \/ (r[1] = s[1] /\ r[2] <= s[2])
    IN  IF ranked = {} THEN NoBackend ELSE best[3]

=============================================================================
