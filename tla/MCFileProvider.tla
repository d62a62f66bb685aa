--------------------------- MODULE MCFileProvider ---------------------------
\* An instance of FileProvider for TLC.
EXTENDS FileProvider, TLC

CONSTANTS h1, i1, i2, m1, light, heavy, b1, b2, a, slash, exacts, all

Weights == [d \in Definitions |-> IF d = heavy THEN 2 ELSE 1]
ScanOrder == <<m1>>

Exact == [exact |-> {[path |-> <<slash, a>>, backend |-> b2]},
          prefix |-> <<>>, implementation_specific |-> <<>>]
All == [exact |-> {}, prefix |-> <<[path |-> <<slash>>, backend |-> b1]>>,
        implementation_specific |-> <<>>]
Declared == (exacts :> Exact) @@ (all :> All)
Asked == {<<slash>>, <<slash, a>>}

ToExact == <<[host |-> h1, paths |-> exacts]>>
ToAll == <<[host |-> h1, paths |-> all]>>
Listed == {ToExact, ToAll}

NoModules == [modules |-> <<>>, excluded |-> {}]
NamesOne == [modules |-> <<m1>>, excluded |-> {}]
Configs == {NoModules, NamesOne}

\* A module and an ingress that begins to name it; the module made global and
\* redefined; an ingress alone.
Files == {
    [modules |-> <<[name |-> m1, global |-> FALSE, def |-> light]>>,
     ingresses |-> <<[name |-> i1, rules |-> ToExact, config |-> NoModules]>>],
    [modules |-> <<[name |-> m1, global |-> FALSE, def |-> heavy]>>,
     ingresses |-> <<[name |-> i1, rules |-> ToAll, config |-> NamesOne]>>],
    [modules |-> <<[name |-> m1, global |-> TRUE, def |-> light]>>,
     ingresses |-> <<[name |-> i2, rules |-> ToAll, config |-> NoModules],
                     [name |-> i1, rules |-> ToExact, config |-> NamesOne]>>],
    [modules |-> <<>>,
     ingresses |-> <<[name |-> i2, rules |-> ToAll, config |-> NoModules]>>]}
=============================================================================
