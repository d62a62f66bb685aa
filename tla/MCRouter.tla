------------------------------ MODULE MCRouter ------------------------------
\* Instances of Router for TLC.
EXTENDS Router, TLC

CONSTANTS h1, h2, i1, i2, m1, m2, light, heavy, b1, b2, a, b, slash, exacts, mixed

Weights == [d \in Definitions |-> IF d = heavy THEN 2 ELSE 1]
ScanOrder == IF m2 \in Modules THEN <<m2, m1>> ELSE <<m1>>

To(p, to) == [path |-> p, backend |-> to]
On(h, p) == [host |-> h, paths |-> p]

\* "/" and "/a" exactly; below "/a", below "/a/" and otherwise from "/ab" on.
Exact == [exact |-> {To(<<slash>>, b1), To(<<slash, a>>, b2)},
          prefix |-> <<>>, implementation_specific |-> <<>>]
Mixed == [exact |-> {}, prefix |-> <<To(<<slash, a>>, b1), To(<<slash, a, slash>>, b2)>>,
          implementation_specific |-> <<To(<<slash, a, b>>, b2), To(<<slash>>, b1)>>]
Declared == (exacts :> Exact) @@ (mixed :> Mixed)

\* One host; two hosts, published one after the other.
TwoRules == {<<On(h1, exacts)>>, <<On(h1, mixed), On(h2, mixed)>>}

\* "/", "//", "/a", "/a/", "/ab", "/a/b"
Asked == {<<slash>>, <<slash, slash>>, <<slash, a>>, <<slash, a, slash>>,
          <<slash, a, b>>, <<slash, a, slash, b>>}
AskedFew == {<<slash, a>>, <<slash, b>>}

NoModules == [modules |-> <<>>, excluded |-> {}]
Names == [modules |-> <<m1, m2>>, excluded |-> {}]
NamesOne == [modules |-> <<m1>>, excluded |-> {}]
Excludes == [modules |-> <<>>, excluded |-> {m1}]

AllConfigs == {Names, Excludes}
FewConfigs == {NoModules, NamesOne}
=============================================================================
