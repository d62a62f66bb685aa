---------------------------- MODULE MCStaticFiles ----------------------------
\* Instances of StaticFiles for TLC.
EXTENDS StaticFiles, TLC

\* Replaced by a shorter version and then by a longer one; the first and the last
\* were written within one second.
MCLength == <<3, 1, 3>>
MCTag == <<"a", "b", "a">>

\* Within every version, within the longer ones, one past their end.
MCRanges == {<<0, 0>>, <<1, 2>>, <<2, 3>>, None}

Symmetry == Permutations(Requests)

=============================================================================
