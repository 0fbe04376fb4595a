----------------------------- MODULE MCBuildOrder -----------------------------
(* All graphs on four packages in which only the second may depend on itself. *)
EXTENDS BuildOrder

MCQ == 1..4
MCGraphs == {g \in [MCQ -> SUBSET MCQ] : \A n \in MCQ : n \in g[n] => n = 2}
MCSeedSets == {{}, {1}, {2, 4}, MCQ}
\* A permutation; a name dropped, repeated, replaced by a foreign one.
MCSorterLines == {<<2, 1, 4, 3>>, <<1, 2, 3>>, <<1, 2, 3, 4, 4>>, <<1, 2, 3, 9>>}
=============================================================================
