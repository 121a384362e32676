------------------------------ MODULE MCMemory ------------------------------
(* Connections of two sessions over one small file. *)
EXTENDS Memory, TLC

Symmetry == Permutations(Conns) \cup Permutations(Keys) \cup Permutations(Sessions)

Versions == {db} \cup {view[c] : c \in Conns}

\* A bound on messages is exceeded with one row more than the rest needs; the last row is
\* inserted only while there are no facts.
LastRowAlone ==
    (\E f \in Versions : f.last = MaxId) =>
        \A f \in Versions, s \in Sessions : Present(f, s) = {}
=============================================================================
