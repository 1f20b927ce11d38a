---------------------------- MODULE MCPublication ----------------------------
(***************************************************************************)
(* Publication on a small instance.                                        *)
(***************************************************************************)
EXTENDS Publication, TLC

Symmetry == Permutations(Worker) \cup Permutations(Part)

\* A bound: once two of the three workers share a run, no lease lapses and no
\* worker dies any more.
CalmAfterClash ==
    clashed # {} =>
        (owner = NoOne \/ live) /\ \A w \in Worker : pc[w] # "dead"
=============================================================================
