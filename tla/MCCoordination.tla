---- MODULE MCCoordination ----
(***************************************************************************)
(* Small instances of Coordination.                                        *)
(***************************************************************************)
EXTENDS Coordination, TLC

\* Claimants are interchangeable.
Interchangeable == Permutations(Agent)

\* Once a client stopped waiting, three messages in all.
FewAfterGiveUp == gaveUp # {} => lastTseq + Cardinality(flight) <= 3

====
