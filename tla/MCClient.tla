---- MODULE MCClient ----
(***************************************************************************)
(* The instance of Client that TLC checks: the peers and the processes are *)
(* interchangeable.                                                        *)
(***************************************************************************)
EXTENDS Client, TLC

Symmetry == Permutations(Peer) \cup Permutations(Proc)

====
