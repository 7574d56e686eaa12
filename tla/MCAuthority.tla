---- MODULE MCAuthority ----
(***************************************************************************)
(* A small instance of Authority.                                          *)
(***************************************************************************)
EXTENDS Authority, TLC

\* Processes and key pairs are interchangeable.
Symmetric == Permutations(Proc) \cup Permutations(Pair)

\* The last command only while the thread is almost empty, where it is about
\* keys and profiles.
LongOnlyWhenQuiet == commands = MaxCommands => Len(thread) <= 1 /\ gone = {} /\ clock = 0

====
