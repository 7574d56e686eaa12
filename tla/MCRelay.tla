---- MODULE MCRelay ----
(***************************************************************************)
(* Small instances of Relay.  Three addresses and one contested anchor:    *)
(* ann starts it and writes to bob, bob answers ann, and eve, whom nobody  *)
(* addressed, starts the same anchor and writes to bob.                    *)
(***************************************************************************)
EXTENDS Relay, TLC

CONSTANTS ann, bob, eve, hello, answer, intrude, lunch, k1

MCEnvFrom == [e \in Env |-> CASE e = answer -> bob [] e = intrude -> eve [] OTHER -> ann]
MCEnvTo == [e \in Env |-> IF e = answer THEN {ann} ELSE {bob}]

\* Every envelope but lunch is in the one thread.
MCEnvAbout == [e \in Env |-> IF e = lunch THEN "lunch" ELSE "plan"]

\* One key: a profile authorises it, or has none (deactivated, transferred).
MCEnvKey == [e \in Env |-> k1]

\* Two snapshots, around the default of two days: one gives ann a shorter
\* and bob a longer window, one has no entries.
MCTables == {[a \in Addr |-> CASE a = ann -> 1 [] a = bob -> 3 [] OTHER -> NoEntry],
             NoWindows}

\* Only ann, who reads and whose mail expires early, is ever without a key,
\* and has one again at the end of the first day.
OnlyAnnLosesHerKey ==
    \A a \in Addr : profile[a] # NoKey \/ (a = ann /\ clock = 0)

\* Posts and polls run beside the relay's own sweep and up to the day before
\* the last; the last day and the operator's sweep are left to sweeps, limits
\* snapshots, takedowns and inbox reads.
SweepsAlone ==
    clock = MaxClock \/ sweep["admin"].pc = "batch" =>
        Busy = {} /\ \A a \in Reader : reader[a].pc = "idle"

Symmetry == Permutations(Worker)

====
