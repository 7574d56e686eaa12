---- MODULE Lease ----
(***************************************************************************)
(* What work coordination promises, with no word of messages: one lease    *)
(* that is granted, extended and given back, and what each identity is     *)
(* told about it.  A claim is decided once, when it arrives.  It takes the *)
(* lease only from nobody, or when the lease was given back or had run out *)
(* by the claim's own time stamp, and an identity is told that it holds    *)
(* the work only while it does.                                            *)
(*                                                                         *)
(* Two reservations come from the code.  Retention may delete the messages *)
(* a lease rests on; then what is left decides (Forget, after which `whole`*)
(* is FALSE).  An identity that stopped waiting for its own request is on  *)
(* its own (Stray).  Coordination.tla implements this.                     *)
(***************************************************************************)
EXTENDS Naturals

CONSTANTS
    Agent,      \* the identities that claim
    Id,         \* the ids of claims
    Nobody,     \* the lease while nobody has it
    NoClaim,    \* what is told to who does not hold the work
    Retains     \* whether every message is kept for ever

VARIABLES
    now,        \* the time
    lease,      \* whose it is, by which claim, until when, and whether given back
    decided,    \* the claims that were granted or lost
    over,       \* the claims whose release was reported
    told,       \* what each identity was told that it holds, and until when
    whole,      \* nothing was forgotten
    astray      \* the identities that stopped waiting for a request

leaseVars == <<now, lease, decided, over, told, whole, astray>>

\* Who has the lease, by which claim of which round, until when.
Holding == [from : Agent, claim : Id, round : Nat, until : Nat, released : BOOLEAN]

Nothing == [claim |-> NoClaim, until |-> 0]

LeaseTypeOK ==
    /\ now \in Nat /\ lease \in Holding \cup {Nobody}
    /\ decided \subseteq Id /\ over \subseteq decided
    /\ told \in [Agent -> [claim : Id \cup {NoClaim}, until : Nat]]

\* The lease is held.
Runs == lease # Nobody /\ ~lease.released /\ now < lease.until

\* a counts on holding it.
Counts(a) == told[a].claim # NoClaim /\ now < told[a].until

\* What a was told may be counted on.
Bound(a) == whole /\ a \notin astray

LeaseInit ==
    /\ now = 0 /\ lease = Nobody
    /\ decided = {} /\ over = {} /\ astray = {}
    /\ told = [a \in Agent |-> Nothing]
    /\ whole = TRUE

-----------------------------------------------------------------------------
(* What happens to the lease.                                              *)

\* c, stamped at some time by now, takes a lease that had ended then.
Grant(c) ==
    /\ decided' = decided \cup {c}
    /\ lease' \in Holding /\ lease'.claim = c /\ ~lease'.released
    /\ lease # Nobody => lease'.round # lease.round
    /\ \E at \in 0 .. now :
          /\ lease = Nobody \/ lease.released \/ lease.until <= at
          /\ at <= lease'.until

\* c loses against the lease there is.
Lose(c) ==
    /\ decided' = decided \cup {c}
    /\ lease # Nobody /\ c \in Id
    /\ UNCHANGED lease

\* A request of the holder's, stamped before the lease ran out, sets its end
\* anew: never earlier than the holder counts on.  It revives no claim whose
\* release was reported.
Extend ==
    /\ UNCHANGED decided
    /\ lease # Nobody /\ ~lease.released /\ lease'.until \in Nat
    /\ lease' = [lease EXCEPT !.until = lease'.until]
    /\ \E at \in 0 .. now : at < lease.until /\ at <= lease'.until
    /\ Bound(lease.from) /\ Counts(lease.from) => told[lease.from].until <= lease'.until
    /\ now < lease'.until => lease.claim \notin over

\* The holder's release arrives; it counted on nothing any more.
GiveBack ==
    /\ UNCHANGED decided
    /\ lease # Nobody
    /\ lease' = [lease EXCEPT !.released = TRUE]
    /\ Bound(lease.from) => ~Counts(lease.from)

\* A claim is decided once.
Arrive ==
    /\ UNCHANGED <<now, over, told, whole, astray>>
    /\ \/ \E c \in decided' \ decided : Grant(c) \/ Lose(c)
       \/ Extend \/ GiveBack

\* What is left after a deletion decides: at worst a claim that had lost.
Forget ==
    /\ ~Retains
    /\ whole' = FALSE
    /\ UNCHANGED <<now, over, told, astray, decided>>
    /\ lease' = Nobody \/ (lease' \in Holding /\ lease'.claim \in decided)
    /\ Runs' => lease'.claim \notin over

-----------------------------------------------------------------------------
(* What the identities are told.                                           *)

\* a is told that it holds the work, which it does.
TellYes(a) ==
    /\ told' = [told EXCEPT ![a] = [claim |-> lease.claim, until |-> lease.until]]
    /\ Runs /\ lease.from = a

\* a is told that it does not, or stops counting on it.
TellNo(a) == told' = [told EXCEPT ![a] = Nothing]

\* a counts on less time than it was told.
CountOnLess(a) ==
    /\ told' = [told EXCEPT ![a].until = told'[a].until]
    /\ told'[a].until \in 0 .. told[a].until

Tell ==
    /\ UNCHANGED <<now, over, whole, astray>>
    /\ \E a \in Agent : TellNo(a) \/ CountOnLess(a) \/ TellYes(a)
    /\ UNCHANGED <<lease, decided>>

\* A release is reported: its claim was decided and does not hold the lease.
Report ==
    /\ UNCHANGED <<now, told, whole, astray>>
    /\ \E c \in over' \ over :
          /\ over' = over \cup {c}
          /\ c \in decided /\ ~(Runs /\ lease.claim = c)
    /\ UNCHANGED <<lease, decided>>

Stray ==
    /\ UNCHANGED <<now, over, told, whole>>
    /\ \E a \in Agent : astray' = astray \cup {a}
    /\ UNCHANGED <<lease, decided>>

Pass ==
    /\ now' = now + 1
    /\ told' = [a \in Agent |-> IF told[a].until <= now' THEN Nothing ELSE told[a]]
    /\ UNCHANGED <<over, whole, astray, lease, decided>>

LeaseNext == Tell \/ Arrive \/ Forget \/ Report \/ Stray \/ Pass

LeaseSpec == LeaseInit /\ [][LeaseNext]_leaseVars

-----------------------------------------------------------------------------
(* What follows from the promise alone.                                    *)

\* Who may count on the lease has it, under the claim and for the time told.
CountedIsLeased ==
    \A a \in Agent : Bound(a) /\ Counts(a) =>
        /\ lease # Nobody /\ lease.from = a /\ lease.claim = told[a].claim
        /\ ~lease.released /\ told[a].until <= lease.until

\* Two identities never count on the work at the same time.
OneCounts ==
    \A a, b \in Agent : Bound(a) /\ Bound(b) /\ Counts(a) /\ Counts(b) => a = b

\* A claim whose release was reported does not run.
OverIsOver == Runs => lease.claim \notin over

\* Unless something is forgotten, a claim that lost never takes the lease, and
\* one that ended never comes back.
LostIsLost ==
    [][whole' /\ lease' # Nobody /\ (lease # Nobody => lease'.claim # lease.claim)
       => lease'.claim \notin decided]_leaseVars

====
