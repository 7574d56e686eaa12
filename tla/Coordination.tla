---- MODULE Coordination ----
(***************************************************************************)
(* Work coordination over one thread: ecco work claim, release and status  *)
(* (src/coordination.rs).                                                  *)
(*                                                                         *)
(* There is no lock anywhere: a client reads the thread, decides, posts a  *)
(* claim, reads the thread again and evaluates it to see whether it won.   *)
(* The relay stamps a post when a worker takes it and numbers it when the  *)
(* store appends it, so two posts may be numbered against their stamps; a  *)
(* client that stops waiting leaves its post on its way.                   *)
(*                                                                         *)
(* An envelope id is abstracted to the tseq the relay gave it and a random *)
(* claim id to the claimant and a count.  All clocks agree.  Structured    *)
(* claims and releases are those the work commands write.                  *)
(***************************************************************************)
EXTENDS Naturals, Sequences, FiniteSets

CONSTANTS
    Agent,          \* the identities that claim
    Other,          \* whoever else posts in the thread
    Ttl,            \* ttl_seconds asked for, within 1 .. MAX_TTL_SECONDS
    Retention,      \* the relay's window, 0 keeps for ever
    MaxMsgs,        \* bound: messages of the thread
    MaxClock,       \* bound: time
    MaxGiveUps      \* bound: clients that stop waiting for a post

\* A window is whole days and a claim lasts a day at most.
ASSUME CoordinationAssumption ==
    /\ Ttl \subseteq Nat \ {0}
    /\ Retention \in Nat /\ MaxMsgs \in Nat /\ MaxClock \in Nat
    /\ MaxGiveUps \in Nat
    /\ Retention > 0 => \A t \in Ttl : t <= Retention

VARIABLES
    clock,          \* the time, everybody's
    thread,         \* what the relay stores of the thread, in tseq order
    lastTseq,       \* threads.last_tseq
    flight,         \* posts a relay worker has stamped but not appended
    client,         \* each identity's work command, between its calls
    claims,         \* claim ids each identity has sent
    held,           \* history: what each identity was told it holds, while it runs
    freed,          \* history: claims whose release was reported
    gaveUp          \* history: who stopped waiting for a post in flight

vars == <<clock, thread, lastTseq, flight, client, claims, held, freed,
          gaveUp>>

ClaimId == Agent \X (1 .. MaxMsgs)
NoClaim == <<>>

Msg == [kind : {"claim", "release", "note"}, from : Agent \cup {Other},
        claim : ClaimId \cup {NoClaim}, after : 0 .. MaxMsgs,
        ttl : Ttl \cup {0}, renewal : BOOLEAN,
        at : 0 .. MaxClock, tseq : 0 .. MaxMsgs]

\* An ActiveClaim, or None; until is expires_at, round is round_after.
None == [from |-> Other, claim |-> NoClaim, round |-> 0, until |-> 0,
         released |-> FALSE]

Idle == [pc |-> "idle"]
Free == [claim |-> NoClaim, until |-> 0]

TypeOK ==
    /\ clock \in 0 .. MaxClock
    /\ \A i \in DOMAIN thread : thread[i] \in Msg
    /\ \A i, j \in DOMAIN thread : i < j => thread[i].tseq < thread[j].tseq
    /\ lastTseq \in 0 .. MaxMsgs
    /\ \A m \in flight : m \in Msg /\ m.at <= clock
    /\ \A a \in Agent : client[a].pc # "idle" => client[a].msg \in Msg
    /\ claims \in [Agent -> 0 .. MaxMsgs]
    /\ \A a \in Agent : held[a].claim \in ClaimId \cup {NoClaim}
    /\ freed \subseteq ClaimId
    /\ gaveUp \subseteq Agent

Init ==
    /\ clock = 0 /\ lastTseq = 0
    /\ thread = <<>> /\ flight = {} /\ freed = {}
    /\ gaveUp = {}
    /\ client = [a \in Agent |-> Idle]
    /\ claims = [a \in Agent |-> 0]
    /\ held = [a \in Agent |-> Free]

-----------------------------------------------------------------------------
(* evaluate: the thread in tseq order decides who holds the work.          *)

Winner(m) == [from |-> m.from, claim |-> m.claim, round |-> m.after,
              until |-> m.at + m.ttl, released |-> FALSE]

\* The winner's own renewal, stamped before its claim ran out.
Renews(w, m) ==
    /\ m.renewal /\ ~w.released
    /\ m.at < w.until
    /\ m.after = w.round /\ m.from = w.from /\ m.claim = w.claim

\* Mutants of Succeeds: only a release opens a new round; the winner's time
\* is not looked at.
SucceedsReleased(w, m) == ~m.renewal /\ m.after # w.round /\ w.released
SucceedsAtOnce(w, m) == ~m.renewal /\ m.after # w.round

\* A claim of another round, once the winner's is over.
Succeeds(w, m) ==
    /\ ~m.renewal /\ m.after # w.round
    /\ w.released \/ w.until <= m.at

Apply(w, m) ==
    CASE m.kind = "claim" /\ w = None ->
            IF m.renewal THEN None ELSE Winner(m)
      [] m.kind = "claim" /\ w # None ->
            IF Renews(w, m) THEN [w EXCEPT !.until = m.at + m.ttl]
            ELSE IF Succeeds(w, m) THEN Winner(m) ELSE w
      [] m.kind = "release" ->
            IF w # None /\ m.from = w.from /\ m.claim = w.claim
            THEN [w EXCEPT !.released = TRUE] ELSE w
      [] OTHER -> w

\* The winner of the last round and its state.
Evaluate(msgs) ==
    LET after[i \in 0 .. Len(msgs)] ==
            IF i = 0 THEN None ELSE Apply(after[i - 1], msgs[i])
    IN  after[Len(msgs)]

\* Mutant of Active: a release is not looked at.
ActiveByTime(w, now) == w # None /\ w.until > now

\* Holds the work at `now`.
Active(w, now) == w # None /\ ~w.released /\ w.until > now

\* Mutant of HeadOf: the number the next message will get.
HeadToCome == lastTseq + 1

\* The message a new claim points to as its `after`.
HeadOf == IF thread = <<>> THEN 0 ELSE thread[Len(thread)].tseq

-----------------------------------------------------------------------------
(* The work commands.                                                      *)

\* A message the store has yet to stamp and number.
Draft(kind, a, claim, after, ttl, renewal) ==
    [kind |-> kind, from |-> a, claim |-> claim, after |-> after, ttl |-> ttl,
     renewal |-> renewal, at |-> 0, tseq |-> 0]

Send(a, msg) == client' = [client EXCEPT ![a] = [pc |-> "send", msg |-> msg]]

Sooner(s, t) == IF s <= t THEN s ELSE t

\* claim: another's active claim is CLAIM_LOST at once; one's own is renewed,
\* and who asks for less time counts on no more; else a new claim opens a
\* round at the head just read.
Claim(a, ttl) ==
    LET w == Evaluate(thread)
    IN  /\ client[a].pc = "idle"
        /\ \/ /\ Active(w, clock) /\ w.from # a
              /\ held' = [held EXCEPT ![a] = Free]
              /\ UNCHANGED client
           \/ /\ Active(w, clock) /\ w.from = a
              /\ Send(a, Draft("claim", a, w.claim, w.round, ttl, TRUE))
              /\ held' = [held EXCEPT ![a].until = Sooner(@, clock + ttl)]
           \/ /\ ~Active(w, clock) /\ claims[a] < MaxMsgs
              /\ Send(a, Draft("claim", a, <<a, claims[a] + 1>>, HeadOf, ttl, FALSE))
              /\ UNCHANGED held
        /\ UNCHANGED <<clock, thread, lastTseq, flight, claims, freed, gaveUp>>

\* release: only of one's own active claim.
Release(a) ==
    LET w == Evaluate(thread)
    IN  /\ client[a].pc = "idle"
        /\ Active(w, clock) /\ w.from = a
        /\ Send(a, Draft("release", a, w.claim, 0, 0, FALSE))
        /\ held' = [held EXCEPT ![a] = Free]
        /\ UNCHANGED <<clock, thread, lastTseq, flight, claims, freed,
                       gaveUp>>

\* Any other message moves the head of the thread.
Note ==
    /\ lastTseq + Cardinality(flight) < MaxMsgs
    /\ lastTseq' = lastTseq + 1
    /\ thread' = Append(thread,
           [kind |-> "note", from |-> Other, claim |-> NoClaim, after |-> 0,
            ttl |-> 0, renewal |-> FALSE, at |-> clock, tseq |-> lastTseq + 1])
    /\ UNCHANGED <<clock, flight, client, claims, held, freed, gaveUp>>

\* post_msgs reads the time for a post; `at` is its received_at from now on.
Stamp(a) ==
    /\ client[a].pc = "send"
    /\ lastTseq + Cardinality(flight) < MaxMsgs
    /\ LET m == [client[a].msg EXCEPT !.at = clock]
       IN  /\ m \notin flight
           /\ flight' = flight \cup {m}
           /\ client' = [client EXCEPT ![a] = [pc |-> "wait", msg |-> m]]
           /\ claims' = IF m.kind = "claim" /\ ~m.renewal
                        THEN [claims EXCEPT ![a] = @ + 1] ELSE claims
    /\ UNCHANGED <<clock, thread, lastTseq, held, freed, gaveUp>>

\* Store::append.
StorePost(m) ==
    LET row == [m EXCEPT !.tseq = lastTseq + 1]
    IN  /\ flight' = flight \ {m}
        /\ lastTseq' = row.tseq
        /\ thread' = Append(thread, row)
        /\ client' = [a \in Agent |->
               IF client[a].pc = "wait" /\ client[a].msg = m
               THEN [pc |-> "check", msg |-> row] ELSE client[a]]
        /\ UNCHANGED <<clock, claims, held, freed, gaveUp>>

\* The receipt must match a row of the thread as fetched again; then a claim
\* is evaluated and a release is reported as it is.
Check(a) ==
    LET w == Evaluate(thread)
        m == client[a].msg
        bound == \E i \in DOMAIN thread : thread[i] = m
    IN  /\ client[a].pc = "check"
        /\ client' = [client EXCEPT ![a] = Idle]
        /\ held' = [held EXCEPT ![a] =
               IF bound /\ m.kind = "claim" /\ Active(w, clock)
                  /\ w.claim = m.claim /\ w.from = a
               THEN [claim |-> w.claim, until |-> w.until]
               ELSE IF bound /\ m.kind = "claim" THEN Free ELSE @]
        /\ freed' = IF bound /\ m.kind = "release" THEN freed \cup {m.claim} ELSE freed
        /\ UNCHANGED <<clock, thread, lastTseq, flight, claims, gaveUp>>

\* The command ends in an error: its post was refused or never sent, the
\* client stopped waiting for the answer, or the thread could
\* not be read.
GiveUp(a) ==
    /\ client[a].pc # "idle"
    /\ client[a].pc = "wait" => Cardinality(gaveUp) < MaxGiveUps
    /\ gaveUp' = IF client[a].pc = "wait" THEN gaveUp \cup {a} ELSE gaveUp
    /\ client' = [client EXCEPT ![a] = Idle]
    /\ UNCHANGED <<clock, thread, lastTseq, flight, claims, held, freed>>

\* Not past its window.
Keeps(m) == m.at + Retention >= clock

\* What the sweep leaves of a thread, in its order.
Left(msgs) ==
    LET left[i \in 0 .. Len(msgs)] ==
            IF i = 0 THEN <<>>
            ELSE IF Keeps(msgs[i]) THEN Append(left[i - 1], msgs[i]) ELSE left[i - 1]
    IN  left[Len(msgs)]

\* The relay's sweeper.
Sweep ==
    /\ Retention > 0
    /\ thread' = Left(thread)
    /\ thread' # thread
    /\ UNCHANGED <<clock, lastTseq, flight, client, claims, held, freed, gaveUp>>

Tick ==
    /\ clock < MaxClock
    /\ clock' = clock + 1
    /\ held' = [a \in Agent |-> IF held[a].until <= clock' THEN Free ELSE held[a]]
    /\ UNCHANGED <<thread, lastTseq, flight, client, claims, freed, gaveUp>>

Next ==
    \/ \E a \in Agent :
          \/ \E ttl \in Ttl : Claim(a, ttl)
          \/ Release(a) \/ Stamp(a) \/ Check(a) \/ GiveUp(a)
    \/ \E m \in flight : StorePost(m)
    \/ Note
    \/ Sweep
    \/ Tick

Spec == Init /\ [][Next]_vars

-----------------------------------------------------------------------------
(* What must hold.                                                         *)

Holds(a) == held[a].claim # NoClaim /\ clock < held[a].until

\* Two identities are never both told they hold the work at a time when both
\* of their claims still run, while the relay keeps the whole thread, and
\* unless one of them has a post it stopped waiting for: its release or
\* renewal may yet count (claim, send_claim, release).
Exclusive ==
    lastTseq = Len(thread) =>
        \A a, b \in Agent \ gaveUp : Holds(a) /\ Holds(b) => a = b

\* A claim whose release was reported never holds the work again, whatever
\* renewals of it were still on their way (release, evaluate).
ReleaseIsFinal ==
    LET w == Evaluate(thread) IN Active(w, clock) => w.claim \notin freed

\* A claim made against the head of a thread whose work nobody holds wins its
\* round when it is appended next (claim's `after`, evaluate).
FreshClaimWins ==
    [][\A m \in flight :
          /\ StorePost(m) /\ m.kind = "claim" /\ ~m.renewal
          /\ m.after = HeadOf /\ ~Active(Evaluate(thread), m.at)
          => Evaluate(thread').claim = m.claim]_vars

\* While nothing is deleted, an append leaves the holder of the work as it is
\* or hands it on when the holder's time is up by the stamp of the new claim
\* or it was released: no message of another's ends a running claim.
HandedOver ==
    [][\A m \in flight :
          LET w == Evaluate(thread)
              v == Evaluate(thread')
          IN  /\ StorePost(m) /\ Active(w, m.at) /\ m.from # w.from
              => v = w]_vars

\* The claims that were stored at some time, and so have won or lost.
Decided ==
    {c \in ClaimId : c[2] <= claims[c[1]]}
        \ {m.claim : m \in {x \in flight : x.kind = "claim" /\ ~x.renewal}}

\* What the commands promise: a lease.
LeaseOf == INSTANCE Lease WITH
    Id <- ClaimId, Nobody <- None, Retains <- Retention = 0,
    now <- clock, lease <- Evaluate(thread), decided <- Decided, over <- freed,
    told <- held, whole <- lastTseq = Len(thread), astray <- gaveUp

\* Work coordination implements a lease: a claim is decided once, as it is
\* stored; it takes over only what was released or had run out by its stamp;
\* what an identity is told is so; and only retention takes a lease away
\* (claim, send_claim, release, evaluate).
ImplementsLease == LeaseOf!LeaseSpec

\* README, "A claim starts a new round when its after points to a later thread
\* head": whoever takes over did so from a head at or past the claim it follows.
RoundsGoForward ==
    [][LET w == Evaluate(thread)
           v == Evaluate(thread')
       IN  w # None /\ v # None /\ v.claim # w.claim => v.round > w.round]_vars

\* README, "A losing claim does not become active when the winner releases it
\* or lets it expire": a claim comes to hold the work as it is appended, or
\* never.
NeverPromoted ==
    [][LET w == Evaluate(thread)
           v == Evaluate(thread')
       IN  Active(v, clock') /\ v.claim # w.claim =>
               \A i \in DOMAIN thread : thread[i].claim # v.claim]_vars

====
