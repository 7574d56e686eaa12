---- MODULE Authority ----
(***************************************************************************)
(* One identity and what its two keys can do: ecco init, deactivate, send, *)
(* approve and reject run in one home, against the relay that keeps its    *)
(* profile and takes what the keys sign (src/main.rs, src/identity.rs,     *)
(* src/client.rs, src/registration.rs, src/relay.rs, src/store.rs).        *)
(*                                                                         *)
(* The root key is the person's: it signs the profile and decisions.  The  *)
(* agent key posts everything else and signs reads, as long as the profile *)
(* delegates to it.  The commands take no lock, wait a limited time for an *)
(* answer, and may die; a request they stopped waiting for may still       *)
(* arrive.  The relay has --signed reads.  Other roots and accounts are    *)
(* the business of Names: here every profile is this home's.               *)
(*                                                                         *)
(* One thread carries the proposals and all that answers them.             *)
(***************************************************************************)
EXTENDS Naturals, Sequences, FiniteSets

CONSTANTS
    Proc,           \* processes that run commands in the home
    Pair,           \* the key pairs Identity::generate may make
    Proposal,       \* proposals of trusted senders in the inbox
    None,
    Life,           \* how long a delegation lasts
    MaxClock,       \* bound: time
    MaxCommands,    \* bound: commands run
    MaxOthers       \* bound: decisions of other participants

ASSUME AuthorityAssumption ==
    /\ None \notin Pair \cup Proposal \cup Nat
    /\ Life \in Nat /\ MaxClock \in Nat /\ MaxCommands \in Nat /\ MaxOthers \in Nat

VARIABLES
    clock,          \* envelope::now()
    managed,        \* the relay advertises a registration service
    file,           \* identity.json: the saved pair
    made,           \* the pairs generated so far
    proc,           \* the locals of each process
    commands,       \* bound counter: commands begun
    net,            \* requests on their way, or waiting to be approved
    profile,        \* the relay's: its root, and when its delegation ends
    passed,         \* envelopes a worker has authorised, not yet appended
    thread,         \* every message ever stored in the thread, by tseq
    gone,           \* those swept or taken down
    receipts,       \* history: tseqs this home has receipts for
    overwrote,      \* history: ecco init saved over another's keys
    grants,         \* history: profiles with a delegation that took effect
    mute            \* history: deactivate was confirmed, and no such profile since

home == <<file, made>>
relay == <<profile, passed, thread, gone>>
history == <<receipts, overwrote, grants, mute>>
vars == <<clock, managed, home, proc, commands, net, relay, history>>

Verb == {"approves", "rejects"}
Kind == {"init", "deactivate", "send"} \cup Verb

\* An envelope: who signed what and when, and the head it follows.  Its id is
\* these, so two that agree in them are one.
Env == [verb : Verb \cup {"note"}, of : Proposal \cup {None},
        root : Pair, ts : Nat, prev : SUBSET Nat]

Until == {None} \cup 0 .. MaxClock + Life

\* keys: the pair in hand; of: the proposal decided; known: tseqs with a
\* receipt when the command began; from: the grants seen if the agent was
\* mute then.
Idle == [pc |-> "idle", cmd |-> "none", n |-> 0, keys |-> None, of |-> None,
         known |-> {}, from |-> None]

\* What a command holds; every one but an idle one has keys.
Local == [pc : {"idle", "save", "publish", "look", "sign", "wait"},
          cmd : Kind \cup {"none"}, n : Nat, keys : Pair \cup {None},
          of : Proposal \cup {None}, known : SUBSET Nat, from : Nat \cup {None}]

\* What goes to the relay, tagged with the command that waits for the answer.
Document == [root : Pair, until : Until]
Post == [env : Env, known : SUBSET Nat, from : Nat \cup {None}]
Message == [type : {"addr", "connect"}, body : Document, by : Proc, n : Nat]
           \cup [type : {"msg"}, body : Post, by : Proc, n : Nat]

\* A stored envelope, of another participant when root is None, with what the
\* command that made it started from.
Row == [verb : Verb \cup {"note"}, of : Proposal \cup {None}, root : Pair \cup {None},
        ts : Nat, prev : SUBSET Nat, known : SUBSET Nat, from : Nat \cup {None}]

Init ==
    /\ clock = 0 /\ managed \in BOOLEAN
    /\ file = None /\ made = {}
    /\ proc = [p \in Proc |-> Idle] /\ commands = 0
    /\ net = {}
    /\ profile = [root |-> None, until |-> None]
    /\ passed = {} /\ thread = <<>> /\ gone = {}
    /\ receipts = {} /\ overwrote = FALSE /\ grants = 0 /\ mute = FALSE

-----------------------------------------------------------------------------
(* The commands.                                                           *)

Begin(p, cmd, pc, keys, of) ==
    /\ proc[p] = Idle /\ commands < MaxCommands
    /\ commands' = commands + 1
    /\ proc' = [proc EXCEPT ![p] =
           [pc |-> pc, cmd |-> cmd, n |-> commands + 1, keys |-> keys, of |-> of,
            known |-> receipts, from |-> IF mute THEN grants ELSE None]]

\* Identity::prepare: the saved keys if there are any ...
InitAgain(p) ==
    /\ file # None
    /\ Begin(p, "init", "publish", file, None)
    /\ UNCHANGED <<clock, managed, home, net, relay, history>>

\* Mutant of AfterKeys: publishes first.
PublishFirst == "publish"

AfterKeys == "save"

\* ... or new ones.
InitFirst(p) ==
    /\ file = None
    /\ \E k \in Pair \ made :
           /\ made' = made \cup {k}
           /\ Begin(p, "init", AfterKeys, k, None)
    /\ UNCHANGED <<clock, managed, file, net, relay, history>>

\* Identity::save, an atomic replacement; ecco init --prepare stops after it.
SaveKeys(p) ==
    /\ proc[p].pc = "save"
    /\ file' = proc[p].keys
    /\ overwrote' = (overwrote \/ file # None)
    /\ proc' = [proc EXCEPT ![p].pc = "publish"]
    /\ UNCHANGED <<clock, managed, made, commands, net, relay, receipts, grants, mute>>

Request(p, type, body) == [type |-> type, body |-> body, by |-> p, n |-> proc[p].n]

\* Mutant of Expiry: the life is added twice.
ExpiryTwice == clock + Life + Life

\* agent_delegation: a year from now.
Expiry == clock + Life

\* discover: ecco init goes to the registration service if the relay has one.
Channel(cmd) == IF managed /\ cmd = "init" THEN "connect" ELSE "addr"

\* The profile, or the revoked one: the delegation's end is under the root's
\* signature.
SignedProfile(cmd, keys) ==
    [root |-> keys, until |-> IF cmd = "init" THEN Expiry ELSE None]

\* POST /addr, or a connection request that a person approves at the dashboard
\* while the command polls for it.
Publish(p) ==
    LET r == proc[p]
    IN  /\ r.pc = "publish"
        /\ net' = net \cup {Request(p, Channel(r.cmd), SignedProfile(r.cmd, r.keys))}
        /\ proc' = [proc EXCEPT ![p].pc = "wait"]
        /\ UNCHANGED <<clock, managed, home, commands, relay, history>>

\* ecco deactivate publishes a profile without delegations.
Deactivate(p) ==
    /\ file # None
    /\ Begin(p, "deactivate", "publish", file, None)
    /\ UNCHANGED <<clock, managed, home, net, relay, history>>

\* ecco send, or any tool of the agent.
Send(p) ==
    /\ file # None
    /\ Begin(p, "send", "sign", file, None)
    /\ UNCHANGED <<clock, managed, home, net, relay, history>>

\* ecco approve and ecco reject.
Decide(p, verb, of) ==
    /\ file # None
    /\ Begin(p, verb, "look", file, of)
    /\ UNCHANGED <<clock, managed, home, net, relay, history>>

Present == DOMAIN thread \ gone

\* Profile::authorizes_read, for the agent key of a pair.
MayRead(keys) ==
    profile.root = keys /\ profile.until # None /\ profile.until > clock

\* Mutant of Rules: a rejection is not taken for a decision.
RulesApproving(i, of) == thread[i].verb = "approves" /\ thread[i].of = of

\* A decision on the proposal, by whomever.
Rules(i, of) == thread[i].verb \in Verb /\ thread[i].of = of

\* pending_proposals: those no message of the thread decides.
Pending(of) == \A i \in Present : ~Rules(i, of)

\* decide: a read that is refused, or a proposal decided, ends the command.
Look(p) ==
    LET r == proc[p]
    IN  /\ r.pc = "look"
        /\ proc' = [proc EXCEPT ![p] =
               IF MayRead(r.keys) /\ Pending(r.of) THEN [r EXCEPT !.pc = "sign"] ELSE Idle]
        /\ UNCHANGED <<clock, managed, home, commands, net, relay, history>>

\* prev: the newest message a read shows, nothing when it is refused.
Newest(keys) == {i \in Present : MayRead(keys) /\ \A j \in Present : j <= i}

\* build_envelope and the POST: decisions with the root key, the rest with the
\* agent's, and under no saved key: a second command makes a second envelope.
Sign(p) ==
    LET r == proc[p]
        env == [verb |-> IF r.cmd = "send" THEN "note" ELSE r.cmd, of |-> r.of,
                root |-> r.keys, ts |-> clock, prev |-> Newest(r.keys)]
    IN  /\ r.pc = "sign"
        /\ net' = net \cup {Request(p, "msg", [env |-> env, known |-> r.known, from |-> r.from])}
        /\ proc' = [proc EXCEPT ![p].pc = "wait"]
        /\ UNCHANGED <<clock, managed, home, commands, relay, history>>

\* A command fails, is killed or waits no longer; its request goes on.
Stop(p) ==
    /\ proc[p] # Idle
    /\ proc' = [proc EXCEPT ![p] = Idle]
    /\ UNCHANGED <<clock, managed, home, commands, net, relay, history>>

-----------------------------------------------------------------------------
(* The relay.                                                              *)

Waits(m) == proc[m.by].pc = "wait" /\ proc[m.by].n = m.n

\* The answer ends the command that waits for it.
Answer(m) == proc' = IF Waits(m) THEN [proc EXCEPT ![m.by] = Idle] ELSE proc

\* Mutant of Replaced: what is published stays.
ReplacedOnce(old, new) == IF old.root = None THEN new ELSE old

\* register_with_policy replaces the document, whenever it was signed.
Replaced(old, new) == new

\* reserve keeps the profile of a name that has one ("activation of a legacy
\* identity preserves its current profile").
Kept(old, new) == IF old.root = None THEN new ELSE old

\* POST /addr for a new name of an unmanaged relay, or under the same root; the
\* registrar's POST /registrations once the person approved the connection.
PutProfile(m) ==
    LET mine == profile.root = m.body.root
        free == profile.root = None /\ (m.type = "connect" \/ ~managed)
        now == IF m.type = "addr" THEN Replaced(profile, m.body)
               ELSE Kept(profile, m.body)
        granted == (mine \/ free) /\ now = m.body /\ m.body.until # None
        stops == (mine \/ free) /\ Waits(m) /\ m.body.until = None
    IN  /\ m.type \in {"addr", "connect"}
        /\ net' = net \ {m} /\ Answer(m)
        /\ profile' = IF mine \/ free THEN now ELSE profile
        /\ grants' = IF granted THEN grants + 1 ELSE grants
        /\ mute' = ((mute \/ stops) /\ ~granted)
        /\ UNCHANGED <<clock, managed, home, commands, passed, thread, gone,
                       receipts, overwrote>>

\* Profile::authorizes, for the key an envelope is signed with.
Authorizes(env) ==
    /\ profile.root = env.root
    /\ env.verb = "note" => profile.until # None /\ profile.until > clock

\* post_msgs, up to the append: the profile is read here.
Authorize(m) ==
    /\ m.type = "msg"
    /\ net' = net \ {m}
    /\ IF Authorizes(m.body.env)
       THEN passed' = passed \cup {m} /\ UNCHANGED proc
       ELSE Answer(m) /\ UNCHANGED passed
    /\ UNCHANGED <<clock, managed, home, commands, profile, thread, gone, history>>

\* Store::append and the receipt.  An envelope that is stored is not stored
\* again.
StoreEnvelope(m) ==
    LET env == m.body.env
        same == {i \in Present : thread[i].root = env.root /\ thread[i].ts = env.ts
                   /\ thread[i].verb = env.verb /\ thread[i].of = env.of
                   /\ thread[i].prev = env.prev}
        i == IF same = {} THEN Len(thread) + 1 ELSE CHOOSE x \in same : TRUE
    IN  /\ passed' = passed \ {m} /\ Answer(m)
        /\ thread' = IF same # {} THEN thread
                     ELSE Append(thread, [verb |-> env.verb, of |-> env.of, root |-> env.root,
                              ts |-> env.ts, prev |-> env.prev,
                              known |-> m.body.known, from |-> m.body.from])
        /\ receipts' = IF Waits(m) THEN receipts \cup {i} ELSE receipts
        /\ UNCHANGED <<clock, managed, home, commands, net, profile, gone,
                       overwrote, grants, mute>>

-----------------------------------------------------------------------------
(* The rest of the world.                                                  *)

\* Another participant decides a proposal: any decision in the thread counts.
OtherDecides(verb, of) ==
    /\ Cardinality({i \in DOMAIN thread : thread[i].root = None}) < MaxOthers
    /\ thread' = Append(thread, [verb |-> verb, of |-> of, root |-> None, ts |-> clock,
                   prev |-> {}, known |-> {}, from |-> None])
    /\ UNCHANGED <<clock, managed, home, proc, commands, net, profile, passed, gone, history>>

\* A sweep or a takedown.
Remove(i) ==
    /\ i \in Present
    /\ gone' = gone \cup {i}
    /\ UNCHANGED <<clock, managed, home, proc, commands, net, profile, passed, thread, history>>

Tick ==
    /\ clock < MaxClock
    /\ clock' = clock + 1
    /\ UNCHANGED <<managed, home, proc, commands, net, relay, history>>

Next ==
    \/ \E p \in Proc :
        \/ InitAgain(p) \/ InitFirst(p) \/ SaveKeys(p) \/ Publish(p)
        \/ Deactivate(p) \/ Send(p)
        \/ \E verb \in Verb, of \in Proposal : Decide(p, verb, of)
        \/ Look(p) \/ Sign(p) \/ Stop(p)
    \/ \E m \in net : PutProfile(m) \/ Authorize(m)
    \/ \E m \in passed : StoreEnvelope(m)
    \/ \E verb \in Verb, of \in Proposal : OtherDecides(verb, of)
    \/ \E i \in DOMAIN thread : Remove(i)
    \/ Tick

Spec == Init /\ [][Next]_vars

-----------------------------------------------------------------------------
(* What must hold.                                                         *)

TypeOK ==
    /\ clock \in 0 .. MaxClock /\ managed \in BOOLEAN
    /\ file \in Pair \cup {None} /\ made \subseteq Pair
    /\ proc \in [Proc -> Local] /\ commands \in 0 .. MaxCommands
    /\ net \subseteq Message
    /\ profile \in [root : Pair \cup {None}, until : Until]
    /\ passed \subseteq Message
    /\ thread \in Seq(Row) /\ gone \subseteq DOMAIN thread
    /\ receipts \subseteq DOMAIN thread
    /\ overwrote \in BOOLEAN /\ grants \in Nat /\ mute \in BOOLEAN

\* Keys are on the disk before the relay hears of them: a home whose keys were
\* not overwritten by another first ecco init owns the name it registered,
\* whichever command died where and whichever request arrived late.
HomeOwnsName == profile.root # None /\ ~overwrote => profile.root = file

\* A person who has the receipt of a decision does not post another on the
\* same proposal, unless the first is gone from the thread: what runs at once
\* may decide twice, what runs after a receipt may not.
ReceiptIsFinal ==
    \A j \in DOMAIN thread : \A i \in thread[j].known :
        /\ thread[j].verb \in Verb /\ thread[i].verb \in Verb
        /\ thread[i].of = thread[j].of
        => i \in gone

\* "the agent key no longer signs or reads as this address" (Cmd::Deactivate):
\* what the agent begins to send once deactivate was confirmed is stored only
\* if a profile with a delegation took effect after that, also one that an
\* earlier ecco init sent and that was late.
AgentStops ==
    \A j \in DOMAIN thread :
        thread[j].verb = "note" /\ thread[j].from # None => grants > thread[j].from

\* What the proofs rest on.  A command signs what its kind is for, and holds
\* keys from its first step on.
CommandsFit ==
    \A p \in Proc :
        /\ proc[p].pc # "idle" => proc[p].keys \in Pair
        /\ proc[p].pc = "save" => proc[p].cmd = "init"
        /\ proc[p].pc = "look" => proc[p].cmd \in Verb
        /\ proc[p].pc = "sign" => proc[p].cmd \in Verb \cup {"send"}
        /\ proc[p].known \subseteq DOMAIN thread

\* Until keys are overwritten there is one pair: whatever is past its save, or
\* on its way, is of the pair in the file.
OnePair ==
    ~overwrote =>
        /\ \A p \in Proc : proc[p].pc \notin {"idle", "save"} => proc[p].keys = file
        /\ \A m \in net : m.type # "msg" => m.body.root = file

\* A mute agent's profile has no delegation, and a connection request has one.
MuteMeansNone ==
    /\ mute => profile.until = None
    /\ \A m \in net : m.type = "connect" => m.body.until # None

\* Whoever started from a mute agent is still there, or there was a grant ...
Waited(from) == from # None => from <= grants /\ (from = grants => mute)

\* ... and there was one for all that passed the relay's check.
Granted(verb, from) == verb = "note" /\ from # None => grants > from

MuteSinceThen ==
    /\ \A p \in Proc : Waited(proc[p].from)
    /\ \A m \in net : m.type = "msg" => Waited(m.body.from)
    /\ \A m \in passed : Granted(m.body.env.verb, m.body.from)
    /\ \A j \in DOMAIN thread : Granted(thread[j].verb, thread[j].from)

\* No receipt in hand is of a decision on the proposal that is still there.
Ruled(verb, of, known) ==
    \A i \in known : verb \in Verb /\ thread[i].verb \in Verb /\ thread[i].of = of => i \in gone

DecisionsLooked ==
    /\ \A p \in Proc : proc[p].pc = "sign" => Ruled(proc[p].cmd, proc[p].of, proc[p].known)
    /\ \A m \in net \cup passed :
           m.type = "msg" =>
               /\ m.body.known \subseteq DOMAIN thread
               /\ Ruled(m.body.env.verb, m.body.env.of, m.body.known)
    /\ \A j \in DOMAIN thread :
           /\ thread[j].known \subseteq DOMAIN thread
           /\ Ruled(thread[j].verb, thread[j].of, thread[j].known)
    /\ \A m \in passed : m.type = "msg"

\* The inductive invariant of AuthorityProofs.
IInv ==
    /\ TypeOK /\ CommandsFit
    /\ HomeOwnsName /\ OnePair
    /\ MuteMeansNone /\ MuteSinceThen
    /\ DecisionsLooked

====
