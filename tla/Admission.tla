---- MODULE Admission ----
(***************************************************************************)
(* Names on a relay with --allow-roots: who may come in at all.  The relay *)
(* keeps the roots of its members in memory (Relay.allowed_roots), as the  *)
(* last snapshot of the dashboard gave them (retention_pass) and as its    *)
(* registrar approved since (post_registration), and asks it before a      *)
(* profile is published (post_addr, allow_root).                           *)
(*                                                                         *)
(* The members are the dashboard's and change under the relay: a snapshot  *)
(* is fetched over HTTP and installed up to fifteen seconds later, and a   *)
(* registrar's call is a request under way.  The set is behind a lock of   *)
(* its own, so a handler's look at it and its transaction are two steps.   *)
(* A fetch that fails, or a snapshot whose list is missing or malformed,   *)
(* changes nothing and is not a step.                                      *)
(***************************************************************************)
EXTENDS Names

CONSTANT MaxChanges     \* bound: times a root joins or leaves

ASSUME AdmissionAssumption == MaxChanges \in Nat

VARIABLES
    members,        \* the dashboard's: the roots of its members
    changes,        \* bound counter
    allowed,        \* Relay.allowed_roots: unknown, or the last-good set
    fetched,        \* the sweeper's snapshot, fetched and not yet installed
    call,           \* the registrar's request: on its way, or stored
    entering,       \* a POST /addr that allow_root let through
    everMembers     \* history: the roots that ever were members

gate == <<members, changes, allowed, fetched, call, entering, everMembers>>
admissionVars == <<vars, gate>>

\* Option<HashSet>: not known yet, or a set of roots.
RootSet == [known : BOOLEAN, roots : SUBSET Root]
Unknown == [known |-> FALSE, roots |-> {}]
Known(roots) == [known |-> TRUE, roots |-> roots]

NoCall == [pc |-> "idle", root |-> None]
Calls == {NoCall} \cup [pc : {"sent", "stored"}, root : Root]
Entry == [name : Name, root : Root]

AdmissionTypeOK ==
    /\ TypeOK
    /\ members \subseteq Root
    /\ changes \in 0 .. MaxChanges
    /\ allowed \in RootSet
    /\ fetched \in RootSet
    /\ call \in Calls
    /\ entering \in Entry \cup {None}
    /\ everMembers \subseteq Root

\* The relay has just started, on an empty store.
AdmissionInit ==
    /\ Init
    /\ members \in SUBSET Root /\ everMembers = members
    /\ changes = 0
    /\ allowed = Unknown /\ fetched = Unknown
    /\ call = NoCall /\ entering = None

-----------------------------------------------------------------------------
(* The dashboard.                                                          *)

\* A root joins the team or leaves it.
ChangeMember(r) ==
    /\ changes < MaxChanges
    /\ changes' = changes + 1
    /\ members' = IF r \in members THEN members \ {r} ELSE members \cup {r}
    /\ everMembers' = everMembers \cup members'
    /\ UNCHANGED <<vars, allowed, fetched, call, entering>>

\* The dashboard asks for a reservation or a transfer with a member's profile.
SendCall(r) ==
    /\ call = NoCall /\ r \in members
    /\ call' = [pc |-> "sent", root |-> r]
    /\ UNCHANGED <<vars, members, changes, allowed, fetched, entering, everMembers>>

-----------------------------------------------------------------------------
(* The relay.                                                              *)

\* A transfer this reservation already completed is answered from its row.
Completed(n, owner, id, r) ==
    /\ managed
    /\ registrations[n] = [owner |-> owner, root |-> r, transfer |-> id]
    /\ UNCHANGED vars

\* post_registration: the store's transaction ...
StoreCall ==
    LET r == call.root
    IN  /\ call.pc = "sent"
        /\ \/ \E n \in Name, owner \in Owner : Reserve(n, owner, r)
           \/ \E n \in Name, from, owner \in Owner, was \in Root \cup {None},
                 id \in TransferId : Transfer(n, from, owner, was, id, r)
           \/ \E n \in Name, owner \in Owner, id \in TransferId :
                 Completed(n, owner, id, r)
        /\ call' = [call EXCEPT !.pc = "stored"]
        /\ UNCHANGED <<members, changes, allowed, fetched, entering, everMembers>>

\* ... or its refusal, or a request that is lost ...
LoseCall ==
    /\ call.pc = "sent"
    /\ call' = NoCall
    /\ UNCHANGED <<vars, members, changes, allowed, fetched, entering, everMembers>>

\* ... and then the profile's root is let in.
Approve ==
    /\ call.pc = "stored"
    /\ allowed' = Known(allowed.roots \cup {call.root})
    /\ call' = NoCall
    /\ UNCHANGED <<vars, members, changes, fetched, entering, everMembers>>

\* A name reserved for an account without a profile.
ReserveOnly(n, owner) ==
    /\ Reserve(n, owner, None)
    /\ UNCHANGED gate

\* Mutant of AllowRoot: no set yet lets everyone in.
AllowUntilKnown(r) == ~allowed.known \/ r \in allowed.roots

\* allow_root: 503 before there is a set, 403 outside it.
AllowRoot(r) == allowed.known /\ r \in allowed.roots

\* post_addr: a good profile of a member ...
AskAddr(n, r) ==
    /\ entering = None
    /\ AllowRoot(r)
    /\ entering' = [name |-> n, root |-> r]
    /\ UNCHANGED <<vars, members, changes, allowed, fetched, call, everMembers>>

\* ... is stored or refused.
StoreAddr ==
    /\ entering # None
    /\ entering' = None
    /\ \/ Publish(entering.name, entering.root)
       \/ Accept(entering.name, entering.root)
       \/ UNCHANGED vars
    /\ UNCHANGED <<members, changes, allowed, fetched, call, everMembers>>

\* POST /addr/transfer does not ask for membership.
Offer ==
    /\ StoreOffer \/ \E p \in Proof : CheckOffer(p)
    /\ UNCHANGED gate

\* retention_pass: the dashboard answers with a good list ...
FetchSnapshot ==
    /\ ~fetched.known
    /\ fetched' = Known(members)
    /\ UNCHANGED <<vars, members, changes, allowed, call, entering, everMembers>>

\* Mutant of Snapshot: adds to the set instead of replacing it.
SnapshotAdded == Known(fetched.roots \cup allowed.roots)

Snapshot == fetched

\* ... and it becomes the set.
InstallSnapshot ==
    /\ fetched.known
    /\ allowed' = Snapshot
    /\ fetched' = Unknown
    /\ UNCHANGED <<vars, members, changes, call, entering, everMembers>>

\* The set is in memory only; the dashboard's call is broken off.
RestartRelay(token) ==
    /\ Restart(token)
    /\ allowed' = Unknown /\ fetched' = Unknown /\ entering' = None
    /\ call' = IF call.pc = "stored" THEN NoCall ELSE call
    /\ UNCHANGED <<members, changes, everMembers>>

Wait == Tick /\ UNCHANGED gate

AdmissionNext ==
    \/ \E r \in Root : ChangeMember(r) \/ SendCall(r)
    \/ StoreCall \/ LoseCall \/ Approve
    \/ \E n \in Name, owner \in Owner : ReserveOnly(n, owner)
    \/ \E n \in Name, r \in Root : AskAddr(n, r)
    \/ StoreAddr \/ Offer
    \/ FetchSnapshot \/ InstallSnapshot
    \/ \E token \in BOOLEAN : RestartRelay(token)
    \/ Wait

AdmissionSpec == AdmissionInit /\ [][AdmissionNext]_admissionVars

\* The retention thread makes a pass when the relay starts and every five
\* minutes, and the dashboard answers again and again; a relay is not
\* restarted inside every pass.
FairAdmission ==
    AdmissionSpec /\ WF_admissionVars(FetchSnapshot) /\ SF_admissionVars(InstallSnapshot)

-----------------------------------------------------------------------------
(* What must hold.                                                         *)

\* "only members can register" (README, --allow-roots): whatever is restarted,
\* fetched late, approved late or handed on, a name is only ever held by a
\* root that the dashboard has had as a member.
MembersOnly == \A n \in Name : profiles[n] # None => profiles[n] \in everMembers

\* What the proof of MembersOnly rests on: whatever lets a root in comes from
\* the dashboard.
GateFromMembers ==
    /\ members \subseteq everMembers
    /\ allowed.roots \cup fetched.roots \subseteq everMembers
    /\ call.pc # "idle" => call.root \in everMembers
    /\ entering # None => entering.root \in everMembers

\* "subsequent membership snapshots remain authoritative" (post_registration):
\* once the team stops changing the relay comes back to its set again and
\* again, whatever late approvals and stale snapshots did to it before.
SetFollowsTeam == []<>(allowed = Known(members))

====
