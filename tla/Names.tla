---- MODULE Names ----
(***************************************************************************)
(* Who a name belongs to: profiles, the registrar's reservations and the   *)
(* two ways a name changes hands (register_with_policy, reserve,           *)
(* transfer_registration and offer_name_transfer in src/store.rs, with     *)
(* their handlers post_addr, post_registration and post_name_transfer in   *)
(* src/relay.rs).                                                          *)
(*                                                                         *)
(* Each method is one IMMEDIATE transaction.  A request may be repeated at *)
(* any time.  A relay with a registration token takes names from its       *)
(* registrar only; it may be restarted with the token or without it.       *)
(* Profiles are abstracted to their root key, and a signature to what it   *)
(* signs (Ed25519 signatures are deterministic).                           *)
(***************************************************************************)
EXTENDS Naturals, FiniteSets

CONSTANTS
    Name,           \* names on this relay
    Root,           \* root keys
    Owner,          \* accounts of the registrar's dashboard
    TransferId,     \* ids the dashboard gives its transfers
    None,           \* SQL NULL, or no row
    Window,         \* seconds a signed offer is fresh for (300)
    MaxClock,       \* bound: time
    MaxOffers       \* bound: different proofs that make an offer

Time == 0 .. MaxClock
Proof == [name : Name, from : Root, to : Root, ts : Time]
Registration == [owner : Owner, root : Root \cup {None},
                 transfer : TransferId \cup {None}]

ASSUME NamesAssumption ==
    /\ None \notin Root \cup TransferId \cup Proof \cup Registration
    /\ Window \in Nat
    /\ MaxClock \in Nat
    /\ MaxOffers \in Nat

VARIABLES
    clock,          \* envelope::now()
    managed,        \* registration_token is set
    profiles,       \* table profiles: the root of each name
    registrations,  \* table registrations
    offers,         \* table name_transfers
    proofs,         \* table name_transfer_proofs: the proofs remembered
    usedIds,        \* table registration_transfers
    checked,        \* an offer a worker has verified but not yet stored
    offered         \* history: every proof that made an offer

tables == <<profiles, registrations, offers, proofs, usedIds>>
vars == <<clock, managed, tables, checked, offered>>

\* No proof got in from further ahead than the window.
Timely == {p \in Proof : p.ts <= clock + Window}

TypeOK ==
    /\ clock \in Time
    /\ managed \in BOOLEAN
    /\ profiles \in [Name -> Root \cup {None}]
    /\ registrations \in [Name -> Registration \cup {None}]
    /\ offers \in [Name -> Proof \cup {None}]
    /\ proofs \subseteq Timely
    /\ usedIds \subseteq TransferId
    /\ checked \in Timely \cup {None}
    /\ offered \subseteq Proof

Init ==
    /\ clock = 0
    /\ managed \in BOOLEAN
    /\ profiles = [n \in Name |-> None]
    /\ registrations = [n \in Name |-> None]
    /\ offers = [n \in Name |-> None]
    /\ proofs = {} /\ usedIds = {} /\ offered = {}
    /\ checked = None

Registered(n) == registrations[n] # None

-----------------------------------------------------------------------------
(* POST /addr: register_with_policy.                                       *)

\* Mutant of Unreserved: a reservation is looked at on a managed relay only.
ReservedWhenManaged(n, r) == managed /\ Registered(n) => registrations[n].root = r

\* A reserved name takes only the root it is reserved for.
Unreserved(n, r) == Registered(n) => registrations[n].root = r

\* The pending offer of the name by its present root to this one.
Accepts(n, r) ==
    offers[n] # None /\ offers[n].from = profiles[n] /\ offers[n].to = r

\* A first publication, or one under the same root.
Publish(n, r) ==
    /\ Unreserved(n, r)
    /\ \/ profiles[n] = r
       \/ profiles[n] = None /\ ~managed
    /\ profiles' = [profiles EXCEPT ![n] = r]
    /\ UNCHANGED <<clock, managed, registrations, offers, proofs, usedIds,
                   checked, offered>>

\* Mutant of Spent: the offer stays when it is taken.
Unspent(n) == offers

Spent(n) == [offers EXCEPT ![n] = None]

\* The recipient of an offer publishes its profile: the name is its own.
Accept(n, r) ==
    /\ Unreserved(n, r)
    /\ profiles[n] \notin {r, None} /\ ~managed /\ Accepts(n, r)
    /\ offers' = Spent(n)
    /\ profiles' = [profiles EXCEPT ![n] = r]
    /\ UNCHANGED <<clock, managed, registrations, proofs, usedIds, checked,
                   offered>>

-----------------------------------------------------------------------------
(* The registrar.                                                          *)

\* Mutant of Free: a name that is published but not reserved can be reserved
\* without a profile.
FreeAlways(n, r) == r # None => profiles[n] \in {None, r}

\* The name is not published under another root; a first reservation without
\* a profile wants it not published at all.
Free(n, r) ==
    IF r # None THEN profiles[n] \in {None, r}
    ELSE profiles[n] = None \/ Registered(n)

\* reserve: for an account, with the root to activate it for or without.
Reserve(n, owner, r) ==
    /\ managed
    /\ Registered(n) =>
           /\ registrations[n].owner = owner
           /\ r = None \/ registrations[n].root \in {None, r}
    /\ Free(n, r)
    /\ registrations' = [registrations EXCEPT ![n] =
           IF @ = None THEN [owner |-> owner, root |-> r, transfer |-> None]
           ELSE IF @.root = None THEN [@ EXCEPT !.root = r] ELSE @]
    /\ profiles' = IF r # None THEN [profiles EXCEPT ![n] = r] ELSE profiles
    /\ UNCHANGED <<clock, managed, offers, proofs, usedIds, checked, offered>>

\* Mutant of Unused: only the latest transfer of the name is known.
UnusedLately(n, id) == registrations[n].transfer # id

\* No transfer was ever completed under this id.
Unused(n, id) == id \notin usedIds

\* transfer_registration, when it changes anything: a completed one that is
\* asked for again is answered from the row.
Transfer(n, from, owner, was, id, r) ==
    LET now == registrations[n]
    IN  /\ managed /\ Registered(n)
        /\ ~(now.owner = owner /\ now.root = r /\ now.transfer = id)
        /\ now.owner = from /\ now.root = was /\ was # r
        /\ Unused(n, id)
        /\ usedIds' = usedIds \cup {id}
        /\ registrations' = [registrations EXCEPT ![n] =
               [owner |-> owner, root |-> r, transfer |-> id]]
        /\ profiles' = [profiles EXCEPT ![n] = r]
        /\ UNCHANGED <<clock, managed, offers, proofs, checked, offered>>

-----------------------------------------------------------------------------
(* POST /addr/transfer on an unmanaged relay: offer_name_transfer.         *)

\* Mutant of Fresh: only an old one is refused.
NotOld(p) == clock <= p.ts + Window

\* Within the window of the relay's clock on either side.
Fresh(p) == clock <= p.ts + Window /\ p.ts <= clock + Window

\* The handler: a good signature, fresh by the time it reads here.
CheckOffer(p) ==
    /\ ~managed /\ checked = None
    /\ p.from # p.to
    /\ Fresh(p)
    /\ Cardinality(offered \cup {p}) <= MaxOffers
    /\ checked' = p
    /\ UNCHANGED <<clock, managed, tables, offered>>

\* Mutant of Remembered: forgets a proof in the last second it is fresh.
RememberedLess == {p \in proofs : p.ts + Window > clock}

\* Proofs older than their expiry are deleted, by the time as it is now.
Remembered == {p \in proofs : p.ts + Window >= clock}

\* The store: by the present owner of a name no registrar holds.  A proof
\* that is remembered is answered by whether its offer is still pending, and
\* the clean-up is rolled back.
StoreOffer ==
    LET p == checked
        n == checked.name
    IN  /\ checked # None
        /\ checked' = None
        /\ IF profiles[n] = p.from /\ ~Registered(n) /\ p \notin Remembered
           THEN /\ proofs' = Remembered \cup {p}
                /\ offers' = [offers EXCEPT ![n] = p]
                /\ offered' = offered \cup {p}
           ELSE UNCHANGED <<proofs, offers, offered>>
        /\ UNCHANGED <<clock, managed, profiles, registrations, usedIds>>

-----------------------------------------------------------------------------

\* The relay stops and starts again, with the token or without it.
Restart(token) ==
    /\ managed' = token
    /\ checked' = None
    /\ UNCHANGED <<clock, tables, offered>>

Tick ==
    /\ clock < MaxClock
    /\ clock' = clock + 1
    /\ UNCHANGED <<managed, tables, checked, offered>>

Next ==
    \/ \E n \in Name, r \in Root : Publish(n, r) \/ Accept(n, r)
    \/ \E n \in Name, owner \in Owner, r \in Root \cup {None} : Reserve(n, owner, r)
    \/ \E n \in Name, from, owner \in Owner, was \in Root \cup {None},
          id \in TransferId, r \in Root : Transfer(n, from, owner, was, id, r)
    \/ \E p \in Proof : CheckOffer(p)
    \/ StoreOffer
    \/ \E token \in BOOLEAN : Restart(token)
    \/ Tick

Spec == Init /\ [][Next]_vars

-----------------------------------------------------------------------------
(* What must hold.                                                         *)

\* The two tables never disagree: a reserved name is published under the
\* root its reservation was activated for, and not at all before that
\* (register_with_policy, reserve and transfer_registration each write one
\* or both, in either mode of the relay).
TablesAgree ==
    \A n \in Name : Registered(n) => registrations[n].root = profiles[n]

\* A pending offer of a name no registrar holds is by its present root, so
\* accepting it takes the name from the one who offered it.
OffersAreTheOwners ==
    \A n \in Name : offers[n] # None /\ ~Registered(n) => offers[n].from = profiles[n]

\* A name leaves a root only as its holder offered it to the next one, or
\* through the registrar: an offer that was replaced, used or made by a former
\* holder moves nothing.
MovesByConsent ==
    [][\A n \in Name :
          profiles[n] # None /\ profiles'[n] # profiles[n] =>
              \/ Registered(n) /\ registrations'[n].transfer \notin usedIds \cup {None}
              \/ /\ ~Registered(n) /\ offers[n] \in offered
                 /\ offers[n].from = profiles[n] /\ offers[n].to = profiles'[n]]_vars

\* A reserved name stays with its account until a transfer not completed
\* before moves it, however often the requests of the dashboard are repeated
\* (transfer_registration, "safely retryable without reassigning an address
\* that has subsequently moved again").
TransfersOnce ==
    [][\A n \in Name :
          Registered(n) /\ registrations'[n] # registrations[n] =>
              \/ registrations'[n].transfer \in usedIds' \ usedIds
              \/ /\ registrations[n].root = None
                 /\ registrations'[n] = [registrations[n] EXCEPT !.root = profiles'[n]]]_vars

\* A pending offer is on record, and under its own name.
OffersOnRecord ==
    \A n \in Name : offers[n] # None => offers[n] \in offered /\ offers[n].name = n

\* A proof that made an offer is remembered as long as it is fresh.
SpentIsRemembered ==
    \A p \in offered : p \in proofs \/ p.ts + Window < clock

\* The inductive invariant the proofs of NamesProofs rest on.
IInv ==
    /\ TypeOK
    /\ TablesAgree
    /\ OffersAreTheOwners
    /\ OffersOnRecord
    /\ SpentIsRemembered

\* A proof that made an offer makes none again while it is fresh, whatever
\* became of the offer (offer_name_transfer, "transfer proof was already used").
ProofsAreSpent ==
    [][\A n \in Name :
          offers'[n] # offers[n] /\ offers'[n] \in offered
          => clock > offers'[n].ts + Window]_vars

====
