---- MODULE NamesProofs ----
(***************************************************************************)
(* Proofs about Names for every set of names, keys, accounts and transfer  *)
(* ids, every window and every bound.                                      *)
(***************************************************************************)
EXTENDS Names, TLAPS

\* What a reservation leaves in the row: the same account and transfer, and
\* a root where there was none.
LEMMA ReserveEffect ==
    ASSUME TypeOK, NEW n \in Name, NEW owner \in Owner,
           NEW r \in Root \cup {None}, Reserve(n, owner, r)
    PROVE  \E row \in Registration :
               /\ registrations' = [registrations EXCEPT ![n] = row]
               /\ \/ ~Registered(n) /\ row.root = r
                  \/ Registered(n) /\ row = registrations[n]
                     /\ (r # None => row.root = r)
                  \/ /\ Registered(n) /\ registrations[n].root = None
                     /\ row = [registrations[n] EXCEPT !.root = r]
                     /\ row.root = r
<1> USE NamesAssumption
<1>1. CASE ~Registered(n)
  <2> DEFINE row == [owner |-> owner, root |-> r, transfer |-> None]
  <2>1. row \in Registration /\ row.root = r
    BY DEF Registration
  <2>2. registrations' = [registrations EXCEPT ![n] = row]
    BY <1>1 DEF Reserve, Registered
  <2>3. QED
    BY <1>1, <2>1, <2>2
<1>2. CASE Registered(n) /\ registrations[n].root = None
  <2> DEFINE row == [registrations[n] EXCEPT !.root = r]
  <2>1. registrations[n] \in Registration
    BY <1>2 DEF TypeOK, Registered
  <2>2. row \in Registration /\ row.root = r
    BY <2>1 DEF Registration
  <2>3. registrations' = [registrations EXCEPT ![n] = row]
    BY <1>2 DEF Reserve, Registered
  <2>4. QED
    BY <1>2, <2>2, <2>3
<1>3. CASE Registered(n) /\ registrations[n].root # None
  <2> DEFINE row == registrations[n]
  <2>1. row \in Registration
    BY <1>3 DEF TypeOK, Registered
  <2>2. registrations' = [registrations EXCEPT ![n] = row]
    BY <1>3 DEF Reserve, Registered
  <2>3. r # None => row.root = r
    BY <1>3 DEF Reserve
  <2>4. QED
    BY <1>3, <2>1, <2>2, <2>3
<1>4. QED
  BY <1>1, <1>2, <1>3

\* What a transfer leaves in the row.
LEMMA TransferEffect ==
    ASSUME NEW n \in Name, NEW from \in Owner, NEW owner \in Owner,
           NEW was \in Root \cup {None}, NEW id \in TransferId, NEW r \in Root,
           Transfer(n, from, owner, was, id, r)
    PROVE  \E row \in Registration :
               /\ registrations' = [registrations EXCEPT ![n] = row]
               /\ row.root = r /\ row.transfer = id
<1> DEFINE row == [owner |-> owner, root |-> r, transfer |-> id]
<1>1. row \in Registration /\ row.root = r /\ row.transfer = id
  BY DEF Registration
<1>2. registrations' = [registrations EXCEPT ![n] = row]
  BY DEF Transfer
<1>3. QED
  BY <1>1, <1>2

\* What an offer that reaches the store does.
LEMMA OfferEffect ==
    ASSUME TypeOK, StoreOffer
    PROVE  /\ checked \in Proof
           /\ \/ UNCHANGED <<proofs, offers, offered>>
              \/ /\ profiles[checked.name] = checked.from
                 /\ ~Registered(checked.name)
                 /\ checked \notin Remembered
                 /\ proofs' = Remembered \cup {checked}
                 /\ offers' = [offers EXCEPT ![checked.name] = checked]
                 /\ offered' = offered \cup {checked}
           /\ UNCHANGED <<clock, profiles, registrations, usedIds>>
           /\ checked' = None
BY DEF StoreOffer, TypeOK, Timely

-----------------------------------------------------------------------------
(* The invariant.                                                          *)

LEMMA TypeInit == Init => TypeOK
BY NamesAssumption DEF Init, TypeOK, Time

LEMMA TypeNext == TypeOK /\ [Next]_vars => TypeOK'
<1> SUFFICES ASSUME TypeOK, [Next]_vars PROVE TypeOK'
  OBVIOUS
<1> USE NamesAssumption
<1>1. ASSUME NEW n \in Name, NEW r \in Root, Publish(n, r) PROVE TypeOK'
  BY <1>1 DEF Publish, TypeOK, Timely
<1>2. ASSUME NEW n \in Name, NEW r \in Root, Accept(n, r) PROVE TypeOK'
  BY <1>2 DEF Accept, Spent, TypeOK, Timely
<1>3. ASSUME NEW n \in Name, NEW owner \in Owner, NEW r \in Root \cup {None},
             Reserve(n, owner, r)
      PROVE TypeOK'
  <2>1. registrations' \in [Name -> Registration \cup {None}]
    BY <1>3, ReserveEffect DEF TypeOK
  <2>2. profiles' \in [Name -> Root \cup {None}]
    BY <1>3 DEF Reserve, TypeOK
  <2>3. QED
    BY <1>3, <2>1, <2>2 DEF Reserve, TypeOK, Timely
<1>4. ASSUME NEW n \in Name, NEW from \in Owner, NEW owner \in Owner,
             NEW was \in Root \cup {None}, NEW id \in TransferId, NEW r \in Root,
             Transfer(n, from, owner, was, id, r)
      PROVE TypeOK'
  <2>1. registrations' \in [Name -> Registration \cup {None}]
    BY <1>4, TransferEffect DEF TypeOK
  <2>2. QED
    BY <1>4, <2>1 DEF Transfer, TypeOK, Timely
<1>5. ASSUME NEW p \in Proof, CheckOffer(p) PROVE TypeOK'
  BY <1>5 DEF CheckOffer, Fresh, tables, TypeOK, Timely
<1>6. ASSUME StoreOffer PROVE TypeOK'
  <2>1. Remembered \subseteq proofs
    BY DEF Remembered
  <2>2. checked \in Timely
    BY <1>6 DEF StoreOffer, TypeOK
  <2>3. QED
    BY <1>6, <2>1, <2>2 DEF StoreOffer, TypeOK, Timely
<1>7. ASSUME NEW token \in BOOLEAN, Restart(token) PROVE TypeOK'
  BY <1>7 DEF Restart, tables, TypeOK, Timely
<1>8. CASE Tick
  BY <1>8 DEF Tick, tables, TypeOK, Timely, Time, Proof
<1>9. CASE UNCHANGED vars
  BY <1>9 DEF vars, tables, TypeOK, Timely
<1>10. QED
  BY <1>1, <1>2, <1>3, <1>4, <1>5, <1>6, <1>7, <1>8, <1>9 DEF Next

LEMMA InvInit == Init => IInv
<1> SUFFICES ASSUME Init PROVE IInv
  OBVIOUS
<1>1. TypeOK
  BY TypeInit
<1>2. TablesAgree /\ OffersAreTheOwners
  BY DEF Init, TablesAgree, OffersAreTheOwners, Registered
<1>3. OffersOnRecord /\ SpentIsRemembered
  BY DEF Init, OffersOnRecord, SpentIsRemembered
<1>4. QED
  BY <1>1, <1>2, <1>3 DEF IInv

\* Each method that writes one of the two tables writes the other to match.
LEMMA TablesNext == IInv /\ Next => TablesAgree'
<1> SUFFICES ASSUME IInv, Next PROVE TablesAgree'
  OBVIOUS
<1> USE NamesAssumption
<1>1. TypeOK /\ TablesAgree
  BY DEF IInv
<1>2. ASSUME NEW n \in Name, NEW r \in Root, Publish(n, r) PROVE TablesAgree'
  BY <1>1, <1>2 DEF Publish, Unreserved, TablesAgree, Registered, TypeOK
<1>3. ASSUME NEW n \in Name, NEW r \in Root, Accept(n, r) PROVE TablesAgree'
  BY <1>1, <1>3 DEF Accept, Unreserved, TablesAgree, Registered, TypeOK
<1>4. ASSUME NEW n \in Name, NEW owner \in Owner, NEW r \in Root \cup {None},
             Reserve(n, owner, r)
      PROVE TablesAgree'
  <2>1. PICK row \in Registration :
            /\ registrations' = [registrations EXCEPT ![n] = row]
            /\ \/ ~Registered(n) /\ row.root = r
               \/ Registered(n) /\ row = registrations[n]
                  /\ (r # None => row.root = r)
               \/ Registered(n) /\ registrations[n].root = None /\ row.root = r
    BY <1>1, <1>4, ReserveEffect
  <2>2. row.root = profiles'[n]
    BY <1>1, <1>4, <2>1
       DEF Reserve, Free, TablesAgree, Registered, TypeOK
  <2>3. ASSUME NEW m \in Name \ {n}, Registered(m)'
        PROVE  registrations'[m].root = profiles'[m]
    BY <1>1, <1>4, <2>1, <2>3 DEF Reserve, TablesAgree, Registered, TypeOK
  <2>4. registrations'[n] = row
    BY <1>1, <2>1 DEF TypeOK
  <2>5. QED
    BY <2>2, <2>3, <2>4 DEF TablesAgree
<1>5. ASSUME NEW n \in Name, NEW from \in Owner, NEW owner \in Owner,
             NEW was \in Root \cup {None}, NEW id \in TransferId, NEW r \in Root,
             Transfer(n, from, owner, was, id, r)
      PROVE TablesAgree'
  <2>1. PICK row \in Registration :
            registrations' = [registrations EXCEPT ![n] = row] /\ row.root = r
    BY <1>5, TransferEffect
  <2>2. profiles' = [profiles EXCEPT ![n] = r]
    BY <1>5 DEF Transfer
  <2>3. QED
    BY <1>1, <2>1, <2>2 DEF TablesAgree, Registered, TypeOK
<1>6. CASE UNCHANGED <<profiles, registrations>>
  BY <1>1, <1>6 DEF TablesAgree, Registered
<1>7. QED
  BY <1>2, <1>3, <1>4, <1>5, <1>6
     DEF Next, CheckOffer, StoreOffer, Restart, Tick, tables

\* An unreserved name changes hands by taking its offer, which is deleted.
LEMMA OffersNext == IInv /\ Next => OffersAreTheOwners' /\ OffersOnRecord'
<1> SUFFICES ASSUME IInv, Next PROVE OffersAreTheOwners' /\ OffersOnRecord'
  OBVIOUS
<1> USE NamesAssumption DEF OffersAreTheOwners, OffersOnRecord
<1>1. TypeOK /\ OffersAreTheOwners /\ OffersOnRecord
  BY DEF IInv
<1>2. ASSUME NEW n \in Name, NEW r \in Root, Publish(n, r)
      PROVE  OffersAreTheOwners' /\ OffersOnRecord'
  <2>1. profiles[n] = None /\ offers[n] # None => Registered(n)
    <3> SUFFICES ASSUME profiles[n] = None, offers[n] # None, ~Registered(n)
                 PROVE  FALSE
      OBVIOUS
    <3>1. offers[n] \in Proof /\ offers[n].from = None
      BY <1>1 DEF TypeOK
    <3>2. QED
      BY <3>1 DEF Proof
  <2>2. QED
    BY <1>1, <1>2, <2>1 DEF Publish, Registered, TypeOK
<1>3. ASSUME NEW n \in Name, NEW r \in Root, Accept(n, r)
      PROVE  OffersAreTheOwners' /\ OffersOnRecord'
  BY <1>1, <1>3 DEF Accept, Spent, Registered, TypeOK
<1>4. ASSUME NEW n \in Name, NEW owner \in Owner, NEW r \in Root \cup {None},
             Reserve(n, owner, r)
      PROVE  OffersAreTheOwners' /\ OffersOnRecord'
  <2>1. PICK row \in Registration :
            registrations' = [registrations EXCEPT ![n] = row]
    BY <1>1, <1>4, ReserveEffect
  <2>2. Registered(n)' /\ \A m \in Name \ {n} : Registered(m)' = Registered(m)
    BY <1>1, <2>1 DEF Registered, TypeOK
  <2>3. UNCHANGED <<offers, offered>> /\ \A m \in Name \ {n} : profiles'[m] = profiles[m]
    BY <1>1, <1>4 DEF Reserve, TypeOK
  <2>4. QED
    BY <1>1, <2>2, <2>3
<1>5. ASSUME NEW n \in Name, NEW from \in Owner, NEW owner \in Owner,
             NEW was \in Root \cup {None}, NEW id \in TransferId, NEW r \in Root,
             Transfer(n, from, owner, was, id, r)
      PROVE  OffersAreTheOwners' /\ OffersOnRecord'
  <2>1. PICK row \in Registration :
            registrations' = [registrations EXCEPT ![n] = row]
    BY <1>5, TransferEffect
  <2>2. Registered(n)' /\ \A m \in Name \ {n} : Registered(m)' = Registered(m)
    BY <1>1, <2>1 DEF Registered, TypeOK
  <2>3. UNCHANGED <<offers, offered>> /\ \A m \in Name \ {n} : profiles'[m] = profiles[m]
    BY <1>1, <1>5 DEF Transfer, TypeOK
  <2>4. QED
    BY <1>1, <2>2, <2>3
<1>6. ASSUME StoreOffer PROVE OffersAreTheOwners' /\ OffersOnRecord'
  <2>1. CASE UNCHANGED <<offers, offered>>
    BY <1>1, <1>6, <2>1, OfferEffect DEF Registered
  <2>2. CASE ~UNCHANGED <<offers, offered>>
    <3>1. /\ checked \in Proof
          /\ profiles[checked.name] = checked.from
          /\ offers' = [offers EXCEPT ![checked.name] = checked]
          /\ offered' = offered \cup {checked}
          /\ UNCHANGED <<profiles, registrations>>
      BY <1>1, <1>6, <2>2, OfferEffect
    <3>2. QED
      BY <1>1, <3>1 DEF Registered, TypeOK
  <2>3. QED
    BY <2>1, <2>2
<1>7. CASE UNCHANGED <<profiles, registrations, offers, offered>>
  BY <1>1, <1>7 DEF Registered
<1>8. QED
  BY <1>2, <1>3, <1>4, <1>5, <1>6, <1>7 DEF Next, CheckOffer, Restart, Tick, tables

\* Proofs are forgotten only past their freshness, and time goes forward.
LEMMA SpentNext == IInv /\ Next => SpentIsRemembered'
<1> SUFFICES ASSUME IInv, Next, NEW p \in offered'
             PROVE  p \in proofs' \/ p.ts + Window < clock'
  BY DEF SpentIsRemembered
<1> USE NamesAssumption
<1>1. TypeOK /\ SpentIsRemembered
  BY DEF IInv
<1>2. clock \in Nat /\ clock' \in Nat /\ clock' >= clock
  <2>1. clock \in Nat
    BY <1>1 DEF TypeOK, Time
  <2>2. clock' = clock \/ clock' = clock + 1
    BY DEF Next, Publish, Accept, Reserve, Transfer, CheckOffer, StoreOffer,
       Restart, Tick
  <2>3. QED
    BY <2>1, <2>2
<1>3. CASE UNCHANGED <<proofs, offered>>
  <2>1. p \in Proof /\ p.ts \in Nat
    BY <1>1, <1>3 DEF TypeOK, Proof, Time
  <2>2. QED
    BY <1>1, <1>2, <1>3, <2>1 DEF SpentIsRemembered
<1>4. CASE StoreOffer /\ ~UNCHANGED <<proofs, offered>>
  <2>1. /\ checked \in Proof
        /\ proofs' = Remembered \cup {checked}
        /\ offered' = offered \cup {checked}
        /\ clock' = clock
    BY <1>1, <1>4, OfferEffect
  <2>2. CASE p = checked
    BY <2>1, <2>2
  <2>3. CASE p \in offered
    <3>1. p.ts \in Nat
      BY <1>1, <2>3 DEF TypeOK, Proof, Time
    <3>2. QED
      BY <1>1, <1>2, <2>1, <2>3, <3>1 DEF SpentIsRemembered, Remembered
  <2>4. QED
    BY <2>1, <2>2, <2>3
<1>5. QED
  BY <1>3, <1>4
     DEF Next, Publish, Accept, Reserve, Transfer, CheckOffer, Restart, Tick, tables

LEMMA InvNext == IInv /\ [Next]_vars => IInv'
<1> SUFFICES ASSUME IInv, [Next]_vars PROVE IInv'
  OBVIOUS
<1>1. TypeOK'
  BY TypeNext DEF IInv
<1>2. CASE Next
  BY <1>1, <1>2, TablesNext, OffersNext, SpentNext DEF IInv
<1>3. CASE UNCHANGED vars
  BY <1>1, <1>3 DEF IInv, vars, tables, TablesAgree, OffersAreTheOwners,
     OffersOnRecord, SpentIsRemembered, Registered
<1>4. QED
  BY <1>2, <1>3

-----------------------------------------------------------------------------
(* The theorems.                                                           *)

\* The tables always hold what their columns say (src/store.rs).
THEOREM NamesTyped == Spec => []TypeOK
<1>1. QED
  BY TypeInit, TypeNext, PTL DEF Spec

\* The inductive invariant.
THEOREM NamesInvariant == Spec => []IInv
<1>1. QED
  BY InvInit, InvNext, PTL DEF Spec

\* A reserved name is published under its reservation's root or not at all,
\* in whatever order the registrar, the holders and restarts act.
THEOREM TablesStayTogether == Spec => []TablesAgree
<1>1. IInv => TablesAgree
  BY DEF IInv
<1>2. QED
  BY <1>1, NamesInvariant, PTL

\* A pending offer of an unreserved name is its present holder's.
THEOREM OffersStayTheOwners == Spec => []OffersAreTheOwners
<1>1. IInv => OffersAreTheOwners
  BY DEF IInv
<1>2. QED
  BY <1>1, NamesInvariant, PTL

\* A name leaves its root by its holder's offer or a new transfer only.
THEOREM MovedByConsent == Spec => MovesByConsent
<1> DEFINE Consent(n) ==
        profiles[n] # None /\ profiles'[n] # profiles[n] =>
            \/ Registered(n) /\ registrations'[n].transfer \notin usedIds \cup {None}
            \/ /\ ~Registered(n) /\ offers[n] \in offered
               /\ offers[n].from = profiles[n] /\ offers[n].to = profiles'[n]
<1>1. ASSUME IInv, Next, NEW k \in Name PROVE Consent(k)
  <2> USE NamesAssumption
  <2>1. TypeOK /\ TablesAgree /\ OffersOnRecord
    BY <1>1 DEF IInv
  <2>2. ASSUME NEW n \in Name, NEW r \in Root, Publish(n, r) PROVE Consent(k)
    BY <2>1, <2>2 DEF Publish, TypeOK
  <2>3. ASSUME NEW n \in Name, NEW r \in Root, Accept(n, r) PROVE Consent(k)
    <3>1. ~Registered(n)
      BY <2>1, <2>3 DEF Accept, Unreserved, TablesAgree
    <3>2. offers[n] \in offered
      BY <2>1, <2>3 DEF Accept, Accepts, OffersOnRecord
    <3>3. QED
      BY <2>1, <2>3, <3>1, <3>2 DEF Accept, Accepts, TypeOK
  <2>4. ASSUME NEW n \in Name, NEW owner \in Owner, NEW r \in Root \cup {None},
               Reserve(n, owner, r)
        PROVE Consent(k)
    BY <2>1, <2>4 DEF Reserve, Free, TypeOK
  <2>5. ASSUME NEW n \in Name, NEW from \in Owner, NEW owner \in Owner,
               NEW was \in Root \cup {None}, NEW id \in TransferId, NEW r \in Root,
               Transfer(n, from, owner, was, id, r)
        PROVE Consent(k)
    <3>1. PICK row \in Registration :
              registrations' = [registrations EXCEPT ![n] = row] /\ row.transfer = id
      BY <2>5, TransferEffect
    <3>2. registrations'[n].transfer = id /\ id \notin usedIds \cup {None}
          /\ Registered(n)
      BY <2>1, <2>5, <3>1 DEF Transfer, Unused, TypeOK
    <3>3. profiles' = [profiles EXCEPT ![n] = r]
      BY <2>5 DEF Transfer
    <3>4. QED
      BY <2>1, <3>2, <3>3 DEF TypeOK
  <2>6. CASE UNCHANGED profiles
    BY <2>6
  <2>7. QED
    BY <1>1, <2>2, <2>3, <2>4, <2>5, <2>6
       DEF Next, CheckOffer, StoreOffer, Restart, Tick, tables
<1>2. ASSUME IInv, [Next]_vars PROVE [\A n \in Name : Consent(n)]_vars
  BY <1>1, <1>2
<1>3. QED
  BY <1>2, NamesInvariant, PTL DEF Spec, MovesByConsent

\* A reserved name stays with its account until a transfer not completed
\* before, whatever is retried.
THEOREM TransferredOnce == Spec => TransfersOnce
<1> DEFINE Once(n) ==
        Registered(n) /\ registrations'[n] # registrations[n] =>
            \/ registrations'[n].transfer \in usedIds' \ usedIds
            \/ /\ registrations[n].root = None
               /\ registrations'[n] = [registrations[n] EXCEPT !.root = profiles'[n]]
<1>1. ASSUME TypeOK, Next, NEW k \in Name PROVE Once(k)
  <2> USE NamesAssumption
  <2>1. ASSUME NEW n \in Name, NEW owner \in Owner, NEW r \in Root \cup {None},
               Reserve(n, owner, r)
        PROVE Once(k)
    <3>1. PICK row \in Registration :
              /\ registrations' = [registrations EXCEPT ![n] = row]
              /\ \/ ~Registered(n)
                 \/ Registered(n) /\ row = registrations[n]
                 \/ /\ Registered(n) /\ registrations[n].root = None
                    /\ row = [registrations[n] EXCEPT !.root = r]
      BY <1>1, <2>1, ReserveEffect
    <3>2. CASE r # None
      <4>1. profiles'[n] = r
        BY <1>1, <2>1, <3>2 DEF Reserve, TypeOK
      <4>2. QED
        BY <1>1, <3>1, <4>1 DEF TypeOK
    <3>3. CASE r = None
      <4>1. Registered(n) => registrations'[n] = registrations[n]
        BY <1>1, <2>1, <3>3 DEF Reserve, Registered, TypeOK, Registration
      <4>2. QED
        BY <1>1, <3>1, <4>1 DEF TypeOK
    <3>4. QED
      BY <3>2, <3>3
  <2>2. ASSUME NEW n \in Name, NEW from \in Owner, NEW owner \in Owner,
               NEW was \in Root \cup {None}, NEW id \in TransferId, NEW r \in Root,
               Transfer(n, from, owner, was, id, r)
        PROVE Once(k)
    <3>1. PICK row \in Registration :
              registrations' = [registrations EXCEPT ![n] = row] /\ row.transfer = id
      BY <2>2, TransferEffect
    <3>2. id \in usedIds' \ usedIds
      BY <2>2 DEF Transfer, Unused
    <3>3. QED
      BY <1>1, <3>1, <3>2 DEF TypeOK
  <2>3. CASE UNCHANGED registrations
    BY <2>3
  <2>4. QED
    BY <1>1, <2>1, <2>2, <2>3
       DEF Next, Publish, Accept, CheckOffer, StoreOffer, Restart, Tick, tables
<1>2. ASSUME TypeOK, [Next]_vars PROVE [\A n \in Name : Once(n)]_vars
  BY <1>1, <1>2
<1>3. QED
  BY <1>2, NamesTyped, PTL DEF Spec, TransfersOnce

\* A proof that made an offer makes none again while it is fresh.
THEOREM ProofsStaySpent == Spec => ProofsAreSpent
<1> DEFINE Late(n) ==
        offers'[n] # offers[n] /\ offers'[n] \in offered
        => clock > offers'[n].ts + Window
<1>1. ASSUME IInv, Next, NEW n \in Name PROVE Late(n)
  <2> USE NamesAssumption
  <2>1. TypeOK /\ SpentIsRemembered
    BY <1>1 DEF IInv
  <2>2. CASE StoreOffer /\ offers'[n] # offers[n] /\ offers'[n] \in offered
    <3>1. /\ checked \in Proof /\ checked \notin Remembered
          /\ offers' = [offers EXCEPT ![checked.name] = checked]
      BY <2>1, <2>2, OfferEffect
    <3>2. offers'[n] = checked /\ checked \in offered
      BY <2>1, <2>2, <3>1 DEF TypeOK
    <3>3. checked.ts \in Nat /\ clock \in Nat
      BY <2>1, <3>1 DEF TypeOK, Proof, Time
    <3>4. checked \in proofs => checked.ts + Window < clock
      BY <3>1, <3>3 DEF Remembered
    <3>5. QED
      BY <2>1, <3>2, <3>3, <3>4 DEF SpentIsRemembered
  <2>3. CASE ~StoreOffer
    <3>1. offers'[n] = offers[n] \/ offers'[n] = None
      BY <1>1, <2>1, <2>3
         DEF Next, Publish, Accept, Spent, Reserve, Transfer, CheckOffer, Restart,
             Tick, tables, TypeOK
    <3>2. None \notin offered
      BY <2>1 DEF TypeOK
    <3>3. QED
      BY <3>1, <3>2
  <2>4. QED
    BY <2>2, <2>3
<1>2. ASSUME IInv, [Next]_vars PROVE [\A n \in Name : Late(n)]_vars
  BY <1>1, <1>2
<1>3. QED
  BY <1>2, NamesInvariant, PTL DEF Spec, ProofsAreSpent

====
