---- MODULE AdmissionProofs ----
(***************************************************************************)
(* Proofs about Admission.  Every step of it is a step of Names or changes *)
(* none of the name tables, so what NamesProofs shows of the tables holds  *)
(* behind the allowlist too; MembersOnly is inductive with GateFromMembers *)
(* (whatever lets a root in comes from the dashboard).                     *)
(***************************************************************************)
EXTENDS Admission, NamesProofs

\* A relay that asks for membership does to its tables what Names allows.
LEMMA StepIsNames ==
    ASSUME AdmissionTypeOK, [AdmissionNext]_admissionVars
    PROVE  [Next]_vars
<1>1. CASE StoreCall
  <2>1. call.root \in Root
    BY <1>1, NamesAssumption DEF StoreCall, AdmissionTypeOK, Calls, NoCall
  <2>2. CASE \E n \in Name, owner \in Owner : Reserve(n, owner, call.root)
    BY <2>1, <2>2 DEF Next
  <2>3. CASE \E n \in Name, from, owner \in Owner, was \in Root \cup {None},
                id \in TransferId : Transfer(n, from, owner, was, id, call.root)
    BY <2>1, <2>3 DEF Next
  <2>4. CASE \E n \in Name, owner \in Owner, id \in TransferId :
                Completed(n, owner, id, call.root)
    BY <2>4 DEF Completed
  <2>5. QED
    BY <1>1, <2>2, <2>3, <2>4 DEF StoreCall
<1>2. ASSUME NEW n \in Name, NEW owner \in Owner, ReserveOnly(n, owner)
      PROVE  Next
  BY <1>2 DEF ReserveOnly, Next
<1>3. CASE StoreAddr
  <2>1. entering \in Entry
    BY <1>3 DEF StoreAddr, AdmissionTypeOK
  <2>2. entering.name \in Name /\ entering.root \in Root
    BY <2>1 DEF Entry
  <2>3. QED
    BY <1>3, <2>2 DEF StoreAddr, Next
<1>4. CASE Offer
  BY <1>4 DEF Offer, Next
<1>5. ASSUME NEW token \in BOOLEAN, RestartRelay(token) PROVE Next
  BY <1>5 DEF RestartRelay, Next
<1>6. CASE Wait
  BY <1>6 DEF Wait, Next
<1>7. CASE UNCHANGED vars
  BY <1>7
<1>8. QED
  BY <1>1, <1>2, <1>3, <1>4, <1>5, <1>6, <1>7
     DEF AdmissionNext, ChangeMember, SendCall, LoseCall, Approve, AskAddr,
         FetchSnapshot, InstallSnapshot, admissionVars

\* What the gate keeps: types, and that every root in it was a member's.
GateTypeOK ==
    /\ members \subseteq Root /\ changes \in 0 .. MaxChanges
    /\ allowed \in RootSet /\ fetched \in RootSet
    /\ call \in Calls /\ entering \in Entry \cup {None}
    /\ everMembers \subseteq Root

\* The inductive invariant.
GateInv == TypeOK /\ GateTypeOK /\ GateFromMembers /\ MembersOnly

LEMMA GateInit == AdmissionInit => GateInv
<1> SUFFICES ASSUME AdmissionInit PROVE GateInv
  OBVIOUS
<1> USE NamesAssumption, AdmissionAssumption DEF AdmissionInit
<1>1. TypeOK
  BY TypeInit
<1>2. GateTypeOK
  BY DEF GateTypeOK, RootSet, Unknown, Calls, NoCall
<1>3. GateFromMembers
  BY DEF GateFromMembers, Unknown, NoCall
<1>4. MembersOnly
  BY DEF MembersOnly, Init
<1>5. QED
  BY <1>1, <1>2, <1>3, <1>4 DEF GateInv

\* Only a stored call or a POST /addr past the gate gives a name a new root.
LEMMA NewHolder ==
    ASSUME GateInv, AdmissionNext, NEW n \in Name, profiles'[n] # profiles[n]
    PROVE  \/ call.pc = "sent" /\ profiles'[n] = call.root
           \/ entering # None /\ profiles'[n] = entering.root
<1> USE DEF GateInv
<1>1. profiles \in [Name -> Root \cup {None}]
  BY DEF TypeOK
<1>2. CASE StoreCall
  <2>1. ASSUME NEW k \in Name, NEW owner \in Owner, Reserve(k, owner, call.root)
        PROVE  profiles'[n] = call.root
    BY <1>1, <2>1 DEF Reserve
  <2>2. ASSUME NEW k \in Name, NEW from \in Owner, NEW owner \in Owner,
               NEW was \in Root \cup {None}, NEW id \in TransferId,
               Transfer(k, from, owner, was, id, call.root)
        PROVE  profiles'[n] = call.root
    BY <1>1, <2>2 DEF Transfer
  <2>3. ASSUME NEW k \in Name, NEW owner \in Owner, NEW id \in TransferId,
               Completed(k, owner, id, call.root)
        PROVE  FALSE
    BY <2>3 DEF Completed, vars, tables
  <2>4. QED
    BY <1>2, <2>1, <2>2, <2>3 DEF StoreCall
<1>3. CASE StoreAddr
  BY <1>1, <1>3 DEF StoreAddr, Publish, Accept, vars, tables
<1>4. ASSUME NEW k \in Name, NEW owner \in Owner, ReserveOnly(k, owner) PROVE FALSE
  BY <1>4 DEF ReserveOnly, Reserve
<1>5. CASE UNCHANGED profiles
  BY <1>5
<1>6. QED
  BY <1>2, <1>3, <1>4, <1>5
     DEF AdmissionNext, ChangeMember, SendCall, LoseCall, Approve, AskAddr, Offer,
         StoreOffer, CheckOffer, FetchSnapshot, InstallSnapshot, RestartRelay,
         Restart, Wait, Tick, vars, tables

LEMMA GateNext == GateInv /\ [AdmissionNext]_admissionVars => GateInv'
<1> SUFFICES ASSUME GateInv, [AdmissionNext]_admissionVars PROVE GateInv'
  OBVIOUS
<1> USE NamesAssumption, AdmissionAssumption
<1>1. TypeOK /\ GateTypeOK /\ GateFromMembers /\ MembersOnly
  BY DEF GateInv
<1>2. TypeOK'
  <2>1. AdmissionTypeOK
    BY <1>1 DEF AdmissionTypeOK, GateTypeOK
  <2>2. QED
    BY <1>1, <2>1, StepIsNames, TypeNext
<1>3. CASE UNCHANGED admissionVars
  BY <1>1, <1>2, <1>3
     DEF admissionVars, gate, vars, tables, GateInv, GateTypeOK, GateFromMembers, MembersOnly
<1>4. CASE AdmissionNext
  <2>1. GateTypeOK' /\ GateFromMembers'
    <3> USE <1>1 DEF GateTypeOK, GateFromMembers, RootSet, Known, Unknown, Calls, NoCall, Entry
    <3>1. ASSUME NEW r \in Root, ChangeMember(r) PROVE GateTypeOK' /\ GateFromMembers'
      BY <3>1 DEF ChangeMember
    <3>2. ASSUME NEW r \in Root, SendCall(r) PROVE GateTypeOK' /\ GateFromMembers'
      BY <3>2 DEF SendCall
    <3>3. CASE StoreCall
      <4>1. call \in [pc : {"sent", "stored"}, root : Root]
        BY <3>3 DEF StoreCall
      <4>2. call' = [call EXCEPT !.pc = "stored"]
        BY <3>3 DEF StoreCall
      <4>3. call' \in Calls /\ call'.root = call.root
        BY <4>1, <4>2
      <4>4. call.root \in everMembers
        BY <3>3 DEF StoreCall
      <4>5. UNCHANGED <<members, changes, allowed, fetched, entering, everMembers>>
        BY <3>3 DEF StoreCall
      <4>6. QED
        BY <4>3, <4>4, <4>5
    <3>4. CASE LoseCall
      BY <3>4 DEF LoseCall
    <3>5. CASE Approve
      <4>1. call.root \in Root /\ call.root \in everMembers
        BY <3>5 DEF Approve
      <4>2. QED
        BY <3>5, <4>1 DEF Approve
    <3>6. ASSUME NEW n \in Name, NEW owner \in Owner, ReserveOnly(n, owner)
          PROVE  GateTypeOK' /\ GateFromMembers'
      BY <3>6 DEF ReserveOnly, gate
    <3>7. ASSUME NEW n \in Name, NEW r \in Root, AskAddr(n, r)
          PROVE  GateTypeOK' /\ GateFromMembers'
      BY <3>7 DEF AskAddr, AllowRoot
    <3>8. CASE StoreAddr
      BY <3>8 DEF StoreAddr
    <3>9. CASE Offer \/ Wait
      BY <3>9 DEF Offer, Wait, gate
    <3>10. CASE FetchSnapshot
      BY <3>10 DEF FetchSnapshot
    <3>11. CASE InstallSnapshot
      BY <3>11 DEF InstallSnapshot, Snapshot
    <3>12. ASSUME NEW token \in BOOLEAN, RestartRelay(token)
           PROVE  GateTypeOK' /\ GateFromMembers'
      BY <3>12 DEF RestartRelay
    <3>13. QED
      BY <1>4, <3>1, <3>2, <3>3, <3>4, <3>5, <3>6, <3>7, <3>8, <3>9, <3>10, <3>11, <3>12
         DEF AdmissionNext
  <2>2. MembersOnly'
    <3> SUFFICES ASSUME NEW n \in Name, profiles'[n] # None
                 PROVE  profiles'[n] \in everMembers'
      BY DEF MembersOnly
    <3>1. everMembers \subseteq everMembers'
      BY <1>4
         DEF AdmissionNext, ChangeMember, SendCall, StoreCall, LoseCall, Approve, ReserveOnly,
             AskAddr, StoreAddr, Offer, FetchSnapshot, InstallSnapshot, RestartRelay, Wait, gate
    <3>2. CASE profiles'[n] = profiles[n]
      BY <1>1, <3>1, <3>2 DEF MembersOnly
    <3>3. CASE profiles'[n] # profiles[n]
      <4>1. \/ call.pc = "sent" /\ profiles'[n] = call.root
            \/ entering # None /\ profiles'[n] = entering.root
        BY <1>4, <3>3, NewHolder
      <4>2. QED
        BY <1>1, <3>1, <4>1 DEF GateFromMembers
    <3>4. QED
      BY <3>2, <3>3
  <2>3. QED
    BY <1>2, <2>1, <2>2 DEF GateInv
<1>5. QED
  BY <1>3, <1>4

-----------------------------------------------------------------------------

\* The inductive invariant holds throughout.
THEOREM GateInvariant == AdmissionSpec => []GateInv
<1>1. QED
  BY GateInit, GateNext, PTL DEF AdmissionSpec

\* The name tables and all that the gate keeps have their types.
THEOREM AdmissionTyped == AdmissionSpec => []AdmissionTypeOK
<1>1. GateInv => AdmissionTypeOK
  BY DEF GateInv, GateTypeOK, AdmissionTypeOK
<1>2. QED
  BY <1>1, GateInvariant, PTL

\* Only roots that were members at some time ever hold a name (allow_root,
\* post_registration): for every team, snapshot, approval and restart.
THEOREM OnlyMembersEver == AdmissionSpec => []MembersOnly
<1>1. GateInv => MembersOnly
  BY DEF GateInv
<1>2. QED
  BY <1>1, GateInvariant, PTL

\* With the allowlist a relay is still one of Names: what is checked before the
\* store's transactions adds no behaviour to the tables.
THEOREM AdmissionIsNames == AdmissionSpec => Spec
<1>1. AdmissionInit => Init
  BY DEF AdmissionInit
<1>2. AdmissionTypeOK /\ [AdmissionNext]_admissionVars => [Next]_vars
  BY StepIsNames
<1>3. QED
  BY <1>1, <1>2, AdmissionTyped, PTL DEF AdmissionSpec, Spec

\* A reserved name stays published under its reservation's root, behind the
\* allowlist as without it.
THEOREM MembersTablesAgree == AdmissionSpec => []TablesAgree
<1>1. QED
  BY AdmissionIsNames, TablesStayTogether, PTL

\* No name moves without its holder's offer or a new transfer, whoever the
\* snapshots let in.
THEOREM MembersMoveByConsent == AdmissionSpec => MovesByConsent
<1>1. QED
  BY AdmissionIsNames, MovedByConsent, PTL

\* A completed transfer does not move a name again.
THEOREM MembersTransferOnce == AdmissionSpec => TransfersOnce
<1>1. QED
  BY AdmissionIsNames, TransferredOnce, PTL

\* A proof of a transfer is spent.
THEOREM MembersProofsAreSpent == AdmissionSpec => ProofsAreSpent
<1>1. QED
  BY AdmissionIsNames, ProofsStaySpent, PTL

====
