---- MODULE ReportingProofs ----
(***************************************************************************)
(* What Reporting's safety properties rest on, for any number of           *)
(* envelopes, batches of any size and any number of faults.                *)
(***************************************************************************)
EXTENDS Reporting, FiniteSetTheorems, WellFoundedInduction, NaturalsInduction, TLAPS

\* What is queued, in hand or remembered has a number that was given out.
Given(set) == \A g \in set : g <= lastGseq

Numbered ==
    /\ Given(Stored) /\ Given(reports) /\ Given(batch) /\ Given(owed)
    /\ Given(accepted) /\ Given({current})

\* A report in hand left the batch, was posted, and was received when the
\* answer says so.
InHand ==
    /\ batch \subseteq reports
    /\ current \notin batch
    /\ current # 0 => current \in tried /\ current \in reports
    /\ answer = "accepted" => current \in received

\* What was accepted and is queued all the same, but for the report that the
\* pass is about to settle: what a fault left behind.
Spoiled == {g \in accepted \cap reports : ~(g = current /\ answer = "accepted")}

\* Every such report, and every repeat of one, was paid for with a fault.
FaultsPay == repeats + Cardinality(Spoiled) <= faults

\* Only what was tried waits, and what comes before an untried report of the
\* batch was tried or is in the batch itself.
OldestFirst ==
    /\ waiting \subseteq tried
    /\ \A b \in batch \ tried : \A g \in reports \cap Stored :
           g < b => g \in tried \cup batch

\* The inductive invariant.
IInv ==
    /\ TypeOK /\ Numbered /\ InHand
    /\ NothingIsLost /\ OldestFirst /\ FaultsPay

-----------------------------------------------------------------------------
(* About the batch.                                                        *)

LEMMA GseqFinite ==
    ASSUME NEW S, S \subseteq Gseq
    PROVE  IsFiniteSet(S)
<1>1. MaxGseq \in Nat
  BY ReportingAssumption
<1>2. IsFiniteSet(Gseq)
  BY <1>1, FS_Interval DEF Gseq
<1> QED
  BY <1>2, FS_Subset

\* A set of numbers given out has a greatest one.
LEMMA HasLargest ==
    ASSUME NEW S, S \subseteq Gseq, S # {}
    PROVE  \E m \in S : \A g \in S : g <= m
<1> DEFINE T == {k \in Nat : \E g \in S : k = MaxGseq - g}
<1>0. MaxGseq \in Nat
  BY ReportingAssumption
<1>1. PICK s \in S : TRUE
  OBVIOUS
<1>2. MaxGseq - s \in T
  BY <1>0, <1>1 DEF Gseq
<1>3. PICK k \in T : \A l \in T : ~(<<l, k>> \in OpToRel(<, Nat))
  <2>1. T \subseteq Nat /\ T # {}
    BY <1>2
  <2> HIDE DEF T
  <2> QED
    BY <2>1, NatLessThanWellFounded, WFMin
<1>4. PICK m \in S : k = MaxGseq - m
  BY <1>3
<1>5. ASSUME NEW g \in S PROVE g <= m
  <2>1. MaxGseq - g \in T
    BY <1>0 DEF Gseq
  <2>2. ~(MaxGseq - g < k)
    BY <1>3, <2>1 DEF OpToRel
  <2> QED
    BY <1>0, <1>4, <2>2 DEF Gseq
<1> QED
  BY <1>5

\* ORDER BY gseq LIMIT returns no more rows than its limit.
LEMMA OldestIsBounded ==
    ASSUME NEW S, S \subseteq Gseq
    PROVE  Oldest(S) \subseteq S /\ Cardinality(Oldest(S)) <= Batch
<1> DEFINE O == Oldest(S)
<1>0. O \subseteq S /\ Batch \in Nat \ {0}
  BY ReportingAssumption DEF Oldest
<1>1. CASE O = {}
  BY <1>0, <1>1, FS_EmptySet
<1>2. CASE O # {}
  <2>1. PICK m \in O : \A g \in O : g <= m
    <3>1. O \subseteq Gseq
      BY <1>0
    <3> HIDE DEF O
    <3> QED
      BY <1>2, <3>1, HasLargest
  <2> DEFINE L == {h \in S : h < m}
  <2>2. IsFiniteSet(L) /\ Cardinality(L) < Batch
    <3>1. L \subseteq Gseq
      OBVIOUS
    <3> QED
      BY <2>1, <3>1, GseqFinite DEF Oldest
  <2>3. m \notin L /\ m \in Nat
    <3>1. MaxGseq \in Nat /\ m \in 1 .. MaxGseq
      BY <1>0, <2>1, ReportingAssumption DEF Gseq
    <3> QED
      BY <3>1
  <2>4. IsFiniteSet(L \cup {m}) /\ Cardinality(L \cup {m}) = Cardinality(L) + 1
    <3> HIDE DEF L
    <3> QED
      BY <2>2, <2>3, FS_AddElement
  <2>5. O \subseteq L \cup {m}
    <3>1. MaxGseq \in Nat /\ S \subseteq 1 .. MaxGseq
      BY ReportingAssumption DEF Gseq
    <3>2. ASSUME NEW g \in O PROVE g = m \/ g < m
      <4>1. g \in S /\ m \in S
        BY <1>0
      <4>2. g \in Int /\ m \in Int
        BY <3>1, <4>1
      <4>3. g <= m
        BY <2>1
      <4> HIDE DEF O
      <4> QED
        BY <4>2, <4>3
    <3> QED
      BY <1>0, <3>2
  <2>6. Cardinality(O) <= Cardinality(L) + 1
    <3> HIDE DEF O, L
    <3> QED
      BY <2>4, <2>5, FS_Subset
  <2>7. Cardinality(L) \in Nat /\ Cardinality(O) \in Nat
    <3>1. O \subseteq Gseq
      BY <1>0
    <3> HIDE DEF O, L
    <3> QED
      BY <2>2, <3>1, GseqFinite, FS_CardinalityType
  <2>8. Cardinality(O) <= Batch
    <3> HIDE DEF O, L
    <3> QED
      BY <1>0, <2>2, <2>6, <2>7
  <2> QED
    BY <1>0, <2>8
<1> QED
  BY <1>0, <1>1, <1>2

\* Whatever is smaller than a row of the batch was selected with it.
LEMMA OldestIsInitial ==
    ASSUME NEW S, S \subseteq Gseq, NEW b \in Oldest(S), NEW g \in S, g < b
    PROVE  g \in Oldest(S)
<1> DEFINE A == {h \in S : h < g}
           B == {h \in S : h < b}
<1>0. MaxGseq \in Nat /\ S \subseteq 1 .. MaxGseq /\ b \in S
  BY ReportingAssumption DEF Oldest, Gseq
<1>1. A \subseteq B /\ A \subseteq Gseq /\ B \subseteq Gseq
  <2>1. ASSUME NEW h \in S, h < g PROVE h < b
    <3>1. h \in Int /\ g \in Int /\ b \in Int
      BY <1>0
    <3> QED
      BY <2>1, <3>1
  <2> QED
    BY <2>1
<1>2. Cardinality(A) <= Cardinality(B) /\ Cardinality(A) \in Nat /\ Cardinality(B) \in Nat
  <2> HIDE DEF A, B
  <2> QED
    BY <1>1, GseqFinite, FS_Subset, FS_CardinalityType
<1>3. Cardinality(B) < Batch
  BY DEF Oldest
<1>4. Cardinality(A) < Batch
  <2> HIDE DEF A, B
  <2> QED
    BY <1>2, <1>3, ReportingAssumption
<1> QED
  BY <1>4 DEF Oldest

-----------------------------------------------------------------------------
(* The invariant.                                                          *)

LEMMA InitIInv == Init => IInv
<1> SUFFICES ASSUME Init PROVE IInv
  OBVIOUS
<1>1. Cardinality({}) = 0
  BY FS_EmptySet
<1>2. TypeOK
  BY <1>1, ReportingAssumption DEF Init, TypeOK, Gseq
<1>3. FaultsPay
  <2>1. Spoiled = {} /\ repeats = 0 /\ faults = 0
    BY DEF Init, Spoiled
  <2> QED
    BY <1>1, <2>1 DEF FaultsPay
<1> QED
  BY <1>2, <1>3 DEF Init, IInv, Numbered, Given, InHand, NothingIsLost, OldestFirst, Stored

\* A step of the thread takes rows that are queued, each once.
LEMMA TypeNext == IInv /\ [Next]_vars => TypeOK'
<1> SUFFICES ASSUME IInv, [Next]_vars PROVE TypeOK'
  OBVIOUS
<1> USE ReportingAssumption
<1>0. TypeOK /\ IsFiniteSet(batch)
  BY GseqFinite DEF IInv, TypeOK
<1>1. ASSUME NEW e \in Env, Resubmit(e) PROVE TypeOK'
  BY <1>0, <1>1 DEF TypeOK, Resubmit, Queued, pass, history
<1>2. ASSUME NEW e \in Env, Append(e) PROVE TypeOK'
  BY <1>0, <1>2 DEF TypeOK, Append, pass, Gseq
<1>3. ASSUME NEW m \in msgs, Delete(m) PROVE TypeOK'
  BY <1>0, <1>3 DEF TypeOK, Delete, pass, history
<1>4. ASSUME NEW g \in waiting, BackoffOver(g) PROVE TypeOK'
  BY <1>0, <1>4 DEF TypeOK, BackoffOver, pass, history
<1>5. ASSUME SelectDue PROVE TypeOK'
  <2> DEFINE due == (reports \cap Stored) \ waiting
  <2>1. due \subseteq Gseq
    BY <1>0 DEF TypeOK
  <2>2. Oldest(due) \subseteq due /\ Cardinality(Oldest(due)) <= Batch
    <3> HIDE DEF due
    <3> QED
      BY <2>1, OldestIsBounded
  <2>3. batch' \subseteq Gseq /\ Cardinality(batch') <= Batch
    BY <1>5, <2>1, <2>2 DEF SelectDue
  <2> QED
    BY <1>0, <1>5, <2>3 DEF TypeOK, SelectDue, history
<1>6. ASSUME Post PROVE TypeOK'
  <2>1. PICK g \in batch : batch' = batch \ {g} /\ current' = g /\ tried' = tried \cup {g}
                           /\ answer' \in {"accepted", "failed"} /\ received' \subseteq received \cup {g}
                           /\ accepted' \subseteq accepted \cup {g} /\ repeats' \in Nat
    BY <1>0, <1>6 DEF Post, Receive, Accepted, TypeOK
  <2>2. Cardinality(batch') <= Cardinality(batch)
    BY <1>0, <2>1, FS_Subset
  <2>3. Cardinality(batch') \in Nat /\ Cardinality(batch) \in Nat /\ Cardinality(batch) <= Batch
    BY <1>0, <2>1, FS_Subset, FS_CardinalityType DEF TypeOK
  <2>4. Cardinality(batch') <= Batch
    BY <2>2, <2>3
  <2> QED
    BY <1>0, <1>6, <2>1, <2>4 DEF TypeOK, Post, table, Gseq
<1>7. ASSUME Settle PROVE TypeOK'
  BY <1>0, <1>7 DEF TypeOK, Settle, history
<1>8. ASSUME SettleFailed PROVE TypeOK'
  BY <1>0, <1>8 DEF TypeOK, SettleFailed, table, history
<1>9. ASSUME NEW url \in BOOLEAN, Restart(url) PROVE TypeOK'
  BY <1>0, <1>9, FS_EmptySet DEF TypeOK, Restart, table, history
<1>10. CASE UNCHANGED vars
  BY <1>0, <1>10 DEF TypeOK, vars, table, pass, history
<1> QED
  BY <1>1, <1>2, <1>3, <1>4, <1>5, <1>6, <1>7, <1>8, <1>9, <1>10 DEF Next

\* The invariant but for the types and the count of faults.
Rest == Numbered /\ InHand /\ NothingIsLost /\ OldestFirst

LEMMA RestNext == IInv /\ [Next]_vars => Rest'
<1> SUFFICES ASSUME IInv, [Next]_vars PROVE Rest'
  OBVIOUS
<1> USE ReportingAssumption
<1>0. TypeOK /\ Rest
  BY DEF IInv, Rest
<1> USE DEF Rest, Numbered, Given, InHand, NothingIsLost, OldestFirst, Stored
<1>1. ASSUME NEW e \in Env, Resubmit(e) PROVE Rest'
  BY <1>0, <1>1 DEF Resubmit, Queued, pass, history
<1>2. ASSUME NEW e \in Env, Append(e) PROVE Rest'
  <2> DEFINE g == lastGseq + 1
  <2>1. lastGseq \in Nat /\ lastGseq' = g /\ msgs' = msgs \cup {[gseq |-> g, id |-> e]}
        /\ reports' \subseteq reports \cup {g} /\ reports \subseteq reports'
        /\ owed' \subseteq owed \cup {g} /\ (g \in owed' => g \in reports')
        /\ UNCHANGED <<waiting, batch, current, answer, received, tried, accepted>>
    BY <1>0, <1>2 DEF TypeOK, Append, pass
  <2>2. Stored' = Stored \cup {g}
    <3>1. [gseq |-> g, id |-> e].gseq = g
      OBVIOUS
    <3> HIDE DEF g
    <3> QED
      BY <2>1, <3>1
  <2>3. g \notin owed /\ g \notin accepted /\ \A b \in batch : ~(g < b)
    BY <1>0, <2>1 DEF TypeOK, Gseq
  <2>4. Numbered'
    <3>1. \A x \in Gseq : x <= lastGseq => x <= g
      BY <2>1 DEF Gseq
    <3>2. Stored \subseteq Gseq /\ current \in {0} \cup Gseq
      BY <1>0 DEF TypeOK
    <3>3. 0 <= g /\ g <= g
      BY <2>1
    <3>4. lastGseq' = g /\ Given(Stored)' /\ Given(reports)' /\ Given(owed)'
      BY <1>0, <2>1, <2>2, <3>1, <3>2, <3>3 DEF TypeOK
    <3>5. Given(batch)' /\ Given(accepted)' /\ Given({current})'
      BY <1>0, <2>1, <3>1, <3>2, <3>3 DEF TypeOK
    <3> QED
      BY <3>4, <3>5
  <2>5. NothingIsLost' /\ InHand'
    BY <1>0, <2>1, <2>2, <2>3
  <2>6. OldestFirst'
    BY <1>0, <2>1, <2>2, <2>3
  <2> QED
    BY <2>4, <2>5, <2>6
<1>3. ASSUME NEW m \in msgs, Delete(m) PROVE Rest'
  BY <1>0, <1>3 DEF Delete, pass, history
<1>4. ASSUME NEW g \in waiting, BackoffOver(g) PROVE Rest'
  BY <1>0, <1>4 DEF BackoffOver, pass, history
<1>5. ASSUME SelectDue PROVE Rest'
  <2> DEFINE due == (reports \cap Stored) \ waiting
  <2>1. due \subseteq Gseq
    BY <1>0 DEF TypeOK
  <2>2. batch' = Oldest(due) /\ reports' = reports \cap Stored /\ waiting' = waiting \cap reports'
        /\ UNCHANGED <<msgs, lastGseq, current, answer, received, tried, accepted, owed>>
    BY <1>5 DEF SelectDue, history
  <2>3. batch' \subseteq due
    <3> HIDE DEF due
    <3> QED
      BY <2>1, <2>2, OldestIsBounded
  <2>4. current = 0
    BY <1>5 DEF SelectDue
  <2>5. ASSUME NEW b \in batch', NEW g \in (reports \cap Stored), g < b
        PROVE  g \in tried \cup batch'
    <3>1. CASE g \in waiting
      BY <1>0, <3>1
    <3>2. CASE g \notin waiting
      <4>1. g \in due
        BY <3>2
      <4> HIDE DEF due
      <4> QED
        BY <2>1, <2>2, <2>5, <4>1, OldestIsInitial
    <3> QED
      BY <3>1, <3>2
  <2>6. Numbered'
    BY <1>0, <2>2, <2>3
  <2>7. InHand' /\ NothingIsLost'
    <3>1. 0 \notin batch'
      BY <2>1, <2>3 DEF Gseq
    <3> QED
      BY <1>0, <2>2, <2>3, <2>4, <3>1
  <2>8. OldestFirst'
    BY <1>0, <2>2, <2>5
  <2> QED
    BY <2>6, <2>7, <2>8
<1>6. ASSUME Post PROVE Rest'
  <2>1. PICK g \in batch : /\ batch' = batch \ {g} /\ current' = g /\ tried' = tried \cup {g}
                           /\ received \subseteq received'
                           /\ answer' = "accepted" => g \in received'
    BY <1>6 DEF Post, Receive
  <2>2. accepted' \subseteq accepted \cup {g}
        /\ UNCHANGED <<msgs, lastGseq, reports, waiting, owed>>
    BY <1>6, <2>1 DEF Post, Accepted, table
  <2> QED
    BY <1>0, <2>1, <2>2
<1>7. ASSUME Settle PROVE Rest'
  <2>1. /\ UNCHANGED <<msgs, lastGseq, batch, received, tried, owed>>
        /\ current' = 0 /\ answer' = "none"
    BY <1>7 DEF Settle, history
  <2>2. 0 \notin batch /\ lastGseq \in Nat
    BY <1>0 DEF TypeOK, Gseq
  <2>3. CASE Acknowledged
    BY <1>0, <1>7, <2>1, <2>2, <2>3 DEF Settle, Acknowledged, history
  <2>4. CASE ~Acknowledged
    BY <1>0, <1>7, <2>1, <2>2, <2>4 DEF Settle, history
  <2> QED
    BY <2>3, <2>4
<1>8. ASSUME SettleFailed PROVE Rest'
  <2>1. 0 \notin batch /\ lastGseq \in Nat
    BY <1>0 DEF TypeOK, Gseq
  <2> QED
    BY <1>0, <1>8, <2>1 DEF SettleFailed, table, history
<1>9. ASSUME NEW url \in BOOLEAN, Restart(url) PROVE Rest'
  <2>1. lastGseq \in Nat
    BY <1>0 DEF TypeOK
  <2> QED
    BY <1>0, <1>9, <2>1 DEF Restart, table, history
<1>10. CASE UNCHANGED vars
  BY <1>0, <1>10 DEF vars, table, pass, history
<1> QED
  BY <1>1, <1>2, <1>3, <1>4, <1>5, <1>6, <1>7, <1>8, <1>9, <1>10 DEF Next

-----------------------------------------------------------------------------
(* Repeats are paid for.                                                   *)

\* A step that spoils no report and repeats none leaves the account as it is.
LEMMA NothingSpoiled ==
    TypeOK /\ FaultsPay /\ Spoiled' \subseteq Spoiled /\ repeats' = repeats /\ faults' = faults
        => FaultsPay'
<1> SUFFICES ASSUME TypeOK, FaultsPay, Spoiled' \subseteq Spoiled, repeats' = repeats,
                    faults' = faults
             PROVE  FaultsPay'
  OBVIOUS
<1>1. Spoiled \subseteq Gseq
  BY DEF TypeOK, Spoiled
<1>2. Cardinality(Spoiled') <= Cardinality(Spoiled)
      /\ Cardinality(Spoiled) \in Nat /\ Cardinality(Spoiled') \in Nat
  <2>1. IsFiniteSet(Spoiled)
    BY <1>1, GseqFinite
  <2> QED
    BY <2>1, FS_Subset, FS_CardinalityType
<1> QED
  BY <1>2, ReportingAssumption DEF TypeOK, FaultsPay

\* A fault lets go of the report in hand, and spoils no other.
LEMMA OneSpoiled ==
    TypeOK /\ FaultsPay /\ Spoiled' \subseteq Spoiled \cup {current} /\ repeats' = repeats
        /\ faults' = faults + 1
        => FaultsPay'
<1> SUFFICES ASSUME TypeOK, FaultsPay, Spoiled' \subseteq Spoiled \cup {current},
                    repeats' = repeats, faults' = faults + 1
             PROVE  FaultsPay'
  OBVIOUS
<1>1. Spoiled \subseteq Gseq
  BY DEF TypeOK, Spoiled
<1>2. IsFiniteSet(Spoiled)
  BY <1>1, GseqFinite
<1>3. IsFiniteSet(Spoiled \cup {current})
      /\ Cardinality(Spoiled \cup {current}) <= Cardinality(Spoiled) + 1
  <2>1. CASE current \in Spoiled
    <3>1. Spoiled \cup {current} = Spoiled
      BY <2>1
    <3>2. Cardinality(Spoiled) \in Nat
      BY <1>2, FS_CardinalityType
    <3>3. Cardinality(Spoiled \cup {current}) = Cardinality(Spoiled)
      BY <3>1
    <3>4. IsFiniteSet(Spoiled \cup {current})
      BY <1>2, <3>1
    <3> QED
      BY <3>2, <3>3, <3>4
  <2>2. CASE current \notin Spoiled
    <3>1. Cardinality(Spoiled \cup {current}) = Cardinality(Spoiled) + 1
          /\ IsFiniteSet(Spoiled \cup {current})
      BY <1>2, <2>2, FS_AddElement
    <3> QED
      BY <1>2, <3>1, FS_CardinalityType
  <2> QED
    BY <2>1, <2>2
<1>4. Cardinality(Spoiled') <= Cardinality(Spoiled \cup {current})
      /\ Cardinality(Spoiled') \in Nat /\ Cardinality(Spoiled \cup {current}) \in Nat
      /\ Cardinality(Spoiled) \in Nat
  BY <1>2, <1>3, FS_Subset, FS_CardinalityType
<1> QED
  BY <1>3, <1>4, ReportingAssumption DEF TypeOK, FaultsPay

\* Posting a spoiled report once more spends what was paid for it.
LEMMA RepeatSpends ==
    ASSUME IInv, Post PROVE FaultsPay'
<1> USE ReportingAssumption
<1>0. TypeOK /\ InHand /\ FaultsPay
  BY DEF IInv
<1>1. PICK g \in batch :
          /\ current = 0 /\ current' = g
          /\ \/ answer' = "accepted" /\ Accepted(g)
             \/ answer' = "failed" /\ UNCHANGED <<accepted, repeats>>
  BY DEF Post
<1>2. UNCHANGED <<reports, faults>>
  BY DEF Post, table
<1>3. Spoiled = accepted \cap reports
  BY <1>0, <1>1 DEF Spoiled, TypeOK, Gseq
<1>4. CASE answer' = "failed"
  <2>1. Spoiled' = Spoiled /\ repeats' = repeats
    BY <1>1, <1>2, <1>3, <1>4 DEF Spoiled
  <2> QED
    BY <1>0, <1>2, <2>1, NothingSpoiled
<1>5. CASE answer' = "accepted"
  <2>1. Accepted(g)
    BY <1>1, <1>5
  <2>2. Spoiled' = Spoiled \ {g}
    BY <1>1, <1>2, <1>3, <1>5, <2>1 DEF Spoiled, Accepted
  <2>3. CASE g \notin accepted
    <3>1. repeats' = repeats
      BY <2>1, <2>3 DEF Accepted
    <3> QED
      BY <1>0, <1>2, <2>2, <3>1, NothingSpoiled
  <2>4. CASE g \in accepted
    <3>1. g \in Spoiled /\ repeats' = repeats + 1
      BY <1>0, <1>3, <2>1, <2>4 DEF Accepted, InHand
    <3>2. Spoiled \subseteq Gseq
      BY <1>0, <1>3 DEF TypeOK
    <3>3. IsFiniteSet(Spoiled)
      BY <3>2, GseqFinite
    <3>4. Cardinality(Spoiled') = Cardinality(Spoiled) - 1 /\ Cardinality(Spoiled) \in Nat
      BY <2>2, <3>1, <3>3, FS_RemoveElement, FS_CardinalityType
    <3> QED
      BY <1>0, <1>2, <3>1, <3>4 DEF FaultsPay, TypeOK
  <2> QED
    BY <2>3, <2>4
<1> QED
  BY <1>1, <1>4, <1>5

LEMMA FaultsPayNext == IInv /\ [Next]_vars => FaultsPay'
<1> SUFFICES ASSUME IInv, [Next]_vars PROVE FaultsPay'
  OBVIOUS
<1>0. TypeOK /\ Numbered /\ InHand /\ FaultsPay
  BY DEF IInv
<1>1. ASSUME NEW e \in Env, Resubmit(e) PROVE FaultsPay'
  <2>1. Spoiled' = Spoiled /\ repeats' = repeats /\ faults' = faults
    BY <1>1 DEF Resubmit, Queued, Spoiled, pass, history
  <2> QED
    BY <1>0, <2>1, NothingSpoiled
<1>2. ASSUME NEW e \in Env, Append(e) PROVE FaultsPay'
  <2>1. lastGseq + 1 \notin accepted
    BY <1>0 DEF TypeOK, Numbered, Given
  <2>2. Spoiled' = Spoiled /\ repeats' = repeats /\ faults' = faults
    BY <1>2, <2>1 DEF Append, Spoiled, pass
  <2> QED
    BY <1>0, <2>2, NothingSpoiled
<1>3. ASSUME NEW m \in msgs, Delete(m) PROVE FaultsPay'
  <2>1. Spoiled' = Spoiled /\ repeats' = repeats /\ faults' = faults
    BY <1>3 DEF Delete, Spoiled, pass, history
  <2> QED
    BY <1>0, <2>1, NothingSpoiled
<1>4. ASSUME NEW g \in waiting, BackoffOver(g) PROVE FaultsPay'
  <2>1. Spoiled' = Spoiled /\ repeats' = repeats /\ faults' = faults
    BY <1>4 DEF BackoffOver, Spoiled, pass, history
  <2> QED
    BY <1>0, <2>1, NothingSpoiled
<1>5. ASSUME SelectDue PROVE FaultsPay'
  <2>1. Spoiled' \subseteq Spoiled /\ repeats' = repeats /\ faults' = faults
    BY <1>5 DEF SelectDue, Spoiled, history
  <2> QED
    BY <1>0, <2>1, NothingSpoiled
<1>6. ASSUME Post PROVE FaultsPay'
  BY <1>6, RepeatSpends
<1>7. ASSUME Settle PROVE FaultsPay'
  <2>1. UNCHANGED <<accepted, repeats, faults>> /\ current' = 0 /\ answer' = "none"
    BY <1>7 DEF Settle, history
  <2>2. Spoiled' \subseteq Spoiled
    BY <1>7, <2>1 DEF Settle, Acknowledged, Spoiled
  <2> QED
    BY <1>0, <2>1, <2>2, NothingSpoiled
<1>8. ASSUME SettleFailed PROVE FaultsPay'
  <2>1. Spoiled' \subseteq Spoiled \cup {current} /\ repeats' = repeats /\ faults' = faults + 1
    BY <1>8 DEF SettleFailed, Spoiled, table, history
  <2> QED
    BY <1>0, <2>1, OneSpoiled
<1>9. ASSUME NEW url \in BOOLEAN, Restart(url) PROVE FaultsPay'
  <2>1. Spoiled' \subseteq Spoiled \cup {current} /\ repeats' = repeats /\ faults' = faults + 1
    BY <1>9 DEF Restart, Spoiled, table, history
  <2> QED
    BY <1>0, <2>1, OneSpoiled
<1>10. CASE UNCHANGED vars
  <2>1. Spoiled' = Spoiled /\ repeats' = repeats /\ faults' = faults
    BY <1>10 DEF Spoiled, vars, table, pass, history
  <2> QED
    BY <1>0, <2>1, NothingSpoiled
<1> QED
  BY <1>1, <1>2, <1>3, <1>4, <1>5, <1>6, <1>7, <1>8, <1>9, <1>10 DEF Next

\* The inductive invariant: a report is queued or settled, the numbers it
\* goes by are given out once, and faults pay for what is queued after it was
\* accepted.
THEOREM ReportingInvariant == Spec => []IInv
<1>1. IInv /\ [Next]_vars => IInv'
  BY TypeNext, RestNext, FaultsPayNext DEF IInv, Rest
<1> QED
  BY InitIInv, <1>1, PTL DEF Spec

-----------------------------------------------------------------------------
(* What follows.                                                           *)

\* The queue, the batch and the histories have their types, and a batch never
\* holds more than REPORT_BATCH rows (reports_due).
THEOREM ReportingTyped == Spec => []TypeOK
<1>1. IInv => TypeOK
  BY DEF IInv
<1> QED
  BY ReportingInvariant, <1>1, PTL

\* An envelope stored with reporting on is received, queued, or deleted
\* (Store::append, report_done).
THEOREM NoReportIsLost == Spec => []NothingIsLost
<1>1. IInv => NothingIsLost
  BY DEF IInv
<1> QED
  BY ReportingInvariant, <1>1, PTL

\* The service accepts a report again at most once for each death of the
\* relay or failed report_done (report_pass).
THEOREM RepeatsOnlyByFaults == Spec => []RepeatsAreFaults
<1>1. IInv => RepeatsAreFaults
  <2> SUFFICES ASSUME IInv PROVE RepeatsAreFaults
    OBVIOUS
  <2>1. TypeOK /\ FaultsPay
    BY DEF IInv
  <2>2. Spoiled \subseteq Gseq
    BY <2>1 DEF TypeOK, Spoiled
  <2>3. Cardinality(Spoiled) \in Nat
    BY <2>2, GseqFinite, FS_CardinalityType
  <2> QED
    BY <2>1, <2>3, ReportingAssumption DEF FaultsPay, RepeatsAreFaults, TypeOK
<1> QED
  BY ReportingInvariant, <1>1, PTL

\* A newer report is not tried while an older one that is queued never was
\* (reports_due, report_pass).
THEOREM FirstTriesOrdered == Spec => FirstTriesInOrder
<1> DEFINE Ordered == \A g \in reports \cap Stored : g < current' => g \in tried
<1>1. IInv /\ [Next]_vars => [Post /\ current' \notin tried => Ordered]_vars
  <2> SUFFICES ASSUME IInv, Post, current' \notin tried,
                      NEW g \in reports \cap Stored, g < current'
               PROVE  g \in tried
    OBVIOUS
  <2>1. PICK b \in batch : current' = b /\ \A h \in batch : b <= h
    BY DEF Post
  <2>2. g \in tried \cup batch
    BY <2>1 DEF IInv, OldestFirst
  <2>3. g \in Nat /\ b \in Nat
    BY <2>1, ReportingAssumption DEF IInv, TypeOK, Gseq
  <2> QED
    BY <2>1, <2>2, <2>3
<1> QED
  BY ReportingInvariant, <1>1, PTL DEF Spec, FirstTriesInOrder

====
