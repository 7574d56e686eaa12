---- MODULE RelayProofs ----
(***************************************************************************)
(* Proofs about Relay for every set of addresses, anchors, envelopes and   *)
(* workers, every retention table and every bound.                         *)
(***************************************************************************)
EXTENDS Relay, FiniteSetTheorems, WellFoundedInduction, NaturalsInduction, TLAPS

\* Only a post's last step, a sweep batch and a takedown touch the store.
LEMMA StoreSteps ==
    Next => \/ \E w \in Worker : AppendPost(w)
            \/ \E s \in Sweeper : DeleteBatch(s)
            \/ \E e \in Env : Remove(e)
            \/ UNCHANGED <<store, issued>>
BY DEF Next, ReceivePost, CheckSender, CheckAccess, RefreshRetention,
       StartSweep, AbandonSweep, AskThread, AnswerThread, ReadInbox, PutProfile, Restart, Tick

-----------------------------------------------------------------------------
(* Types.                                                                  *)

LEMMA TypeInit == Init => TypeOK
BY EnvAssumption, BoundAssumption
   DEF Init, TypeOK, PostLocals, IdleWorker, SweepLocals, IdleSweep, NoWindows, IdleReader, Time

\* A check either sends its worker on to the next step or drops the post.
LEMMA PassOn ==
    ASSUME NEW l \in PostLocals, NEW pc \in {"access", "append"}
    PROVE  LET n == [l EXCEPT !.pc = pc] IN
           n \in PostLocals /\ n.env = l.env /\ n.pc = pc /\ n.started = l.started
<1>1. [l EXCEPT !.pc = pc] = [pc |-> pc, env |-> l.env, now |-> l.now,
                              started |-> l.started]
  BY DEF PostLocals
<1>2. QED
  BY <1>1 DEF PostLocals

LEMMA Drop == IdleWorker \in PostLocals /\ IdleWorker.pc = "idle"
BY BoundAssumption DEF PostLocals, IdleWorker, Time

LEMMA SweepDrop == IdleSweep \in SweepLocals
BY BoundAssumption DEF SweepLocals, IdleSweep, NoWindows, Time

LEMMA TypeNext == TypeOK /\ [Next]_vars => TypeOK'
<1> SUFFICES ASSUME TypeOK, [Next]_vars PROVE TypeOK'
  OBVIOUS
<1> USE EnvAssumption, BoundAssumption
<1>1. ASSUME NEW w \in Worker, NEW e \in Env, ReceivePost(w, e) PROVE TypeOK'
  BY <1>1 DEF ReceivePost, TypeOK, PostLocals, store, Time
<1>2. ASSUME NEW w \in Worker, CheckSender(w) PROVE TypeOK'
  <2>1. worker[w] \in PostLocals /\ worker[w].env \in Env
    BY <1>2 DEF CheckSender, TypeOK
  <2>2. PICK l \in PostLocals :
            /\ worker' = [worker EXCEPT ![w] = l]
            /\ l.pc # "idle" => l.env \in Env
    <3>1. worker' = [worker EXCEPT ![w] = IdleWorker]
          \/ worker' = [worker EXCEPT ![w] = [worker[w] EXCEPT !.pc = "access"]]
      BY <1>2 DEF CheckSender
    <3>2. [worker[w] EXCEPT !.pc = "access"] \in PostLocals
          /\ [worker[w] EXCEPT !.pc = "access"].env = worker[w].env
      BY <2>1, PassOn
    <3>3. QED
      BY <2>1, <3>1, <3>2, Drop
  <2>3. /\ worker' \in [Worker -> PostLocals]
        /\ \A v \in Worker : worker'[v].pc # "idle" => worker'[v].env \in Env
    <3>1. worker \in [Worker -> PostLocals]
      BY DEF TypeOK
    <3>2. worker' \in [Worker -> PostLocals]
      BY <2>2, <3>1
    <3>3. ASSUME NEW v \in Worker PROVE worker'[v] = l \/ worker'[v] = worker[v]
      BY <2>2, <3>1
    <3>4. QED
      BY <2>2, <3>2, <3>3 DEF TypeOK
  <2>4. QED
    BY <1>2, <2>3 DEF CheckSender, TypeOK, store
<1>3. ASSUME NEW w \in Worker, CheckAccess(w) PROVE TypeOK'
  <2>1. worker[w] \in PostLocals /\ worker[w].env \in Env
    BY <1>3 DEF CheckAccess, TypeOK
  <2>2. PICK l \in PostLocals :
            /\ worker' = [worker EXCEPT ![w] = l]
            /\ l.pc # "idle" => l.env \in Env
    <3>1. worker' = [worker EXCEPT ![w] = IdleWorker]
          \/ worker' = [worker EXCEPT ![w] = [worker[w] EXCEPT !.pc = "append"]]
      BY <1>3 DEF CheckAccess
    <3>2. [worker[w] EXCEPT !.pc = "append"] \in PostLocals
          /\ [worker[w] EXCEPT !.pc = "append"].env = worker[w].env
      BY <2>1, PassOn
    <3>3. QED
      BY <2>1, <3>1, <3>2, Drop
  <2>3. /\ worker' \in [Worker -> PostLocals]
        /\ \A v \in Worker : worker'[v].pc # "idle" => worker'[v].env \in Env
    <3>1. worker \in [Worker -> PostLocals]
      BY DEF TypeOK
    <3>2. worker' \in [Worker -> PostLocals]
      BY <2>2, <3>1
    <3>3. ASSUME NEW v \in Worker PROVE worker'[v] = l \/ worker'[v] = worker[v]
      BY <2>2, <3>1
    <3>4. QED
      BY <2>2, <3>2, <3>3 DEF TypeOK
  <2>4. QED
    BY <1>3, <2>3 DEF CheckAccess, TypeOK, store
<1>4. ASSUME NEW w \in Worker, AppendPost(w) PROVE TypeOK'
  <2> DEFINE e == worker[w].env
  <2>1. e \in Env /\ worker[w].now \in Time
    BY <1>4 DEF AppendPost, TypeOK, PostLocals
  <2>2. worker' \in [Worker -> PostLocals]
        /\ \A v \in Worker : worker'[v].pc # "idle" => worker'[v].env \in Env
    BY <1>4 DEF AppendPost, TypeOK, PostLocals, IdleWorker, Time
  <2>3. CASE Resubmit(e)
    BY <1>4, <2>2, <2>3 DEF AppendPost, Resubmit, TypeOK, store
  <2>4. CASE Insert(e, worker[w].now)
    <3>1. [gseq |-> NextGseq, tseq |-> NextTseq(EnvAbout[e]), id |-> e,
           at |-> worker[w].now] \in Row
      BY <2>1 DEF TypeOK, Row, NextGseq, NextTseq
    <3>2. rows' \subseteq Row /\ issued' \subseteq Row
      BY <2>4, <3>1 DEF Insert, TypeOK
    <3>3. msgTo' \subseteq ((Nat \ {0}) \X Addr)
      BY <2>1, <2>4, <3>1 DEF Insert, TypeOK, NextGseq
    <3>4. /\ lastTseq' \in [About -> Nat] /\ lastGseq' \in Nat
          /\ participants' \in [About -> SUBSET Addr]
      BY <2>1, <2>4 DEF Insert, TypeOK, NextGseq, NextTseq
    <3>5. QED
      BY <1>4, <2>2, <3>2, <3>3, <3>4 DEF AppendPost, TypeOK
  <2>5. QED
    BY <1>4, <2>3, <2>4 DEF AppendPost
<1>5. ASSUME NEW table \in RetentionTables, RefreshRetention(table) PROVE TypeOK'
  BY <1>5 DEF RefreshRetention, TypeOK, store
<1>6. ASSUME NEW s \in Sweeper, NEW days \in DefaultDays, StartSweep(s, days) PROVE TypeOK'
  <2>1. PICK window \in PositiveWindows(retention, days) :
            sweep' = [sweep EXCEPT ![s] =
                [pc |-> "batch", now |-> clock, days |-> days,
                 bound |-> SatSub(clock, window), windows |-> retention]]
    BY <1>6 DEF StartSweep
  <2>2. window \in Nat
    BY DEF PositiveWindows, TypeOK
  <2>3. SatSub(clock, window) \in Nat
    BY <2>2 DEF SatSub, TypeOK, Time
  <2>4. [pc |-> "batch", now |-> clock, days |-> days,
         bound |-> SatSub(clock, window), windows |-> retention] \in SweepLocals
    BY <2>3 DEF SweepLocals, TypeOK
  <2>5. sweep' \in [Sweeper -> SweepLocals]
    BY <2>1, <2>4 DEF TypeOK
  <2>6. QED
    BY <1>6, <2>5 DEF StartSweep, TypeOK, store
<1>7. ASSUME NEW s \in Sweeper, DeleteBatch(s) PROVE TypeOK'
  <2>1. sweep' \in [Sweeper -> SweepLocals]
    BY <1>7, SweepDrop DEF DeleteBatch, TypeOK
  <2>2. QED
    BY <1>7, <2>1 DEF DeleteBatch, Delete, TypeOK
<1>8. ASSUME NEW e \in Env, Remove(e) PROVE TypeOK'
  BY <1>8 DEF Remove, Delete, TypeOK
<1>9. ASSUME NEW a \in Reader, NEW about \in About, AskThread(a, about)
      PROVE TypeOK'
  BY <1>9 DEF AskThread, TypeOK, store
<1>10. ASSUME NEW a \in Reader, AnswerThread(a) PROVE TypeOK'
  BY <1>10 DEF AnswerThread, TypeOK, IdleReader, store
<1>11. ASSUME NEW a \in Reader, ReadInbox(a) PROVE TypeOK'
  <2>1. InboxRows(a, cursor[a]) \subseteq Row
    BY DEF InboxRows, TypeOK
  <2>2. {m.gseq : m \in InboxRows(a, cursor[a])} \subseteq Nat \ {0}
    BY <2>1 DEF Row
  <2>3. cursor' \in [Reader -> Nat]
    BY <1>11, <2>1 DEF ReadInbox, Row, TypeOK
  <2>4. delivered' \in [Reader -> SUBSET (Nat \ {0})]
    BY <1>11, <2>2 DEF ReadInbox, TypeOK
  <2>5. QED
    BY <1>11, <2>3, <2>4 DEF ReadInbox, TypeOK, store
<1>12. ASSUME NEW a \in Addr, NEW k \in Key \cup {NoKey}, PutProfile(a, k)
       PROVE TypeOK'
  BY <1>12 DEF PutProfile, TypeOK, store
<1>13. CASE Restart
  <2>1. sweep' \in [Sweeper -> SweepLocals]
    BY <1>13, SweepDrop DEF Restart, TypeOK
  <2>2. QED
    BY <1>13, <2>1 DEF Restart, TypeOK, PostLocals, IdleWorker, IdleReader, store, Time
<1>14. CASE Tick
  BY <1>14 DEF Tick, TypeOK, store, Time
<1>15. CASE UNCHANGED vars
  BY <1>15 DEF vars, store, TypeOK
<1>16. ASSUME NEW s \in Sweeper, AbandonSweep(s) PROVE TypeOK'
  <2>1. sweep' \in [Sweeper -> SweepLocals]
    BY <1>16, SweepDrop DEF AbandonSweep, TypeOK
  <2>2. QED
    BY <1>16, <2>1 DEF AbandonSweep, TypeOK, store
<1>17. QED
  BY <1>1, <1>2, <1>3, <1>4, <1>5, <1>6, <1>7, <1>8, <1>9, <1>10, <1>11,
     <1>12, <1>13, <1>14, <1>15, <1>16 DEF Next

\* Every variable of the relay keeps its type: in particular the sweep's
\* bound is never below zero and no worker past its idle state is without
\* an envelope.
THEOREM TypeCorrect == Spec => []TypeOK
<1>1. Init => TypeOK
  BY TypeInit
<1>2. TypeOK /\ [Next]_vars => TypeOK'
  BY TypeNext
<1>3. QED
  BY <1>1, <1>2, PTL DEF Spec

-----------------------------------------------------------------------------
(* Receipts, membership and the inbox.                                     *)

\* What AppendPost does to the store, in one formula: nothing but a second
\* copy of a receipt, or one new row numbered past both counters.
LEMMA AppendEffect ==
    ASSUME TypeOK, NEW w \in Worker, AppendPost(w)
    PROVE  LET e == worker[w].env
               row == [gseq |-> lastGseq + 1, tseq |-> lastTseq[EnvAbout[e]] + 1,
                       id |-> e, at |-> worker[w].now]
           IN  /\ e \in Env
               /\ \/ Resubmit(e)
                  \/ /\ \A m \in rows : m.id # e
                     /\ row \in Row
                     /\ Insert(e, worker[w].now)
                     /\ rows' = rows \cup {row}
                     /\ issued' = issued \cup {row}
                     /\ lastGseq' = lastGseq + 1
                     /\ lastTseq' = [lastTseq EXCEPT ![EnvAbout[e]] =
                                         lastTseq[EnvAbout[e]] + 1]
<1> DEFINE e == worker[w].env
           row == [gseq |-> lastGseq + 1, tseq |-> lastTseq[EnvAbout[e]] + 1,
                   id |-> e, at |-> worker[w].now]
<1>1. e \in Env /\ worker[w].now \in Time
  BY DEF AppendPost, TypeOK, PostLocals
<1>2. EnvAbout[e] \in About
  BY <1>1, EnvAssumption
<1>3. row \in Row
  BY <1>1, <1>2 DEF TypeOK, Row
<1>4. QED
  BY <1>1, <1>3 DEF AppendPost, Insert, NextGseq, NextTseq

\* Deleting rows takes nothing but rows and their recipients.
LEMMA DeleteEffect ==
    ASSUME (\E s \in Sweeper : DeleteBatch(s)) \/ \E e \in Env : Remove(e)
    PROVE  /\ rows' \subseteq rows /\ msgTo' \subseteq msgTo
           /\ UNCHANGED <<lastTseq, lastGseq, participants, issued, cursor, delivered>>
BY DEF DeleteBatch, Remove, Delete

LEMMA InvInit == Init => IInv
<1> SUFFICES ASSUME Init PROVE IInv
  OBVIOUS
<1>1. TypeOK
  BY TypeInit
<1>2. CountersBound /\ StoredOnce /\ ReceiptOrder /\ ParticipantsOutliveMail
  BY DEF Init, CountersBound, StoredOnce, ReceiptOrder, ParticipantsOutliveMail
<1>3. (\A a \in Reader : cursor[a] <= lastGseq) /\ InboxNeverSkips
  BY DEF Init, InboxNeverSkips
<1>4. AccessHeld /\ PollHeld
  BY DEF Init, AccessHeld, PollHeld, IdleWorker, IdleReader
<1>5. QED
  BY <1>1, <1>2, <1>3, <1>4 DEF IInv

\* The part of the invariant that is about the store and its receipts alone.
LEMMA StoreNext ==
    ASSUME IInv, [Next]_vars
    PROVE  /\ CountersBound' /\ StoredOnce' /\ ReceiptOrder'
           /\ ParticipantsOutliveMail'
<1> USE EnvAssumption DEF IInv
<1>1. issued \subseteq Row /\ rows \subseteq Row /\ lastTseq \in [About -> Nat]
      /\ lastGseq \in Nat /\ participants \in [About -> SUBSET Addr]
  BY DEF TypeOK
<1>2. \A r \in Row : r.gseq \in Nat /\ r.tseq \in Nat /\ r.id \in Env
                     /\ EnvAbout[r.id] \in About
  BY DEF Row
<1>3. ASSUME NEW w \in Worker, AppendPost(w)
      PROVE  /\ CountersBound' /\ StoredOnce' /\ ReceiptOrder'
             /\ ParticipantsOutliveMail'
  <2> DEFINE e == worker[w].env
             about == EnvAbout[e]
             row == [gseq |-> lastGseq + 1, tseq |-> lastTseq[about] + 1,
                     id |-> e, at |-> worker[w].now]
  <2>1. e \in Env /\ about \in About
    BY <1>3 DEF AppendPost, TypeOK
  <2>2. CASE Resubmit(e)
    <3>1. issued' = issued /\ UNCHANGED store
      BY <2>2 DEF Resubmit, StoredOnce
    <3>2. QED
      BY <3>1 DEF store, CountersBound, StoredOnce, ReceiptOrder,
                  ParticipantsOutliveMail
  <2>3. CASE ~Resubmit(e)
    <3>1. /\ \A m \in rows : m.id # e
          /\ rows' = rows \cup {row} /\ issued' = issued \cup {row}
          /\ lastGseq' = lastGseq + 1
          /\ lastTseq' = [lastTseq EXCEPT ![about] = lastTseq[about] + 1]
          /\ participants' = [participants EXCEPT ![about] =
                                  @ \cup {EnvFrom[e]} \cup EnvTo[e]]
      BY <1>3, <2>3, AppendEffect DEF Insert
    <3>2. row.gseq = lastGseq + 1 /\ row.tseq = lastTseq[about] + 1 /\ row.id = e
      OBVIOUS
    <3>3. \A r \in issued : r.gseq < row.gseq
                            /\ (EnvAbout[r.id] = about => r.tseq < row.tseq)
      BY <1>1, <1>2, <2>1, <3>2 DEF CountersBound
    <3> HIDE DEF row
    <3>4. CountersBound'
      <4>1. \A b \in About : lastTseq'[b] = IF b = about THEN row.tseq ELSE lastTseq[b]
        BY <1>1, <2>1, <3>1, <3>2
      <4>2. ASSUME NEW r \in issued'
            PROVE  r.gseq <= lastGseq' /\ r.tseq <= lastTseq'[EnvAbout[r.id]]
        <5>1. CASE r = row
          BY <1>1, <2>1, <3>1, <3>2, <4>1, <5>1
        <5>2. CASE r \in issued
          BY <1>1, <1>2, <2>1, <3>1, <3>2, <4>1, <5>2 DEF CountersBound
        <5>3. QED
          BY <3>1, <4>2, <5>1, <5>2
      <4>3. ASSUME NEW b \in About, lastTseq'[b] # 0
            PROVE  \E r \in issued' : EnvAbout[r.id] = b /\ r.tseq = lastTseq'[b]
        <5>1. CASE b = about
          BY <3>1, <3>2, <4>1, <5>1
        <5>2. CASE b # about
          BY <3>1, <4>1, <4>3, <5>2 DEF CountersBound
        <5>3. QED
          BY <5>1, <5>2
      <4>4. QED
        BY <4>2, <4>3 DEF CountersBound
    <3>5. StoredOnce'
      BY <3>1, <3>2 DEF StoredOnce
    <3>6. ReceiptOrder'
      <4> SUFFICES ASSUME NEW r \in issued', NEW s \in issued'
                   PROVE  /\ r.gseq = s.gseq => r = s
                          /\ EnvAbout[r.id] = EnvAbout[s.id] =>
                                 /\ r.tseq = s.tseq => r = s
                                 /\ r.gseq < s.gseq <=> r.tseq < s.tseq
        BY DEF ReceiptOrder
      <4>1. CASE r \in issued /\ s \in issued
        BY <4>1 DEF ReceiptOrder
      <4>2. CASE r \in issued /\ s = row
        BY <1>1, <1>2, <2>1, <3>2, <3>3, <4>2
      <4>3. CASE r = row /\ s \in issued
        BY <1>1, <1>2, <2>1, <3>2, <3>3, <4>3
      <4>4. CASE r = row /\ s = row
        BY <1>1, <2>1, <3>2, <4>4
      <4>5. QED
        BY <3>1, <4>1, <4>2, <4>3, <4>4
    <3>7. ParticipantsOutliveMail'
      <4>1. \A b \in About : participants[b] \subseteq participants'[b]
        BY <1>1, <2>1, <3>1
      <4>2. {EnvFrom[e]} \cup EnvTo[e] \subseteq participants'[about]
        BY <1>1, <2>1, <3>1
      <4>3. QED
        BY <1>1, <1>2, <3>1, <3>2, <4>1, <4>2 DEF ParticipantsOutliveMail
    <3>8. QED
      BY <3>4, <3>5, <3>6, <3>7
  <2>4. QED
    BY <2>2, <2>3
<1>4. ASSUME (\E s \in Sweeper : DeleteBatch(s)) \/ \E e \in Env : Remove(e)
      PROVE  /\ CountersBound' /\ StoredOnce' /\ ReceiptOrder'
             /\ ParticipantsOutliveMail'
  BY <1>4, DeleteEffect DEF CountersBound, StoredOnce, ReceiptOrder,
                            ParticipantsOutliveMail
<1>5. CASE UNCHANGED <<store, issued>>
  BY <1>5 DEF store, CountersBound, StoredOnce, ReceiptOrder,
              ParticipantsOutliveMail
<1>6. QED
  BY <1>3, <1>4, <1>5, StoreSteps DEF vars

\* The cursors only ever move over what their reads returned.
LEMMA InboxNext ==
    ASSUME IInv, [Next]_vars
    PROVE  (\A a \in Reader : cursor'[a] <= lastGseq') /\ InboxNeverSkips'
<1> DEFINE Goal == (\A a \in Reader : cursor[a] <= lastGseq) /\ InboxNeverSkips
<1> USE EnvAssumption DEF IInv
<1>1. /\ rows \subseteq Row /\ lastGseq \in Nat /\ cursor \in [Reader -> Nat]
      /\ delivered \in [Reader -> SUBSET (Nat \ {0})]
  BY DEF TypeOK
<1>2. ASSUME NEW w \in Worker, AppendPost(w) PROVE Goal'
  <2> DEFINE e == worker[w].env
             row == [gseq |-> lastGseq + 1, tseq |-> lastTseq[EnvAbout[e]] + 1,
                     id |-> e, at |-> worker[w].now]
  <2>1. UNCHANGED <<cursor, delivered>>
    BY <1>2 DEF AppendPost
  <2>2. CASE Resubmit(e)
    BY <2>1, <2>2 DEF Resubmit, store, InboxNeverSkips
  <2>3. CASE ~Resubmit(e)
    <3>1. /\ rows' = rows \cup {row} /\ lastGseq' = lastGseq + 1
          /\ msgTo' = msgTo \cup ({lastGseq + 1} \X EnvTo[e])
      BY <1>2, <2>3, AppendEffect DEF Insert, NextGseq
    <3>2. row.gseq = lastGseq + 1
      OBVIOUS
    <3>3. ASSUME NEW m \in rows PROVE m.gseq \in Nat /\ m.gseq <= lastGseq
      BY <1>1, <3>3 DEF Row, StoredOnce, CountersBound
    <3> HIDE DEF row
    <3>4. ASSUME NEW a \in Reader PROVE cursor[a] \in Nat /\ cursor[a] <= lastGseq
      BY <1>1, <3>4
    <3>5. ASSUME NEW m \in rows', NEW a \in Reader,
                 <<m.gseq, a>> \in msgTo', m.gseq <= cursor'[a]
          PROVE  m.gseq \in delivered'[a]
      <4>1. m \in rows
        BY <1>1, <2>1, <3>1, <3>2, <3>4, <3>5
      <4>2. <<m.gseq, a>> \in msgTo
        BY <1>1, <3>1, <3>3, <3>5, <4>1
      <4>3. QED
        BY <2>1, <3>5, <4>1, <4>2 DEF InboxNeverSkips
    <3>6. QED
      BY <1>1, <2>1, <3>1, <3>4, <3>5 DEF InboxNeverSkips
  <2>4. QED
    BY <2>2, <2>3
<1>3. CASE (\E s \in Sweeper : DeleteBatch(s)) \/ \E e \in Env : Remove(e)
  BY <1>3, DeleteEffect DEF InboxNeverSkips
<1>4. ASSUME NEW b \in Reader, ReadInbox(b) PROVE Goal'
  <2> DEFINE found == InboxRows(b, cursor[b])
  <2>1. UNCHANGED <<rows, msgTo, lastGseq>>
    BY <1>4 DEF ReadInbox, store
  <2>2. PICK last \in found :
            /\ \A m \in found : m.gseq <= last.gseq
            /\ cursor' = [cursor EXCEPT ![b] = last.gseq]
    BY <1>4 DEF ReadInbox
  <2>3. delivered' = [delivered EXCEPT ![b] = @ \cup {m.gseq : m \in found}]
    BY <1>4 DEF ReadInbox
  <2>4. last \in rows /\ last.gseq \in Nat /\ last.gseq <= lastGseq
    BY <1>1, <2>2 DEF InboxRows, Row, StoredOnce, CountersBound
  <2>5. \A a \in Reader : cursor'[a] <= lastGseq'
    BY <1>1, <2>1, <2>2, <2>4
  <2>6. ASSUME NEW m \in rows, NEW a \in Reader,
               <<m.gseq, a>> \in msgTo, m.gseq <= cursor'[a]
        PROVE  m.gseq \in delivered'[a]
    <3>1. m.gseq \in Nat /\ cursor[a] \in Nat
      BY <1>1 DEF Row
    <3>2. CASE a # b
      BY <1>1, <2>2, <2>3, <2>6, <3>2 DEF InboxNeverSkips
    <3>3. CASE a = b /\ m.gseq <= cursor[b]
      BY <1>1, <2>3, <2>6, <3>3 DEF InboxNeverSkips
    <3>4. CASE a = b /\ ~(m.gseq <= cursor[b])
      <4>1. m \in found
        BY <2>6, <3>1, <3>4 DEF InboxRows
      <4>2. QED
        BY <1>1, <2>3, <3>4, <4>1
    <3>5. QED
      BY <3>2, <3>3, <3>4
  <2>7. QED
    BY <2>1, <2>5, <2>6 DEF InboxNeverSkips
<1>5. CASE UNCHANGED <<store, cursor, delivered>>
  BY <1>5 DEF store, InboxNeverSkips
<1>6. \/ \E w \in Worker : AppendPost(w)
      \/ (\E s \in Sweeper : DeleteBatch(s)) \/ \E e \in Env : Remove(e)
      \/ \E b \in Reader : ReadInbox(b)
      \/ UNCHANGED <<store, cursor, delivered>>
  BY DEF Next, ReceivePost, CheckSender, CheckAccess, RefreshRetention,
         StartSweep, AbandonSweep, AskThread, AnswerThread, PutProfile, Restart, Tick, vars
<1>7. QED
  BY <1>2, <1>3, <1>4, <1>5, <1>6

\* Membership and the threads table only grow.
LEMMA MembersGrow ==
    ASSUME TypeOK, [Next]_vars
    PROVE  \A b \in About : /\ participants[b] \subseteq participants'[b]
                            /\ lastTseq[b] # 0 => lastTseq'[b] # 0
<1> USE EnvAssumption
<1>1. lastTseq \in [About -> Nat] /\ participants \in [About -> SUBSET Addr]
  BY DEF TypeOK
<1>2. ASSUME NEW w \in Worker, AppendPost(w)
      PROVE  \A b \in About : /\ participants[b] \subseteq participants'[b]
                              /\ lastTseq[b] # 0 => lastTseq'[b] # 0
  <2> DEFINE e == worker[w].env
  <2>1. e \in Env /\ EnvAbout[e] \in About
    BY <1>2 DEF AppendPost, TypeOK
  <2>2. CASE Resubmit(e)
    BY <2>2 DEF Resubmit, store
  <2>3. CASE Insert(e, worker[w].now)
    BY <1>1, <2>1, <2>3 DEF Insert, NextTseq
  <2>4. QED
    BY <1>2, <2>2, <2>3 DEF AppendPost
<1>3. CASE (\E s \in Sweeper : DeleteBatch(s)) \/ \E e \in Env : Remove(e)
  BY <1>3, DeleteEffect
<1>4. CASE UNCHANGED <<store, issued>>
  BY <1>4 DEF store
<1>5. QED
  BY <1>2, <1>3, <1>4, StoreSteps DEF vars

\* What a worker or a poll has seen of a thread's membership stays true.
LEMMA HeldNext ==
    ASSUME IInv, [Next]_vars
    PROVE  AccessHeld' /\ PollHeld'
<1> USE EnvAssumption DEF IInv
<1>1. \A b \in About : /\ participants[b] \subseteq participants'[b]
                       /\ lastTseq[b] # 0 => lastTseq'[b] # 0
  BY MembersGrow
<1>2. worker \in [Worker -> PostLocals] /\ TypeOK'
  BY TypeNext DEF TypeOK
<1>3. AccessHeld'
  <2> SUFFICES ASSUME NEW v \in Worker, worker'[v].pc # "idle", worker'[v].started
               PROVE  LET e == worker'[v].env
                      IN  /\ lastTseq'[EnvAbout[e]] # 0
                          /\ worker'[v].pc = "append" =>
                                 EnvFrom[e] \in participants'[EnvAbout[e]]
    BY DEF AccessHeld
  <2>1. worker'[v].env \in Env /\ EnvAbout[worker'[v].env] \in About
    BY <1>2 DEF TypeOK
  <2>2. CASE worker'[v] = worker[v]
    BY <1>1, <2>1, <2>2 DEF AccessHeld
  <2>3. ASSUME NEW e \in Env, ReceivePost(v, e), worker'[v] # worker[v]
        PROVE  /\ worker'[v].pc = "profile"
               /\ lastTseq'[EnvAbout[worker'[v].env]] # 0
    BY <1>2, <2>3 DEF ReceivePost, store
  <2>4. ASSUME CheckSender(v)
        PROVE  /\ worker'[v].pc # "append"
               /\ lastTseq'[EnvAbout[worker'[v].env]] # 0
    <3>1. worker'[v] = IdleWorker \/ worker'[v] = [worker[v] EXCEPT !.pc = "access"]
      BY <1>2, <2>4 DEF CheckSender
    <3>2. worker'[v] = [worker[v] EXCEPT !.pc = "access"]
      BY <3>1, Drop
    <3>3. /\ worker'[v].env = worker[v].env /\ worker'[v].started = worker[v].started
          /\ worker'[v].pc = "access"
      <4>1. worker[v] \in PostLocals
        BY <1>2
      <4>2. QED
        BY <3>2, <4>1, PassOn
    <3>4. worker[v].pc # "idle" /\ worker[v].started
      BY <2>4, <3>3 DEF CheckSender
    <3>5. QED
      BY <1>1, <2>1, <3>3, <3>4 DEF AccessHeld
  <2>5. ASSUME CheckAccess(v)
        PROVE  /\ lastTseq'[EnvAbout[worker'[v].env]] # 0
               /\ EnvFrom[worker'[v].env] \in participants'[EnvAbout[worker'[v].env]]
    <3> DEFINE e == worker[v].env
    <3>1. \/ worker'[v] = IdleWorker
          \/ /\ worker'[v] = [worker[v] EXCEPT !.pc = "append"]
             /\ Access(EnvAbout[e], EnvFrom[e]) # "NotParticipant"
      BY <1>2, <2>5 DEF CheckAccess
    <3>2. /\ worker'[v] = [worker[v] EXCEPT !.pc = "append"]
          /\ Access(EnvAbout[e], EnvFrom[e]) # "NotParticipant"
      BY <3>1, Drop
    <3>3. worker'[v].env = e /\ worker'[v].started = worker[v].started
      <4>1. worker[v] \in PostLocals
        BY <1>2
      <4> QED
        BY <3>2, <4>1, PassOn
    <3>4. worker[v].pc # "idle" /\ worker[v].started
      BY <2>5, <3>3 DEF CheckAccess
    <3>5. lastTseq[EnvAbout[e]] # 0
      BY <3>4 DEF AccessHeld
    <3>6. EnvFrom[e] \in participants[EnvAbout[e]]
      BY <3>2, <3>5 DEF Access
    <3> HIDE DEF e
    <3>7. e \in Env /\ EnvAbout[e] \in About
      BY <2>1, <3>3
    <3>8. lastTseq'[EnvAbout[e]] # 0 /\ EnvFrom[e] \in participants'[EnvAbout[e]]
      BY <1>1, <3>5, <3>6, <3>7
    <3> QED
      BY <3>3, <3>8
  <2>6. \/ worker'[v] = worker[v]
        \/ \E e \in Env : ReceivePost(v, e)
        \/ CheckSender(v) \/ CheckAccess(v)
    <3>1. ASSUME NEW w \in Worker, NEW e \in Env, ReceivePost(w, e)
          PROVE  w = v \/ worker'[v] = worker[v]
      BY <1>2, <3>1 DEF ReceivePost
    <3>2. ASSUME NEW w \in Worker, CheckSender(w) PROVE w = v \/ worker'[v] = worker[v]
      BY <1>2, <3>2 DEF CheckSender
    <3>3. ASSUME NEW w \in Worker, CheckAccess(w) PROVE w = v \/ worker'[v] = worker[v]
      BY <1>2, <3>3 DEF CheckAccess
    <3>4. ASSUME NEW w \in Worker, AppendPost(w) PROVE worker'[v] = worker[v]
      <4>1. worker' = [worker EXCEPT ![w] = IdleWorker]
        BY <3>4 DEF AppendPost
      <4>2. QED
        BY <1>2, <4>1, Drop
    <3>5. ~Restart
      BY Drop DEF Restart
    <3>6. QED
      BY <3>1, <3>2, <3>3, <3>4, <3>5
         DEF Next, vars, RefreshRetention, StartSweep, DeleteBatch, AbandonSweep, Remove,
             AskThread, AnswerThread, ReadInbox, PutProfile, Tick
  <2>7. QED
    BY <2>2, <2>3, <2>4, <2>5, <2>6
<1>4. PollHeld'
  <2> SUFFICES ASSUME NEW a \in Reader, reader'[a].pc = "poll", reader'[a].started
               PROVE  a \in participants'[reader'[a].about]
    BY DEF PollHeld
  <2>1. reader'[a].about \in About
    BY <1>2 DEF TypeOK
  <2>2. CASE reader'[a] = reader[a]
    BY <1>1, <2>1, <2>2 DEF PollHeld
  <2>3. ASSUME NEW about \in About, AskThread(a, about)
        PROVE  a \in participants'[reader'[a].about]
    <3>1. reader'[a] = [pc |-> "poll", about |-> about, started |-> lastTseq[about] # 0]
      BY <2>3 DEF AskThread, TypeOK
    <3>2. lastTseq[about] = 0 => reader'[a] = [pc |-> "poll", about |-> about,
                                              started |-> FALSE]
      BY <3>1
    <3>3. lastTseq[about] # 0
      BY <3>2
    <3>4. Access(about, a) # "NotParticipant"
      BY <2>3 DEF AskThread
    <3>5. QED
      BY <1>1, <3>1, <3>3, <3>4 DEF Access
  <2>4. reader'[a] = reader[a] \/ \E about \in About : AskThread(a, about)
    <3>1. ASSUME NEW b \in Reader, NEW about \in About, AskThread(b, about)
          PROVE  a = b \/ reader'[a] = reader[a]
      BY <3>1 DEF AskThread, TypeOK
    <3>2. ASSUME NEW b \in Reader, AnswerThread(b) PROVE reader'[a] = reader[a]
      BY <3>2 DEF AnswerThread, IdleReader, TypeOK
    <3>3. ~Restart
      BY DEF Restart, IdleReader
    <3>4. QED
      BY <3>1, <3>2, <3>3
         DEF Next, vars, ReceivePost, CheckSender, CheckAccess, AppendPost,
             RefreshRetention, StartSweep, DeleteBatch, AbandonSweep, Remove, ReadInbox,
             PutProfile, Tick
  <2>5. QED
    BY <2>2, <2>3, <2>4
<1>5. QED
  BY <1>3, <1>4

\* The inductive invariant holds of every reachable state of the relay.
THEOREM InvariantHolds == Spec => []IInv
<1>1. Init => IInv
  BY InvInit
<1>2. IInv /\ [Next]_vars => IInv'
  <2> SUFFICES ASSUME IInv, [Next]_vars PROVE IInv'
    OBVIOUS
  <2>1. TypeOK'
    BY TypeNext DEF IInv
  <2>2. QED
    BY <2>1, StoreNext, InboxNext, HeldNext DEF IInv
<1>3. QED
  BY <1>1, <1>2, PTL DEF Spec

\* No number of a thread or of the relay is given twice and the two orders
\* agree, over every receipt ever made: Store::append with any number of
\* workers, sweeps, takedowns, resubmissions and restarts in between.
THEOREM ReceiptsOrdered == Spec => []ReceiptOrder
<1>1. IInv => ReceiptOrder
  BY DEF IInv
<1>2. QED
  BY <1>1, InvariantHolds, PTL

\* A thread's members outlive its mail.
THEOREM MembersKept == Spec => []ParticipantsOutliveMail
<1>1. IInv => ParticipantsOutliveMail
  BY DEF IInv
<1>2. QED
  BY <1>1, InvariantHolds, PTL

\* A client that reads its inbox from its saved cursor misses no message the
\* relay stores, however long it waits between reads.
THEOREM InboxComplete == Spec => []InboxNeverSkips
<1>1. IInv => InboxNeverSkips
  BY DEF IInv
<1>2. QED
  BY <1>1, InvariantHolds, PTL

\* The closed-thread rule for posts that arrive after the thread started:
\* the unlocked gap between access and append cannot let them in.
THEOREM LaterPostsRefused == Spec => ClosedToLaterPosts
<1>1. ASSUME IInv, NEW w \in Worker, worker[w].pc = "append", worker[w].started
      PROVE  EnvFrom[worker[w].env] \in participants[EnvAbout[worker[w].env]]
  BY <1>1 DEF IInv, AccessHeld
<1>2. IInv /\ [Next]_vars =>
        [\A w \in Worker :
           /\ worker[w].pc = "append" /\ worker[w].started
           /\ \E m \in rows' \ rows : m.id = worker[w].env
           /\ worker'[w].pc = "idle"
           => EnvFrom[worker[w].env] \in participants[EnvAbout[worker[w].env]]]_vars
  BY <1>1
<1>3. QED
  BY <1>2, InvariantHolds, PTL DEF Spec, ClosedToLaterPosts

\* A thread read that finds mail answers a participant, or a reader who asked
\* before the thread started.
THEOREM ThreadsPrivate == Spec => PrivateThreads
<1>1. ASSUME IInv, NEW a \in Reader, reader[a].pc = "poll", reader[a].started
      PROVE  a \in participants[reader[a].about]
  BY <1>1 DEF IInv, PollHeld
<1>2. IInv /\ [Next]_vars =>
        [\A a \in Reader :
           LET r == reader[a]
           IN  AnswerThread(a) /\ ThreadRows(r.about) # {} /\ r.started
               => a \in participants[r.about]]_vars
  BY <1>1 DEF AnswerThread
<1>3. QED
  BY <1>2, InvariantHolds, PTL DEF Spec, PrivateThreads

-----------------------------------------------------------------------------
(* The relay implements the ledger.                                        *)

\* Each post's last step is an Accept or nothing, a sweep batch or takedown
\* is an Erase, and every other step leaves the ledger as it is.
THEOREM RelayImplementsLedger == Spec => ImplementsLedger
<1>1. Init => LedgerOf!LedgerInit
  BY DEF Init, LedgerOf!LedgerInit
<1>2. IInv /\ [Next]_vars => [LedgerOf!LedgerNext]_(LedgerOf!ledgerVars)
  <2> SUFFICES ASSUME IInv, [Next]_vars
               PROVE  LedgerOf!LedgerNext \/ UNCHANGED <<issued, rows>>
    BY DEF LedgerOf!ledgerVars
  <2> USE EnvAssumption DEF IInv
  <2>1. ASSUME NEW w \in Worker, AppendPost(w)
        PROVE  LedgerOf!LedgerNext \/ UNCHANGED <<issued, rows>>
    <3> DEFINE e == worker[w].env
               about == EnvAbout[e]
               row == [gseq |-> lastGseq + 1, tseq |-> lastTseq[about] + 1,
                       id |-> e, at |-> worker[w].now]
    <3>1. e \in Env /\ about \in About
      BY <2>1 DEF AppendPost, TypeOK
    <3>2. CASE Resubmit(e)
      BY <3>2 DEF Resubmit, StoredOnce, store
    <3>3. CASE ~Resubmit(e)
      <4>1. /\ \A m \in rows : m.id # e
            /\ row \in Row
            /\ rows' = rows \cup {row} /\ issued' = issued \cup {row}
        BY <2>1, <3>3, AppendEffect
      <4>2. row.gseq = lastGseq + 1 /\ row.tseq = lastTseq[about] + 1 /\ row.id = e
        OBVIOUS
      <4>3. issued \subseteq Row /\ lastGseq \in Nat /\ lastTseq[about] \in Nat
        BY <3>1 DEF TypeOK
      <4>4. row \in LedgerOf!LedgerReceipt
        BY <4>1 DEF Row, LedgerOf!LedgerReceipt
      <4> HIDE DEF row
      <4>5. LedgerOf!NextPlace(row)
        <5>1. \A s \in issued : s.gseq < row.gseq
          BY <4>2, <4>3 DEF CountersBound, Row
        <5>2. \A s \in issued : EnvAbout[s.id] = about => s.tseq < row.tseq
          BY <4>2, <4>3 DEF CountersBound, Row
        <5>3. row.tseq = 1
              \/ \E s \in issued : EnvAbout[s.id] = about /\ s.tseq + 1 = row.tseq
          <6>1. CASE lastTseq[about] = 0
            BY <4>2, <6>1
          <6>2. CASE lastTseq[about] # 0
            BY <3>1, <4>2, <6>2 DEF CountersBound
          <6>3. QED
            BY <6>1, <6>2
        <5>4. QED
          BY <4>2, <5>1, <5>2, <5>3 DEF LedgerOf!NextPlace
      <4>6. LedgerOf!Accept(row)
        BY <4>1, <4>2, <4>4, <4>5 DEF LedgerOf!Accept
      <4>7. QED
        BY <4>1, <4>6 DEF LedgerOf!LedgerNext
    <3>4. QED
      BY <3>2, <3>3
  <2>2. ASSUME (\E s \in Sweeper : DeleteBatch(s)) \/ \E e \in Env : Remove(e)
        PROVE  LedgerOf!LedgerNext
    BY <2>2, DeleteEffect DEF LedgerOf!LedgerNext, LedgerOf!Erase
  <2>3. QED
    BY <2>1, <2>2, StoreSteps DEF vars, store
<1>3. QED
  BY <1>1, <1>2, InvariantHolds, PTL
     DEF Spec, ImplementsLedger, LedgerOf!LedgerSpec

-----------------------------------------------------------------------------
(* The sweep.                                                              *)

\* The relay stores finitely many rows; a sweep's bound is at or past the edge
\* of every window it began under; and the relay's own windows are the ones it
\* began under for as long as it sweeps.
BoundFits(w) ==
    w.pc = "batch" =>
        \A d \in PositiveWindows(w.windows, w.days) : SatSub(w.now, d) <= w.bound

SweepInv ==
    /\ IsFiniteSet(rows)
    /\ \A s \in Sweeper : BoundFits(sweep[s])
    /\ sweep["relay"].pc = "batch" => sweep["relay"].windows = retention

\* A shorter window has the later edge.
LEMMA EdgesFall ==
    ASSUME NEW now \in Nat, NEW c \in Nat, NEW d \in Nat, c <= d
    PROVE  SatSub(now, d) <= SatSub(now, c)
BY DEF SatSub

LEMMA IdleBoundFits == BoundFits(IdleSweep)
BY DEF BoundFits, IdleSweep

LEMMA SweepInit == Init => SweepInv
<1> SUFFICES ASSUME Init PROVE SweepInv
  OBVIOUS
<1>1. IsFiniteSet(rows)
  BY FS_EmptySet DEF Init
<1>2. \A s \in Sweeper : sweep[s] = IdleSweep
  BY DEF Init
<1>3. sweep["relay"].pc # "batch"
  BY <1>2 DEF Sweeper, IdleSweep
<1> QED
  BY <1>1, <1>2, <1>3, IdleBoundFits DEF SweepInv

\* What a sweep began under does not change while it goes on, and the relay's
\* retention thread installs a table only while it does not sweep.
LEMMA SweepNext == TypeOK /\ SweepInv /\ [Next]_vars => SweepInv'
<1> SUFFICES ASSUME TypeOK, SweepInv, [Next]_vars PROVE SweepInv'
  OBVIOUS
<1> USE DEF SweepInv
<1>0. sweep \in [Sweeper -> SweepLocals] /\ "relay" \in Sweeper
  BY DEF TypeOK, Sweeper
<1>1. IsFiniteSet(rows')
  <2>1. ASSUME NEW w \in Worker, AppendPost(w) PROVE IsFiniteSet(rows')
    <3>1. rows' = rows \/ \E r : rows' = rows \cup {r}
      BY <2>1 DEF AppendPost, Resubmit, Insert, store
    <3> QED
      BY <3>1, FS_AddElement
  <2>2. ASSUME (\E s \in Sweeper : DeleteBatch(s)) \/ \E e \in Env : Remove(e) PROVE IsFiniteSet(rows')
    BY <2>2, DeleteEffect, FS_Subset
  <2> QED
    BY <2>1, <2>2, StoreSteps DEF vars, store
<1>2. ASSUME NEW s \in Sweeper, NEW days \in DefaultDays, StartSweep(s, days) PROVE SweepInv'
  <2>1. PICK window \in PositiveWindows(retention, days) :
            /\ \A d \in PositiveWindows(retention, days) : window <= d
            /\ sweep' = [sweep EXCEPT ![s] =
                   [pc |-> "batch", now |-> clock, days |-> days,
                    bound |-> SatSub(clock, window), windows |-> retention]]
    BY <1>2 DEF StartSweep
  <2> DEFINE w == [pc |-> "batch", now |-> clock, days |-> days,
                   bound |-> SatSub(clock, window), windows |-> retention]
  <2>2. PositiveWindows(retention, days) \subseteq Nat /\ clock \in Nat
    BY BoundAssumption DEF PositiveWindows, TypeOK, Time
  <2>3. \A d \in PositiveWindows(retention, days) : SatSub(clock, d) <= SatSub(clock, window)
    BY <2>1, <2>2, EdgesFall
  <2>4. /\ w.windows = retention /\ w.days = days /\ w.now = clock
        /\ w.bound = SatSub(clock, window)
    OBVIOUS
  <2>5. sweep' = [sweep EXCEPT ![s] = w]
    BY <2>1
  <2> HIDE DEF w
  <2>6. BoundFits(w)
    BY <2>3, <2>4 DEF BoundFits
  <2>7. \A x \in Sweeper : sweep'[x] = w \/ sweep'[x] = sweep[x]
    BY <1>0, <2>5
  <2>8. \A x \in Sweeper : BoundFits(sweep'[x])
    BY <2>6, <2>7
  <2>9. sweep'["relay"].pc = "batch" => sweep'["relay"].windows = retention'
    BY <1>0, <1>2, <2>4, <2>7 DEF StartSweep
  <2> QED
    BY <1>1, <2>8, <2>9 DEF BoundFits, PositiveWindows, SatSub
<1>3. ASSUME NEW s \in Sweeper, UNCHANGED retention, sweep' = sweep \/ sweep' = [sweep EXCEPT ![s] = IdleSweep]
      PROVE  SweepInv'
  <2>1. \A x \in Sweeper : sweep'[x] = IdleSweep \/ sweep'[x] = sweep[x]
    BY <1>0, <1>3
  <2>2. \A x \in Sweeper : BoundFits(sweep'[x])
    BY <2>1, IdleBoundFits
  <2>3. sweep'["relay"].pc = "batch" => sweep'["relay"].windows = retention'
    BY <1>0, <1>3, <2>1 DEF IdleSweep
  <2> QED
    BY <1>1, <2>2, <2>3 DEF BoundFits, PositiveWindows, SatSub
<1>4. CASE \E s \in Sweeper : DeleteBatch(s) \/ AbandonSweep(s)
  BY <1>3, <1>4 DEF DeleteBatch, AbandonSweep
<1>5. CASE \E table \in RetentionTables : RefreshRetention(table)
  <2>1. sweep' = sweep /\ sweep["relay"].pc = "idle"
    BY <1>5 DEF RefreshRetention
  <2> QED
    BY <1>1, <2>1 DEF BoundFits, PositiveWindows, SatSub
<1>6. CASE Restart
  BY <1>0, <1>3, <1>6 DEF Restart
<1>7. CASE UNCHANGED <<sweep, retention>>
  BY <1>0, <1>3, <1>7
<1>8. \/ \E s \in Sweeper, days \in DefaultDays : StartSweep(s, days)
      \/ \E s \in Sweeper : DeleteBatch(s) \/ AbandonSweep(s)
      \/ \E table \in RetentionTables : RefreshRetention(table)
      \/ Restart
      \/ UNCHANGED <<sweep, retention>>
  BY DEF Next, ReceivePost, CheckSender, CheckAccess, AppendPost, AskThread, AnswerThread,
         ReadInbox, PutProfile, Remove, Tick, vars
<1> QED
  BY <1>2, <1>4, <1>5, <1>6, <1>7, <1>8

\* A batch that is not full is all that was left of the expired rows: the
\* first row it misses would have a whole batch before it.
LEMMA ShortBatchIsAll ==
    ASSUME NEW old, IsFiniteSet(old), old \subseteq Row,
           NEW batch,
           batch = {m \in old : Cardinality({x \in old : x.gseq < m.gseq}) < SweepBatch},
           Cardinality(batch) < SweepBatch
    PROVE  batch = old
<1> SUFFICES ASSUME old \ batch # {} PROVE FALSE
  OBVIOUS
<1> DEFINE T == {g \in Nat : \E m \in old \ batch : m.gseq = g}
<1>1. PICK g \in T : \A h \in T : ~(<<h, g>> \in OpToRel(<, Nat))
  <2>1. T \subseteq Nat /\ T # {}
    BY DEF Row
  <2> HIDE DEF T
  <2> QED
    BY <2>1, NatLessThanWellFounded, WFMin
<1>2. PICK m \in old \ batch : m.gseq = g
  BY <1>1
<1> DEFINE before == {x \in old : x.gseq < m.gseq}
<1>3. before \subseteq batch
  <2> SUFFICES ASSUME NEW x \in before, x \notin batch PROVE FALSE
    OBVIOUS
  <2>1. x.gseq \in T /\ x.gseq < g /\ g \in Nat /\ x.gseq \in Nat
    BY <1>2 DEF Row
  <2> QED
    BY <1>1, <2>1 DEF OpToRel
<1>4. IsFiniteSet(batch) /\ IsFiniteSet(before)
  BY FS_Subset
<1>5. Cardinality(before) <= Cardinality(batch)
  BY <1>3, <1>4, FS_Subset
<1>6. ~(Cardinality(before) < SweepBatch)
  BY <1>2
<1>7. Cardinality(before) \in Nat /\ Cardinality(batch) \in Nat /\ SweepBatch \in Nat
  BY <1>4, FS_CardinalityType, BoundAssumption
<1> QED
  BY <1>5, <1>6, <1>7

\* What a sweep's own windows had expired when it began lies below its bound.
LEMMA ExpiredIsScanned ==
    ASSUME TypeOK, SweepInv, NEW s \in Sweeper, sweep[s].pc = "batch", NEW m \in rows,
           Expired(m, sweep[s].windows, sweep[s].now, sweep[s].days)
    PROVE  m.at < sweep[s].bound
<1> DEFINE w == sweep[s]
           d == Window(w.windows, EnvFrom[m.id], w.days)
<1>1. w \in SweepLocals
  BY DEF TypeOK
<1>2. /\ m \in Row /\ EnvFrom[m.id] \in Addr /\ m.at \in Nat
      /\ w.now \in Nat /\ w.days \in Nat /\ w.bound \in Nat
      /\ w.windows \in [Addr -> Nat \cup {NoEntry}]
  BY <1>1, EnvAssumption, BoundAssumption DEF TypeOK, Row, Time, SweepLocals
<1>3. d > 0 /\ m.at + d < w.now
  BY DEF Expired
<1>4. d \in PositiveWindows(w.windows, w.days) /\ d \in Nat
  BY <1>2, <1>3, BoundAssumption DEF Window, PositiveWindows
<1>5. SatSub(w.now, d) <= w.bound
  BY <1>4 DEF SweepInv, BoundFits
<1> HIDE DEF w, d
<1>6. m.at < SatSub(w.now, d) /\ SatSub(w.now, d) \in Nat
  BY <1>2, <1>3, <1>4 DEF SatSub
<1>7. m.at < w.bound
  BY <1>2, <1>5, <1>6
<1> QED
  BY <1>7 DEF w

\* Of the rows its windows had expired when it began, a sweep that ends leaves
\* only those that a table installed since keeps; the relay's own leaves none
\* (Store::sweep, min_window, SQLITE_BATCH, retention_pass, sweep_once).
THEOREM SweepsAreComplete == Spec => SweepIsComplete
<1>1. ASSUME TypeOK, SweepInv, NEW s \in Sweeper, DeleteBatch(s), sweep'[s].pc = "idle",
             NEW m \in rows', Expired(m, sweep[s].windows, sweep[s].now, sweep[s].days)
      PROVE  s # "relay" /\ ~Expired(m, retention, sweep[s].now, sweep[s].days)
  <2> DEFINE w == sweep[s]
             old == {r \in rows : r.at < w.bound /\ Expired(r, retention, w.now, w.days)}
  <2>1. w.pc = "batch"
    BY <1>1 DEF DeleteBatch
  <2>2. IsFiniteSet(old) /\ old \subseteq Row
    BY <1>1, FS_Subset DEF SweepInv, TypeOK
  <2>3. Cardinality(BatchRows(s)) < SweepBatch
    <3>1. sweep' # sweep
      BY <1>1, <2>1
    <3> QED
      BY <1>1, <3>1 DEF DeleteBatch
  <2>4. BatchRows(s) = old
    <3> HIDE DEF old
    <3>1. BatchRows(s) = {r \in old : Cardinality({x \in old : x.gseq < r.gseq}) < SweepBatch}
      BY DEF BatchRows, old
    <3> QED
      BY <2>2, <2>3, <3>1, ShortBatchIsAll
  <2>5. m \in rows /\ m \notin BatchRows(s)
    BY <1>1 DEF DeleteBatch, Delete
  <2>6. m.at < w.bound
    BY <1>1, <2>1, <2>5, ExpiredIsScanned
  <2>7. ~Expired(m, retention, w.now, w.days)
    BY <2>4, <2>5, <2>6
  <2>8. s # "relay"
    BY <1>1, <2>1, <2>7 DEF SweepInv
  <2> QED
    BY <2>7, <2>8
<1>2. TypeOK /\ SweepInv /\ [Next]_vars =>
        [\A s \in Sweeper : DeleteBatch(s) /\ sweep'[s].pc = "idle" =>
             \A m \in rows' : LET w == sweep[s] IN
                 Expired(m, w.windows, w.now, w.days) =>
                     s # "relay" /\ ~Expired(m, retention, w.now, w.days)]_vars
  BY <1>1
<1>3. Init => TypeOK /\ SweepInv
  BY TypeInit, SweepInit
<1>4. TypeOK /\ SweepInv /\ [Next]_vars => (TypeOK /\ SweepInv)'
  BY TypeNext, SweepNext
<1> QED
  BY <1>2, <1>3, <1>4, PTL DEF Spec, SweepIsComplete

====
