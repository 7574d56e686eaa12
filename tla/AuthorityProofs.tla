---- MODULE AuthorityProofs ----
(***************************************************************************)
(* Proofs about Authority: for any number of processes, key pairs,         *)
(* proposals and commands.  IInv is inductive; each of its parts has a     *)
(* lemma of its own, with a step per action that can disturb it.           *)
(***************************************************************************)
EXTENDS Authority, TLAPS

\* What begins a command.
LEMMA BeginTyped ==
    ASSUME TypeOK, NEW p \in Proc, NEW cmd \in Kind, NEW keys \in Pair,
           NEW pc \in {"save", "publish", "look", "sign"},
           NEW of \in Proposal \cup {None}, Begin(p, cmd, pc, keys, of)
    PROVE  proc' \in [Proc -> Local] /\ commands' \in 0 .. MaxCommands
<1> USE AuthorityAssumption
<1>1. commands' \in 0 .. MaxCommands /\ commands \in Nat
  BY DEF Begin, TypeOK
<1>2. receipts \subseteq Nat
  BY DEF TypeOK
<1> DEFINE new == [pc |-> pc, cmd |-> cmd, n |-> commands + 1, keys |-> keys, of |-> of,
                   known |-> receipts, from |-> IF mute THEN grants ELSE None]
<1>3. (IF mute THEN grants ELSE None) \in Nat \cup {None}
  BY DEF TypeOK
<1>4. new \in Local
  BY <1>1, <1>2, <1>3 DEF Local
<1>5. proc' = [proc EXCEPT ![p] = new]
  BY DEF Begin
<1>6. QED
  BY <1>1, <1>4, <1>5 DEF TypeOK

LEMMA IdleTyped == Idle \in Local
BY DEF Idle, Local

LEMMA AnswerTyped ==
    ASSUME TypeOK, NEW m \in Message, Answer(m)
    PROVE  proc' \in [Proc -> Local]
BY IdleTyped DEF Answer, TypeOK

LEMMA TypeInit == Init => TypeOK
<1> SUFFICES ASSUME Init PROVE TypeOK
  OBVIOUS
<1> USE AuthorityAssumption DEF Init
<1>1. proc \in [Proc -> Local]
  BY IdleTyped
<1>2. thread \in Seq(Row) /\ DOMAIN thread = {}
  OBVIOUS
<1>3. profile \in [root : Pair \cup {None}, until : Until]
  BY DEF Until
<1>4. clock \in 0 .. MaxClock /\ commands \in 0 .. MaxCommands
  OBVIOUS
<1>5. QED
  BY <1>1, <1>2, <1>3, <1>4 DEF TypeOK

\* A process moved on.
LEMMA StepTyped ==
    ASSUME TypeOK, NEW p \in Proc,
           NEW pc \in {"idle", "save", "publish", "look", "sign", "wait"},
           proc' = [proc EXCEPT ![p].pc = pc]
    PROVE  proc' \in [Proc -> Local]
<1>1. proc \in [Proc -> Local] /\ proc[p] \in Local
  BY DEF TypeOK
<1>2. [proc[p] EXCEPT !.pc = pc] \in Local
  BY <1>1 DEF Local
<1>3. proc' = [proc EXCEPT ![p] = [proc[p] EXCEPT !.pc = pc]]
  BY <1>1
<1>4. QED
  BY <1>1, <1>2, <1>3

LEMMA PublishTyped ==
    ASSUME TypeOK, CommandsFit, NEW p \in Proc, Publish(p)
    PROVE  TypeOK'
<1> USE AuthorityAssumption
<1>1. proc[p] \in Local /\ proc[p].keys \in Pair /\ proc[p].n \in Nat
  BY DEF TypeOK, CommandsFit, Publish, Local
<1>2. SignedProfile(proc[p].cmd, proc[p].keys) \in Document
  BY <1>1 DEF SignedProfile, Document, Until, Expiry, TypeOK
<1>3. Request(p, Channel(proc[p].cmd), SignedProfile(proc[p].cmd, proc[p].keys)) \in Message
  BY <1>1, <1>2 DEF Request, Channel, Message
<1>4. proc' \in [Proc -> Local]
  BY StepTyped DEF Publish
<1>5. QED
  BY <1>3, <1>4 DEF Publish, TypeOK, home, relay, history

LEMMA SignTyped ==
    ASSUME TypeOK, CommandsFit, NEW p \in Proc, Sign(p)
    PROVE  TypeOK'
<1> USE AuthorityAssumption
<1> DEFINE r == proc[p]
           env == [verb |-> IF r.cmd = "send" THEN "note" ELSE r.cmd, of |-> r.of,
                   root |-> r.keys, ts |-> clock, prev |-> Newest(r.keys)]
           body == [env |-> env, known |-> r.known, from |-> r.from]
<1>1. r \in Local /\ r.keys \in Pair /\ r.cmd \in Verb \cup {"send"}
  BY DEF TypeOK, CommandsFit, Sign
<1>2. r.n \in Nat /\ r.of \in Proposal \cup {None} /\ r.known \in SUBSET Nat
      /\ r.from \in Nat \cup {None}
  BY <1>1 DEF Local
<1>3. Newest(r.keys) \in SUBSET Nat /\ clock \in Nat
  BY DEF Newest, Present, TypeOK
<1>4. env \in Env
  BY <1>1, <1>2, <1>3 DEF Env, Verb
<1> HIDE DEF env
<1>5. body \in Post
  BY <1>2, <1>4 DEF Post
<1> HIDE DEF body
<1>6. Request(p, "msg", body) \in Message
  BY <1>2, <1>5 DEF Request, Message
<1>7. proc' \in [Proc -> Local]
  BY StepTyped DEF Sign
<1>8. net' = net \cup {Request(p, "msg", body)}
  BY DEF Sign, body, env
<1>9. QED
  BY <1>6, <1>7, <1>8 DEF Sign, TypeOK, home, relay, history

LEMMA StoreTyped ==
    ASSUME TypeOK, NEW m \in passed, m.type = "msg", StoreEnvelope(m)
    PROVE  TypeOK' /\ DOMAIN thread \subseteq DOMAIN thread'
<1> USE AuthorityAssumption
<1>1. m \in Message /\ thread \in Seq(Row) /\ gone \subseteq DOMAIN thread
      /\ receipts \subseteq DOMAIN thread
  BY DEF TypeOK
<1>2. m.body \in Post
  BY <1>1 DEF Message
<1> DEFINE env == m.body.env
           row == [verb |-> env.verb, of |-> env.of, root |-> env.root,
                   ts |-> env.ts, prev |-> env.prev,
                   known |-> m.body.known, from |-> m.body.from]
<1>3. env \in Env /\ m.body.known \in SUBSET Nat /\ m.body.from \in Nat \cup {None}
  BY <1>2 DEF Post
<1>4. row \in Row
  BY <1>3 DEF Env, Row
<1> HIDE DEF row
<1>5. thread' = thread \/ thread' = Append(thread, row)
  BY DEF StoreEnvelope, row
<1>6. thread' \in Seq(Row) /\ DOMAIN thread \subseteq DOMAIN thread'
  BY <1>1, <1>4, <1>5
<1>7. receipts' \subseteq DOMAIN thread'
  <2> DEFINE same == {i \in Present : thread[i].root = env.root /\ thread[i].ts = env.ts
                   /\ thread[i].verb = env.verb /\ thread[i].of = env.of
                   /\ thread[i].prev = env.prev}
             i == IF same = {} THEN Len(thread) + 1 ELSE CHOOSE x \in same : TRUE
  <2>1. CASE same = {}
    <3>1. thread' = Append(thread, row)
      BY <2>1 DEF StoreEnvelope, row
    <3>2. i \in DOMAIN thread'
      BY <1>1, <2>1, <3>1
    <3>3. receipts' \subseteq receipts \cup {i}
      BY DEF StoreEnvelope
    <3>4. QED
      BY <1>1, <1>6, <3>2, <3>3
  <2>2. CASE same # {}
    <3>1. i \in DOMAIN thread
      BY <2>2 DEF Present
    <3>2. receipts' \subseteq receipts \cup {i}
      BY DEF StoreEnvelope
    <3>3. QED
      BY <1>1, <1>6, <3>1, <3>2
  <2>3. QED
    BY <2>1, <2>2
<1>8. proc' \in [Proc -> Local]
  BY <1>1, AnswerTyped DEF StoreEnvelope
<1>9. QED
  BY <1>1, <1>6, <1>7, <1>8 DEF StoreEnvelope, TypeOK, home

LEMMA TypeNext == TypeOK /\ CommandsFit /\ DecisionsLooked /\ [Next]_vars => TypeOK'
<1> SUFFICES ASSUME TypeOK, CommandsFit, DecisionsLooked, [Next]_vars PROVE TypeOK'
  OBVIOUS
<1> USE AuthorityAssumption
<1>1. file # None => file \in Pair
  BY DEF TypeOK
<1>2. ASSUME NEW p \in Proc, InitAgain(p) PROVE TypeOK'
  <2>1. proc' \in [Proc -> Local] /\ commands' \in 0 .. MaxCommands
    BY <1>1, <1>2, BeginTyped DEF InitAgain, Kind
  <2>2. QED
    BY <1>2, <2>1 DEF InitAgain, TypeOK, home, relay, history
<1>3. ASSUME NEW p \in Proc, InitFirst(p) PROVE TypeOK'
  <2>1. PICK k \in Pair \ made : made' = made \cup {k} /\ Begin(p, "init", "save", k, None)
    BY <1>3 DEF InitFirst, AfterKeys
  <2>2. proc' \in [Proc -> Local] /\ commands' \in 0 .. MaxCommands
    BY <2>1, BeginTyped DEF Kind
  <2>3. QED
    BY <1>3, <2>1, <2>2 DEF InitFirst, TypeOK, relay, history
<1>4. ASSUME NEW p \in Proc, SaveKeys(p) PROVE TypeOK'
  <2>1. proc' \in [Proc -> Local]
    BY <1>4, StepTyped DEF SaveKeys
  <2>2. file' \in Pair
    BY <1>4 DEF SaveKeys, CommandsFit
  <2>3. overwrote' \in BOOLEAN
    BY <1>4 DEF SaveKeys, TypeOK
  <2>4. QED
    BY <1>4, <2>1, <2>2, <2>3 DEF SaveKeys, TypeOK, relay
<1>5. ASSUME NEW p \in Proc, Publish(p) PROVE TypeOK'
  BY <1>5, PublishTyped
<1>6. ASSUME NEW p \in Proc, Deactivate(p) \/ Send(p) PROVE TypeOK'
  <2>1. proc' \in [Proc -> Local] /\ commands' \in 0 .. MaxCommands
    BY <1>1, <1>6, BeginTyped DEF Deactivate, Send, Kind
  <2>2. QED
    BY <1>6, <2>1 DEF Deactivate, Send, TypeOK, home, relay, history
<1>7. ASSUME NEW p \in Proc, NEW verb \in Verb, NEW of \in Proposal, Decide(p, verb, of)
      PROVE  TypeOK'
  <2>1. proc' \in [Proc -> Local] /\ commands' \in 0 .. MaxCommands
    BY <1>1, <1>7, BeginTyped DEF Decide, Kind
  <2>2. QED
    BY <1>7, <2>1 DEF Decide, TypeOK, home, relay, history
<1>8. ASSUME NEW p \in Proc, Look(p) PROVE TypeOK'
  <2>1. [proc[p] EXCEPT !.pc = "sign"] \in Local
    BY DEF TypeOK, Local
  <2>2. proc' \in [Proc -> Local]
    BY <1>8, <2>1, IdleTyped DEF Look, TypeOK
  <2>3. QED
    BY <1>8, <2>2 DEF Look, TypeOK, home, relay, history
<1>9. ASSUME NEW p \in Proc, Sign(p) PROVE TypeOK'
  BY <1>9, SignTyped
<1>10. ASSUME NEW p \in Proc, Stop(p) PROVE TypeOK'
  <2>1. proc' \in [Proc -> Local]
    BY <1>10, IdleTyped DEF Stop, TypeOK
  <2>2. QED
    BY <1>10, <2>1 DEF Stop, TypeOK, home, relay, history
<1>11. ASSUME NEW m \in net, PutProfile(m) PROVE TypeOK'
  <2>1. m \in Message
    BY DEF TypeOK
  <2>2. m.body \in Document
    BY <1>11, <2>1 DEF PutProfile, Message
  <2>3. profile' \in [root : Pair \cup {None}, until : Until]
    BY <1>11, <2>2 DEF PutProfile, Replaced, Kept, Document, TypeOK
  <2>4. proc' \in [Proc -> Local]
    BY <1>11, <2>1, AnswerTyped DEF PutProfile
  <2>5. grants' \in Nat /\ mute' \in BOOLEAN
    BY <1>11 DEF PutProfile, TypeOK
  <2>6. QED
    BY <1>11, <2>3, <2>4, <2>5 DEF PutProfile, TypeOK, home
<1>12. ASSUME NEW m \in net, Authorize(m) PROVE TypeOK'
  <2>1. m \in Message
    BY DEF TypeOK
  <2>2. proc' \in [Proc -> Local]
    BY <1>12, <2>1, AnswerTyped DEF Authorize, TypeOK
  <2>3. QED
    BY <1>12, <2>1, <2>2 DEF Authorize, TypeOK, home, history
<1>13. ASSUME NEW m \in passed, StoreEnvelope(m) PROVE TypeOK'
  BY <1>13, StoreTyped DEF DecisionsLooked
<1>14. ASSUME NEW verb \in Verb, NEW of \in Proposal, OtherDecides(verb, of) PROVE TypeOK'
  <2> DEFINE row == [verb |-> verb, of |-> of, root |-> None, ts |-> clock,
                     prev |-> {}, known |-> {}, from |-> None]
  <2>1. row \in Row
    BY DEF Row, TypeOK
  <2> HIDE DEF row
  <2>2. thread' = Append(thread, row)
    BY <1>14 DEF OtherDecides, row
  <2>3. thread' \in Seq(Row) /\ DOMAIN thread \subseteq DOMAIN thread'
    BY <2>1, <2>2 DEF TypeOK
  <2>4. QED
    BY <1>14, <2>3 DEF OtherDecides, TypeOK, home, history
<1>15. ASSUME NEW i \in DOMAIN thread, Remove(i) PROVE TypeOK'
  BY <1>15 DEF Remove, TypeOK, home, history
<1>16. CASE Tick
  BY <1>16 DEF Tick, TypeOK, home, relay, history
<1>17. CASE UNCHANGED vars
  BY <1>17 DEF vars, TypeOK, home, relay, history
<1>18. QED
  BY <1>2, <1>3, <1>4, <1>5, <1>6, <1>7, <1>8, <1>9, <1>10, <1>11, <1>12, <1>13,
     <1>14, <1>15, <1>16, <1>17 DEF Next

\* Messages are added to the thread and never changed, and what is gone stays
\* gone.
LEMMA ThreadGrows ==
    ASSUME TypeOK, [Next]_vars
    PROVE  /\ DOMAIN thread \subseteq DOMAIN thread'
           /\ \A i \in DOMAIN thread : thread'[i] = thread[i]
           /\ gone \subseteq gone'
<1>1. thread \in Seq(Row)
  BY DEF TypeOK
<1>2. CASE \E m \in passed : StoreEnvelope(m)
  <2>1. PICK m \in passed : StoreEnvelope(m)
    BY <1>2
  <2>2. thread' = thread \/ \E row : thread' = Append(thread, row)
    BY <2>1 DEF StoreEnvelope
  <2>3. gone' = gone
    BY <2>1 DEF StoreEnvelope
  <2>4. QED
    BY <1>1, <2>2, <2>3
<1>3. CASE \E verb \in Verb, of \in Proposal : OtherDecides(verb, of)
  <2>1. \E row : thread' = Append(thread, row)
    BY <1>3 DEF OtherDecides
  <2>2. gone' = gone
    BY <1>3 DEF OtherDecides
  <2>3. QED
    BY <1>1, <2>1, <2>2
<1>4. CASE UNCHANGED thread /\ gone \subseteq gone'
  BY <1>4
<1>5. QED
  BY <1>2, <1>3, <1>4
     DEF Next, vars, relay, InitAgain, InitFirst, SaveKeys, Publish, Deactivate, Send,
         Decide, Look, Sign, Stop, PutProfile, Authorize, Remove, Tick

LEMMA CommandsNext == IInv /\ [Next]_vars => CommandsFit'
<1> SUFFICES ASSUME IInv, [Next]_vars, NEW q \in Proc
             PROVE  /\ proc'[q].pc # "idle" => proc'[q].keys \in Pair
                    /\ proc'[q].pc = "save" => proc'[q].cmd = "init"
                    /\ proc'[q].pc = "look" => proc'[q].cmd \in Verb
                    /\ proc'[q].pc = "sign" => proc'[q].cmd \in Verb \cup {"send"}
                    /\ proc'[q].known \subseteq DOMAIN thread'
  BY DEF CommandsFit
<1>1. TypeOK /\ CommandsFit /\ DecisionsLooked
  BY DEF IInv
<1>2. DOMAIN thread \subseteq DOMAIN thread'
  BY <1>1, ThreadGrows
<1>3. proc \in [Proc -> Local] /\ receipts \subseteq DOMAIN thread
      /\ (file # None => file \in Pair)
  BY <1>1 DEF TypeOK
<1> USE <1>1, <1>2, <1>3 DEF CommandsFit
<1>4. CASE proc'[q] = proc[q] \/ proc'[q] = Idle
  BY <1>4 DEF Idle
<1>5. ASSUME NEW p \in Proc, InitAgain(p) \/ InitFirst(p) \/ Deactivate(p) \/ Send(p)
      PROVE  proc'[q] = proc[q]
             \/ /\ proc'[q].keys \in Pair /\ proc'[q].known \subseteq DOMAIN thread
                /\ proc'[q].pc \in {"save", "publish", "sign"}
                /\ proc'[q].pc = "save" => proc'[q].cmd = "init"
                /\ proc'[q].pc = "sign" => proc'[q].cmd = "send"
  BY <1>5 DEF InitAgain, InitFirst, AfterKeys, Deactivate, Send, Begin
<1>6. ASSUME NEW p \in Proc, NEW verb \in Verb, NEW of \in Proposal, Decide(p, verb, of)
      PROVE  proc'[q] = proc[q]
             \/ /\ proc'[q].keys \in Pair /\ proc'[q].known \subseteq DOMAIN thread
                /\ proc'[q].pc = "look" /\ proc'[q].cmd \in Verb
  BY <1>6 DEF Decide, Begin
<1>7. ASSUME NEW p \in Proc, SaveKeys(p) \/ Publish(p) \/ Sign(p)
      PROVE  proc'[q] = proc[q]
             \/ /\ proc'[q].keys \in Pair /\ proc'[q].known \subseteq DOMAIN thread
                /\ proc'[q].pc \in {"publish", "wait"}
  <2>1. /\ proc[p].pc \in {"save", "publish", "sign"}
        /\ \E pc \in {"publish", "wait"} : proc' = [proc EXCEPT ![p].pc = pc]
    BY <1>7 DEF SaveKeys, Publish, Sign
  <2>2. PICK pc \in {"publish", "wait"} : proc' = [proc EXCEPT ![p].pc = pc]
    BY <2>1
  <2>3. CASE q = p
    <3>1. proc[p] \in Local
      OBVIOUS
    <3>2. proc'[p] = [proc[p] EXCEPT !.pc = pc]
      BY <2>2
    <3>3. proc'[p].pc = pc /\ proc'[p].keys = proc[p].keys /\ proc'[p].known = proc[p].known
      BY <3>1, <3>2 DEF Local
    <3>4. QED
      BY <2>1, <2>3, <3>3
  <2>4. CASE q # p
    BY <2>2, <2>4
  <2>5. QED
    BY <2>3, <2>4
<1>8. ASSUME NEW p \in Proc, Look(p)
      PROVE  proc'[q] \in {proc[q], Idle}
             \/ /\ proc'[q].keys \in Pair /\ proc'[q].known \subseteq DOMAIN thread
                /\ proc'[q].pc = "sign" /\ proc'[q].cmd \in Verb
  BY <1>8 DEF Look
<1>9. ASSUME NEW p \in Proc, Stop(p) PROVE proc'[q] \in {proc[q], Idle}
  BY <1>9 DEF Stop
<1>10. ASSUME NEW m \in net \cup passed, PutProfile(m) \/ Authorize(m) \/ StoreEnvelope(m)
       PROVE  proc'[q] \in {proc[q], Idle}
  BY <1>10 DEF PutProfile, Authorize, StoreEnvelope, Answer
<1>11. ASSUME NEW verb \in Verb, NEW of \in Proposal, OtherDecides(verb, of)
       PROVE  proc'[q] = proc[q]
  BY <1>11 DEF OtherDecides
<1>12. ASSUME NEW i \in DOMAIN thread, Remove(i) PROVE proc'[q] = proc[q]
  BY <1>12 DEF Remove
<1>13. CASE Tick \/ UNCHANGED vars
  BY <1>13, <1>4 DEF Tick, vars
<1>14. QED
  BY <1>4, <1>5, <1>6, <1>7, <1>8, <1>9, <1>10, <1>11, <1>12, <1>13 DEF Next

-----------------------------------------------------------------------------
(* The keys in the file and the name at the relay.                         *)

LEMMA PairNext == IInv /\ [Next]_vars => HomeOwnsName' /\ OnePair'
<1> SUFFICES ASSUME IInv, [Next]_vars PROVE HomeOwnsName' /\ OnePair'
  OBVIOUS
<1> USE AuthorityAssumption
<1>1. TypeOK /\ CommandsFit /\ HomeOwnsName /\ OnePair
  BY DEF IInv
<1> USE <1>1 DEF HomeOwnsName, OnePair
<1>2. proc \in [Proc -> Local] /\ net \subseteq Message
  BY DEF TypeOK
<1>3. \A m \in net : m.type # "msg" => m.body.root \in Pair
  BY <1>2 DEF Message, Document
<1>4. ASSUME NEW p \in Proc, InitAgain(p) \/ Deactivate(p) \/ Send(p)
      PROVE  HomeOwnsName' /\ OnePair'
  BY <1>2, <1>4 DEF InitAgain, Deactivate, Send, Begin, home, relay, history
<1>5. ASSUME NEW p \in Proc, InitFirst(p) PROVE HomeOwnsName' /\ OnePair'
  BY <1>2, <1>5 DEF InitFirst, AfterKeys, Begin, relay, history
<1>6. ASSUME NEW p \in Proc, SaveKeys(p) PROVE HomeOwnsName' /\ OnePair'
  <2>1. UNCHANGED <<net, profile>> /\ overwrote' = (overwrote \/ file # None)
        /\ file' = proc[p].keys /\ proc' = [proc EXCEPT ![p].pc = "publish"]
    BY <1>6 DEF SaveKeys, relay
  <2>2. CASE ~overwrote'
    <3>1. ~overwrote /\ file = None
      BY <2>1, <2>2
    <3>2. profile.root = None /\ \A m \in net : m.type = "msg"
      BY <1>3, <3>1
    <3>3. \A q \in Proc : proc[q].pc \in {"idle", "save"}
      BY <3>1 DEF CommandsFit
    <3>4. QED
      BY <1>2, <2>1, <3>2, <3>3
  <2>3. QED
    BY <2>2
<1>7. ASSUME NEW p \in Proc, Publish(p) PROVE HomeOwnsName' /\ OnePair'
  <2>1. UNCHANGED <<file, profile, overwrote>>
        /\ net' = net \cup {Request(p, Channel(proc[p].cmd), SignedProfile(proc[p].cmd, proc[p].keys))}
        /\ proc' = [proc EXCEPT ![p].pc = "wait"] /\ proc[p].pc = "publish"
    BY <1>7 DEF Publish, home, relay, history
  <2>2. proc[p].keys = file \/ overwrote
    BY <2>1
  <2>3. \A m \in net' : m \in net \/ m.body.root = proc[p].keys
    BY <2>1 DEF Request, SignedProfile
  <2>4. \A q \in Proc : proc'[q].pc \notin {"idle", "save"} =>
            proc[q].pc \notin {"idle", "save"} /\ proc'[q].keys = proc[q].keys
    BY <1>2, <2>1
  <2>5. QED
    BY <2>1, <2>2, <2>3, <2>4
<1>8. ASSUME NEW p \in Proc, NEW verb \in Verb, NEW of \in Proposal, Decide(p, verb, of)
      PROVE  HomeOwnsName' /\ OnePair'
  BY <1>2, <1>8 DEF Decide, Begin, home, relay, history
<1>9. ASSUME NEW p \in Proc, Look(p) \/ Stop(p) PROVE HomeOwnsName' /\ OnePair'
  <2>1. UNCHANGED <<file, profile, overwrote, net>>
    BY <1>9 DEF Look, Stop, home, relay, history
  <2>2. \/ proc' = [proc EXCEPT ![p] = Idle]
        \/ proc[p].pc = "look" /\ proc' = [proc EXCEPT ![p] = [proc[p] EXCEPT !.pc = "sign"]]
    BY <1>9 DEF Look, Stop
  <2>3. [proc[p] EXCEPT !.pc = "sign"].keys = proc[p].keys
    BY <1>2 DEF Local
  <2>4. \A q \in Proc : proc'[q].pc \notin {"idle", "save"} =>
            proc[q].pc \notin {"idle", "save"} /\ proc'[q].keys = proc[q].keys
    <3>1. CASE proc' = [proc EXCEPT ![p] = Idle]
      BY <1>2, <3>1 DEF Idle
    <3>2. CASE proc[p].pc = "look" /\ proc' = [proc EXCEPT ![p] = [proc[p] EXCEPT !.pc = "sign"]]
      BY <1>2, <2>3, <3>2
    <3>3. QED
      BY <2>2, <3>1, <3>2
  <2>5. QED
    BY <2>1, <2>4
<1>10. ASSUME NEW p \in Proc, Sign(p) PROVE HomeOwnsName' /\ OnePair'
  <2>1. UNCHANGED <<file, profile, overwrote>>
        /\ proc' = [proc EXCEPT ![p].pc = "wait"] /\ proc[p].pc = "sign"
        /\ \A m \in net' : m \in net \/ m.type = "msg"
    BY <1>10 DEF Sign, Request, home, relay, history
  <2>2. QED
    BY <1>2, <2>1
<1>11. ASSUME NEW m \in net, PutProfile(m) PROVE HomeOwnsName' /\ OnePair'
  <2>1. UNCHANGED <<file, overwrote>> /\ net' \subseteq net
        /\ \A q \in Proc : proc'[q] \in {proc[q], Idle}
    BY <1>2, <1>11 DEF PutProfile, Answer, home
  <2>2. profile' \in {profile, m.body} /\ m.type # "msg"
    BY <1>11 DEF PutProfile, Replaced, Kept
  <2>3. QED
    BY <2>1, <2>2 DEF Idle
<1>12. ASSUME NEW m \in net, Authorize(m) PROVE HomeOwnsName' /\ OnePair'
  <2>1. UNCHANGED <<file, profile, overwrote>> /\ net' \subseteq net
        /\ \A q \in Proc : proc'[q] \in {proc[q], Idle}
    BY <1>2, <1>12 DEF Authorize, Answer, home, history
  <2>2. QED
    BY <2>1 DEF Idle
<1>13. ASSUME NEW m \in passed, StoreEnvelope(m) PROVE HomeOwnsName' /\ OnePair'
  <2>1. UNCHANGED <<file, profile, overwrote, net>>
        /\ \A q \in Proc : proc'[q] \in {proc[q], Idle}
    BY <1>2, <1>13 DEF StoreEnvelope, Answer, home
  <2>2. QED
    BY <2>1 DEF Idle
<1>14. CASE UNCHANGED <<file, profile, overwrote, net, proc>>
  BY <1>14
<1>15. QED
  BY <1>4, <1>5, <1>6, <1>7, <1>8, <1>9, <1>10, <1>11, <1>12, <1>13, <1>14
     DEF Next, OtherDecides, Remove, Tick, vars, home, relay, history

-----------------------------------------------------------------------------
(* What each step does to the commands, the requests and the thread.       *)

\* A command ends, begins or goes on with what it holds; one that comes to sign
\* a decision has just looked.
LEMMA ProcNext ==
    ASSUME TypeOK, [Next]_vars, NEW q \in Proc
    PROVE  \/ proc'[q] = Idle
           \/ /\ proc'[q].from = (IF mute THEN grants ELSE None)
              /\ UNCHANGED <<grants, mute>>
              /\ proc'[q].pc = "sign" => proc'[q].cmd = "send"
           \/ /\ proc'[q].from = proc[q].from /\ proc'[q].cmd = proc[q].cmd
              /\ proc'[q].of = proc[q].of /\ proc'[q].known = proc[q].known
              /\ proc'[q].pc = "sign" =>
                     proc[q].pc = "sign" \/ (proc[q].pc = "look" /\ Pending(proc[q].of))
<1>1. proc \in [Proc -> Local] /\ proc[q] \in Local
  BY DEF TypeOK
<1>2. CASE proc'[q] \in {proc[q], Idle}
  <2>1. CASE proc'[q] = proc[q]
    BY <2>1, Zenon
  <2>2. CASE proc'[q] = Idle
    BY <2>2
  <2>3. QED
    BY <1>2, <2>1, <2>2
<1>3. ASSUME NEW p \in Proc,
             InitAgain(p) \/ InitFirst(p) \/ Deactivate(p) \/ Send(p)
             \/ \E verb \in Verb, of \in Proposal : Decide(p, verb, of)
      PROVE  \/ proc'[q] = proc[q]
             \/ /\ proc'[q].from = (IF mute THEN grants ELSE None)
                /\ UNCHANGED <<grants, mute>>
                /\ proc'[q].pc = "sign" => proc'[q].cmd = "send"
  BY <1>1, <1>3
     DEF InitAgain, InitFirst, AfterKeys, Deactivate, Send, Decide, Begin, history
<1>4. ASSUME NEW p \in Proc, NEW pc \in {"publish", "wait", "sign"},
             proc' = [proc EXCEPT ![p].pc = pc],
             pc = "sign" => proc[p].pc = "look" /\ Pending(proc[p].of)
      PROVE  /\ proc'[q].from = proc[q].from /\ proc'[q].cmd = proc[q].cmd
             /\ proc'[q].of = proc[q].of /\ proc'[q].known = proc[q].known
             /\ proc'[q].pc = "sign" =>
                    proc[q].pc = "sign" \/ (proc[q].pc = "look" /\ Pending(proc[q].of))
  <2>1. CASE q = p
    <3>1. proc'[q] = [proc[q] EXCEPT !.pc = pc]
      BY <1>1, <1>4, <2>1
    <3>2. proc'[q].pc = pc /\ proc'[q].from = proc[q].from /\ proc'[q].cmd = proc[q].cmd
          /\ proc'[q].of = proc[q].of /\ proc'[q].known = proc[q].known
      BY <1>1, <3>1 DEF Local
    <3>3. pc = "sign" => proc[q].pc = "look" /\ Pending(proc[q].of)
      BY <1>4, <2>1, Zenon
    <3>4. QED
      BY <3>2, <3>3, Zenon
  <2>2. CASE q # p
    BY <1>1, <1>4, <2>2
  <2>3. QED
    BY <2>1, <2>2
<1>5. ASSUME NEW p \in Proc, SaveKeys(p) \/ Publish(p) \/ Sign(p)
      PROVE  \E pc \in {"publish", "wait"} : proc' = [proc EXCEPT ![p].pc = pc]
  BY <1>5 DEF SaveKeys, Publish, Sign
<1>6. ASSUME NEW p \in Proc, Look(p)
      PROVE  \/ proc'[q] \in {proc[q], Idle}
             \/ /\ proc' = [proc EXCEPT ![p].pc = "sign"]
                /\ proc[p].pc = "look" /\ Pending(proc[p].of)
  BY <1>1, <1>6 DEF Look
<1>7. ASSUME NEW p \in Proc, Stop(p) PROVE proc'[q] \in {proc[q], Idle}
  BY <1>1, <1>7 DEF Stop
<1>8. ASSUME NEW m \in net \cup passed, PutProfile(m) \/ Authorize(m) \/ StoreEnvelope(m)
      PROVE  proc'[q] \in {proc[q], Idle}
  BY <1>1, <1>8 DEF PutProfile, Authorize, StoreEnvelope, Answer
<1>9. ASSUME NEW p \in Proc, SaveKeys(p) \/ Publish(p) \/ Sign(p) \/ Look(p)
      PROVE  \/ proc'[q] \in {proc[q], Idle}
             \/ /\ proc'[q].from = proc[q].from /\ proc'[q].cmd = proc[q].cmd
                /\ proc'[q].of = proc[q].of /\ proc'[q].known = proc[q].known
                /\ proc'[q].pc = "sign" =>
                       proc[q].pc = "sign" \/ (proc[q].pc = "look" /\ Pending(proc[q].of))
  BY <1>4, <1>5, <1>6, <1>9
<1>10. CASE UNCHANGED proc
  BY <1>2, <1>10
<1>11. QED
  BY <1>2, <1>3, <1>7, <1>8, <1>9, <1>10 DEF Next, OtherDecides, Remove, Tick, vars

\* A new request is a connection request with a delegation, a profile, or what
\* a command signs.
LEMMA NetNext ==
    ASSUME TypeOK, [Next]_vars, NEW m \in net' \ net
    PROVE  /\ m.type = "connect" => m.body.until # None
           /\ m.type = "msg" => \E p \in Proc :
                  /\ proc[p].pc = "sign"
                  /\ m.body.env.verb = (IF proc[p].cmd = "send" THEN "note" ELSE proc[p].cmd)
                  /\ m.body.env.of = proc[p].of /\ m.body.known = proc[p].known
                  /\ m.body.from = proc[p].from
<1> USE AuthorityAssumption
<1>1. CASE \E p \in Proc : Publish(p)
  <2>1. PICK p \in Proc : m = Request(p, Channel(proc[p].cmd), SignedProfile(proc[p].cmd, proc[p].keys))
    BY <1>1 DEF Publish
  <2>2. m.type = Channel(proc[p].cmd) /\ m.body.until = IF proc[p].cmd = "init" THEN Expiry ELSE None
    BY <2>1 DEF Request, SignedProfile
  <2>3. Expiry # None
    BY DEF Expiry, TypeOK
  <2>4. QED
    BY <2>2, <2>3 DEF Channel
<1>2. CASE \E p \in Proc : Sign(p)
  BY <1>2 DEF Sign, Request
<1>3. CASE net' \subseteq net
  BY <1>3
<1>4. QED
  BY <1>1, <1>2, <1>3
     DEF Next, vars, InitAgain, InitFirst, SaveKeys, Deactivate, Send, Decide, Look, Stop,
         PutProfile, Authorize, StoreEnvelope, OtherDecides, Remove, Tick

\* What passed the relay's check was an envelope the profile authorised.
LEMMA PassedNext ==
    ASSUME TypeOK, [Next]_vars, NEW m \in passed' \ passed
    PROVE  /\ m \in net /\ m.type = "msg" /\ Authorizes(m.body.env)
           /\ UNCHANGED <<grants, mute>>
<1>1. CASE \E x \in net : Authorize(x)
  BY <1>1 DEF Authorize, history
<1>2. CASE passed' \subseteq passed
  BY <1>2
<1>3. QED
  BY <1>1, <1>2
     DEF Next, vars, relay, InitAgain, InitFirst, SaveKeys, Publish, Deactivate, Send, Decide,
         Look, Sign, Stop, PutProfile, StoreEnvelope, OtherDecides, Remove, Tick

\* A new row is of an envelope that passed, or of another participant.
LEMMA RowNext ==
    ASSUME TypeOK, [Next]_vars, NEW j \in DOMAIN thread' \ DOMAIN thread
    PROVE  \/ thread'[j].known = {} /\ thread'[j].from = None
           \/ \E m \in passed :
                 /\ thread'[j].verb = m.body.env.verb /\ thread'[j].of = m.body.env.of
                 /\ thread'[j].known = m.body.known /\ thread'[j].from = m.body.from
<1>1. thread \in Seq(Row)
  BY DEF TypeOK
<1>2. CASE \E m \in passed : StoreEnvelope(m)
  <2>1. PICK m \in passed : StoreEnvelope(m)
    BY <1>2
  <2> DEFINE row == [verb |-> m.body.env.verb, of |-> m.body.env.of, root |-> m.body.env.root,
                     ts |-> m.body.env.ts, prev |-> m.body.env.prev,
                     known |-> m.body.known, from |-> m.body.from]
  <2>2. thread' = thread \/ thread' = Append(thread, row)
    BY <2>1 DEF StoreEnvelope
  <2>3. thread'[j] = row
    <3> HIDE DEF row
    <3>1. QED
      BY <1>1, <2>2
  <2>4. QED
    BY <2>3
<1>3. CASE \E verb \in Verb, of \in Proposal : OtherDecides(verb, of)
  <2>1. PICK verb \in Verb, of \in Proposal : OtherDecides(verb, of)
    BY <1>3
  <2> DEFINE row == [verb |-> verb, of |-> of, root |-> None, ts |-> clock, prev |-> {},
                     known |-> {}, from |-> None]
  <2>2. thread' = Append(thread, row)
    BY <2>1 DEF OtherDecides
  <2>3. thread'[j] = row
    <3> HIDE DEF row
    <3>1. QED
      BY <1>1, <2>2
  <2>4. QED
    BY <2>3
<1>4. CASE UNCHANGED thread
  BY <1>4
<1>5. QED
  BY <1>2, <1>3, <1>4
     DEF Next, vars, relay, InitAgain, InitFirst, SaveKeys, Publish, Deactivate, Send,
         Decide, Look, Sign, Stop, PutProfile, Authorize, Remove, Tick

\* Only a grant unmutes the agent.
LEMMA GrantNext ==
    ASSUME TypeOK, [Next]_vars
    PROVE  /\ grants' \in {grants, grants + 1}
           /\ grants' = grants /\ mute => mute'
<1>1. CASE \E m \in net : PutProfile(m)
  BY <1>1 DEF PutProfile, TypeOK
<1>2. CASE UNCHANGED <<grants, mute>>
  BY <1>2
<1>3. QED
  BY <1>1, <1>2
     DEF Next, vars, history, InitAgain, InitFirst, SaveKeys, Publish, Deactivate, Send, Decide,
         Look, Sign, Stop, Authorize, StoreEnvelope, OtherDecides, Remove, Tick

-----------------------------------------------------------------------------
(* The agent that was told to stop.                                        *)

LEMMA MuteNext == IInv /\ [Next]_vars => MuteMeansNone'
<1> SUFFICES ASSUME IInv, [Next]_vars PROVE MuteMeansNone'
  OBVIOUS
<1>1. TypeOK /\ MuteMeansNone
  BY DEF IInv
<1>2. \A m \in net' : m.type = "connect" => m.body.until # None
  BY <1>1, NetNext DEF MuteMeansNone
<1>3. mute' => profile'.until = None
  <2>1. CASE \E m \in net : PutProfile(m)
    <3>1. PICK m \in net : PutProfile(m)
      BY <2>1
    <3> DEFINE mine == profile.root = m.body.root
               free == profile.root = None /\ (m.type = "connect" \/ ~managed)
               now == IF m.type = "addr" THEN Replaced(profile, m.body)
                      ELSE Kept(profile, m.body)
               granted == (mine \/ free) /\ now = m.body /\ m.body.until # None
               stops == (mine \/ free) /\ Waits(m) /\ m.body.until = None
    <3>2. /\ profile' = IF mine \/ free THEN now ELSE profile
          /\ mute' = ((mute \/ stops) /\ ~granted)
          /\ m.type \in {"addr", "connect"}
      BY <3>1 DEF PutProfile
    <3>3. now \in {profile, m.body} /\ (m.type = "addr" => now = m.body)
      BY DEF Replaced, Kept
    <3>4. m.type = "connect" => m.body.until # None
      BY <1>1 DEF MuteMeansNone
    <3> HIDE DEF now
    <3>5. CASE stops
      BY <3>2, <3>3, <3>4, <3>5
    <3>6. CASE mute
      BY <1>1, <3>2, <3>3, <3>6 DEF MuteMeansNone
    <3>7. QED
      BY <3>2, <3>5, <3>6
  <2>2. CASE UNCHANGED <<mute, profile>>
    BY <1>1, <2>2 DEF MuteMeansNone
  <2>3. QED
    BY <2>1, <2>2
       DEF Next, vars, history, relay, InitAgain, InitFirst, SaveKeys, Publish, Deactivate,
           Send, Decide, Look, Sign, Stop, Authorize, StoreEnvelope, OtherDecides, Remove, Tick
<1>4. QED
  BY <1>2, <1>3 DEF MuteMeansNone

LEMMA WaitedStays ==
    ASSUME TypeOK, [Next]_vars, NEW from \in Nat \cup {None}, Waited(from)
    PROVE  from # None => from <= grants' /\ (from = grants' => mute')
<1> USE AuthorityAssumption
<1>1. grants' \in {grants, grants + 1} /\ (grants' = grants /\ mute => mute') /\ grants \in Nat
  BY GrantNext DEF TypeOK
<1>2. CASE from # None
  BY <1>1, <1>2 DEF Waited
<1>3. QED
  BY <1>2

LEMMA GrantedStays ==
    ASSUME TypeOK, [Next]_vars, NEW verb, NEW from \in Nat \cup {None}, Granted(verb, from)
    PROVE  verb = "note" /\ from # None => grants' > from
<1>1. grants' \in {grants, grants + 1} /\ grants \in Nat
  BY GrantNext DEF TypeOK
<1>2. QED
  BY <1>1 DEF Granted

\* The types of what is on its way.
LEMMA RequestTyped ==
    ASSUME TypeOK
    PROVE  /\ \A m \in net : m.type = "msg" => m.body \in Post
           /\ \A m \in passed : m.type = "msg" => m.body \in Post
           /\ \A m \in net : m.type = "msg" => m.body.from \in Nat \cup {None}
           /\ \A m \in passed : m.type = "msg" => m.body.from \in Nat \cup {None}
           /\ \A j \in DOMAIN thread : thread[j].from \in Nat \cup {None}
           /\ \A p \in Proc : proc[p].from \in Nat \cup {None}
<1>1. net \subseteq Message /\ passed \subseteq Message
  BY DEF TypeOK
<1>2. \A m \in Message : m.type = "msg" => m.body \in Post
  BY DEF Message
<1>3. \A b \in Post : b.from \in Nat \cup {None}
  BY DEF Post
<1>4. \A j \in DOMAIN thread : thread[j].from \in Nat \cup {None}
  <2>1. \A j \in DOMAIN thread : thread[j] \in Row
    BY DEF TypeOK
  <2>2. QED
    BY <2>1 DEF Row
<1>5. \A p \in Proc : proc[p].from \in Nat \cup {None}
  BY DEF TypeOK, Local
<1>6. QED
  BY <1>1, <1>2, <1>3, <1>4, <1>5

LEMMA MuteSinceNext == IInv /\ [Next]_vars => MuteSinceThen'
<1> SUFFICES ASSUME IInv, [Next]_vars PROVE MuteSinceThen'
  OBVIOUS
<1> USE AuthorityAssumption
<1>1. TypeOK /\ MuteMeansNone /\ MuteSinceThen /\ DecisionsLooked /\ TypeOK'
  BY TypeNext DEF IInv
<1>2. ASSUME NEW p \in Proc PROVE Waited(proc[p].from)'
  <2>1. proc[p].from \in Nat \cup {None} /\ Waited(proc[p].from)
    BY <1>1, RequestTyped DEF MuteSinceThen
  <2>2. CASE proc'[p] = Idle
    BY <2>2 DEF Waited, Idle
  <2>3. CASE proc'[p].from = (IF mute THEN grants ELSE None) /\ UNCHANGED <<grants, mute>>
    BY <1>1, <2>3 DEF Waited, TypeOK
  <2>4. CASE proc'[p].from = proc[p].from
    BY <1>1, <2>1, <2>4, WaitedStays DEF Waited
  <2>5. QED
    BY <1>1, <2>2, <2>3, <2>4, ProcNext
<1>3. ASSUME NEW m \in net', m.type = "msg" PROVE Waited(m.body.from)'
  <2>1. CASE m \in net
    <3>1. m.body.from \in Nat \cup {None} /\ Waited(m.body.from)
      BY <1>1, <1>3, <2>1, RequestTyped DEF MuteSinceThen
    <3>2. QED
      BY <1>1, <3>1, WaitedStays DEF Waited
  <2>2. CASE m \notin net
    <3>1. PICK p \in Proc : m.body.from = proc[p].from
      BY <1>1, <1>3, <2>2, NetNext
    <3>2. proc[p].from \in Nat \cup {None} /\ Waited(proc[p].from)
      BY <1>1, RequestTyped DEF MuteSinceThen
    <3>3. QED
      BY <1>1, <3>1, <3>2, WaitedStays DEF Waited
  <2>3. QED
    BY <2>1, <2>2
<1>4. ASSUME NEW m \in passed' PROVE Granted(m.body.env.verb, m.body.from)'
  <2>1. CASE m \in passed
    <3>1. m.body.from \in Nat \cup {None} /\ Granted(m.body.env.verb, m.body.from)
      BY <1>1, <2>1, RequestTyped DEF MuteSinceThen, DecisionsLooked
    <3>2. QED
      BY <1>1, <3>1, GrantedStays DEF Granted
  <2>2. CASE m \notin passed
    <3>1. /\ m \in net /\ m.type = "msg" /\ Authorizes(m.body.env)
          /\ UNCHANGED <<grants, mute>>
      BY <1>1, <2>2, PassedNext
    <3>2. m.body.from \in Nat \cup {None} /\ Waited(m.body.from)
      BY <1>1, <3>1, RequestTyped DEF MuteSinceThen
    <3>3. m.body.env.verb = "note" => ~mute
      BY <1>1, <3>1 DEF Authorizes, MuteMeansNone
    <3>4. grants \in Nat
      BY <1>1 DEF TypeOK
    <3>5. QED
      BY <3>1, <3>2, <3>3, <3>4 DEF Waited, Granted
  <2>3. QED
    BY <2>1, <2>2
<1>5. ASSUME NEW j \in DOMAIN thread' PROVE Granted(thread[j].verb, thread[j].from)'
  <2>1. CASE j \in DOMAIN thread
    <3>1. thread'[j] = thread[j]
      BY <1>1, <2>1, ThreadGrows
    <3>2. thread[j].from \in Nat \cup {None} /\ Granted(thread[j].verb, thread[j].from)
      BY <1>1, <2>1, RequestTyped DEF MuteSinceThen
    <3>3. QED
      BY <1>1, <3>1, <3>2, GrantedStays DEF Granted
  <2>2. CASE j \notin DOMAIN thread
    <3>1. CASE thread'[j].from = None
      BY <3>1 DEF Granted
    <3>2. CASE \E m \in passed : thread'[j].verb = m.body.env.verb /\ thread'[j].from = m.body.from
      <4>1. PICK m \in passed : thread'[j].verb = m.body.env.verb /\ thread'[j].from = m.body.from
        BY <3>2
      <4>2. m.body.from \in Nat \cup {None} /\ Granted(m.body.env.verb, m.body.from)
        BY <1>1, RequestTyped DEF MuteSinceThen, DecisionsLooked
      <4>3. QED
        BY <1>1, <4>1, <4>2, GrantedStays DEF Granted
    <3>3. QED
      BY <1>1, <2>2, <3>1, <3>2, RowNext
  <2>3. QED
    BY <2>1, <2>2
<1>6. QED
  BY <1>2, <1>3, <1>4, <1>5 DEF MuteSinceThen

-----------------------------------------------------------------------------
(* The decisions of a person who holds receipts.                           *)

\* What was ruled of the messages there were stays so.
LEMMA RuledStays ==
    ASSUME TypeOK, [Next]_vars, NEW verb, NEW of, NEW known,
           known \subseteq DOMAIN thread, Ruled(verb, of, known)
    PROVE  /\ known \subseteq DOMAIN thread'
           /\ \A i \in known :
                  verb \in Verb /\ thread'[i].verb \in Verb /\ thread'[i].of = of => i \in gone'
<1>1. \A i \in known : thread'[i] = thread[i]
  BY ThreadGrows
<1>2. QED
  BY <1>1, ThreadGrows DEF Ruled

LEMMA LookedNext == IInv /\ [Next]_vars => DecisionsLooked'
<1> SUFFICES ASSUME IInv, [Next]_vars PROVE DecisionsLooked'
  OBVIOUS
<1>1. TypeOK /\ CommandsFit /\ DecisionsLooked
  BY DEF IInv
<1>2. ASSUME NEW p \in Proc, proc'[p].pc = "sign"
      PROVE  Ruled(proc[p].cmd, proc[p].of, proc[p].known)'
  <2>1. CASE proc'[p].cmd = "send"
    BY <2>1 DEF Ruled, Verb
  <2>2. CASE /\ proc'[p].cmd = proc[p].cmd /\ proc'[p].of = proc[p].of
             /\ proc'[p].known = proc[p].known
             /\ proc[p].pc = "sign" \/ (proc[p].pc = "look" /\ Pending(proc[p].of))
    <3>1. proc[p].known \subseteq DOMAIN thread
      BY <1>1 DEF CommandsFit
    <3>2. Ruled(proc[p].cmd, proc[p].of, proc[p].known)
      BY <1>1, <2>2, <3>1 DEF DecisionsLooked, Pending, Present, Rules, Ruled
    <3>3. QED
      BY <1>1, <2>2, <3>1, <3>2, RuledStays DEF Ruled
  <2>3. proc'[p] # Idle
    BY <1>2 DEF Idle
  <2>4. QED
    BY <1>1, <1>2, <2>1, <2>2, <2>3, ProcNext
<1>3. ASSUME NEW m \in net' \cup passed', m.type = "msg"
      PROVE  /\ m.body.known \subseteq DOMAIN thread'
             /\ Ruled(m.body.env.verb, m.body.env.of, m.body.known)'
  <2>1. CASE m \in net \cup passed
    <3>1. m.body.known \subseteq DOMAIN thread
          /\ Ruled(m.body.env.verb, m.body.env.of, m.body.known)
      BY <1>1, <1>3, <2>1 DEF DecisionsLooked
    <3>2. /\ m.body.known \subseteq DOMAIN thread'
          /\ \A i \in m.body.known :
                 m.body.env.verb \in Verb /\ thread'[i].verb \in Verb
                 /\ thread'[i].of = m.body.env.of => i \in gone'
      BY <1>1, <3>1, RuledStays
    <3>3. QED
      BY <3>2 DEF Ruled
  <2>2. CASE m \notin net \cup passed
    <3>1. m \in net'
      BY <1>1, <1>3, <2>2, PassedNext
    <3>2. PICK p \in Proc :
                  /\ proc[p].pc = "sign"
                  /\ m.body.env.verb = (IF proc[p].cmd = "send" THEN "note" ELSE proc[p].cmd)
                  /\ m.body.env.of = proc[p].of /\ m.body.known = proc[p].known
      BY <1>1, <1>3, <2>2, <3>1, NetNext
    <3>3. proc[p].known \subseteq DOMAIN thread
          /\ Ruled(m.body.env.verb, m.body.env.of, m.body.known)
      BY <1>1, <3>2 DEF DecisionsLooked, CommandsFit, Ruled, Verb
    <3>4. /\ m.body.known \subseteq DOMAIN thread'
          /\ \A i \in m.body.known :
                 m.body.env.verb \in Verb /\ thread'[i].verb \in Verb
                 /\ thread'[i].of = m.body.env.of => i \in gone'
      BY <1>1, <3>2, <3>3, RuledStays
    <3>5. QED
      BY <3>4 DEF Ruled
  <2>3. QED
    BY <2>1, <2>2
<1>4. ASSUME NEW j \in DOMAIN thread'
      PROVE  /\ thread'[j].known \subseteq DOMAIN thread'
             /\ Ruled(thread[j].verb, thread[j].of, thread[j].known)'
  <2>1. CASE j \in DOMAIN thread
    <3>1. thread'[j] = thread[j]
      BY <1>1, <2>1, ThreadGrows
    <3>2. thread[j].known \subseteq DOMAIN thread
          /\ Ruled(thread[j].verb, thread[j].of, thread[j].known)
      BY <1>1, <2>1 DEF DecisionsLooked
    <3>3. QED
      BY <1>1, <3>1, <3>2, RuledStays DEF Ruled
  <2>2. CASE j \notin DOMAIN thread
    <3>1. CASE thread'[j].known = {}
      BY <3>1 DEF Ruled
    <3>2. CASE \E m \in passed :
                 /\ thread'[j].verb = m.body.env.verb /\ thread'[j].of = m.body.env.of
                 /\ thread'[j].known = m.body.known
      <4>1. PICK m \in passed :
                 /\ thread'[j].verb = m.body.env.verb /\ thread'[j].of = m.body.env.of
                 /\ thread'[j].known = m.body.known
        BY <3>2
      <4>2. m.body.known \subseteq DOMAIN thread
            /\ Ruled(m.body.env.verb, m.body.env.of, m.body.known)
        BY <1>1 DEF DecisionsLooked
      <4>3. QED
        BY <1>1, <4>1, <4>2, RuledStays DEF Ruled
    <3>3. QED
      BY <1>1, <2>2, <3>1, <3>2, RowNext
  <2>3. QED
    BY <2>1, <2>2
<1>5. ASSUME NEW m \in passed' PROVE m.type = "msg"
  BY <1>1, PassedNext DEF DecisionsLooked
<1>6. QED
  BY <1>2, <1>3, <1>4, <1>5 DEF DecisionsLooked

-----------------------------------------------------------------------------

LEMMA InvInit == Init => IInv
<1> SUFFICES ASSUME Init PROVE IInv
  OBVIOUS
<1> USE DEF Init, Idle
<1>1. TypeOK
  BY TypeInit
<1>2. CommandsFit /\ HomeOwnsName /\ OnePair
  BY DEF CommandsFit, HomeOwnsName, OnePair
<1>3. MuteMeansNone /\ MuteSinceThen
  BY DEF MuteMeansNone, MuteSinceThen, Waited
<1>4. DecisionsLooked
  BY DEF DecisionsLooked
<1>5. QED
  BY <1>1, <1>2, <1>3, <1>4 DEF IInv

LEMMA InvNext == IInv /\ [Next]_vars => IInv'
<1> SUFFICES ASSUME IInv, [Next]_vars PROVE IInv'
  OBVIOUS
<1>1. TypeOK'
  BY TypeNext DEF IInv
<1>2. QED
  BY <1>1, CommandsNext, PairNext, MuteNext, MuteSinceNext, LookedNext DEF IInv

\* The inductive invariant holds throughout.
THEOREM AuthorityInvariant == Spec => []IInv
<1>1. QED
  BY InvInit, InvNext, PTL DEF Spec

\* Files, commands, requests and the relay's rows keep their types.
THEOREM AuthorityTyped == Spec => []TypeOK
<1>1. IInv => TypeOK
  BY DEF IInv
<1>2. QED
  BY <1>1, AuthorityInvariant, PTL

\* Identity::prepare saves before anything is published: for any number of
\* commands, deaths and late requests the home owns the name it registered.
THEOREM HomeKeepsName == Spec => []HomeOwnsName
<1>1. IInv => HomeOwnsName
  BY DEF IInv
<1>2. QED
  BY <1>1, AuthorityInvariant, PTL

\* A decision whose receipt is in hand is the last one of this person, unless
\* it is gone.
THEOREM ReceiptsAreFinal == Spec => []ReceiptIsFinal
<1>1. IInv => ReceiptIsFinal
  BY DEF IInv, DecisionsLooked, Ruled, ReceiptIsFinal
<1>2. QED
  BY <1>1, AuthorityInvariant, PTL

\* After a confirmed deactivate the agent is heard again only by a grant.
THEOREM AgentIsStopped == Spec => []AgentStops
<1>1. IInv => AgentStops
  BY DEF IInv, MuteSinceThen, Granted, AgentStops
<1>2. QED
  BY <1>1, AuthorityInvariant, PTL

====
