---- MODULE ClientProofs ----
(***************************************************************************)
(* What the readers and the contact commands of one home keep, for any     *)
(* number of processes, peers, messages and commands.                      *)
(***************************************************************************)
EXTENDS Client, SequenceTheorems, TLAPS

\* What a process holds.
Local ==
    [pc : {"idle", "fetch", "show", "save", "load", "write", "print"},
     cmd : {"none"} \cup Reader \cup Setter,
     from : 0 .. MaxMail, until : 0 .. MaxMail,
     todo : SUBSET Peer, at : SUBSET Peer,
     snap : [Peer -> Standing]]

\* A process is where its command can be.
CommandFits(r) ==
    /\ r.pc \in {"fetch", "show", "save"} => r.cmd \in Reader
    /\ r.pc \in {"load", "write"} => r.cmd \in Setter
    /\ r.pc = "print" => r.cmd = "trust"
    /\ r.pc = "save" => r.cmd # "peek"
    /\ r.cmd \in Reader => r.pc \in {"fetch", "show", "save"}

\* The mark a fetch ended with: where it began, or further and in the mail.
Ahead(r) == r.from < r.until /\ r.until <= Len(mail)

PlaceFits(r) ==
    /\ r.cmd \in {"inbox", "mcp"} => r.from <= Len(mail)
    /\ r.pc \in {"show", "save"} => r.until = r.from \/ Ahead(r)
    /\ r.pc = "save" /\ r.cmd = "watch" => Ahead(r)

\* What was shown, passed over by request or by a death, or is in hand.
Seen == taken \cup waived \cup InHand

\* Every reader that will save a place has everything behind it seen, up to
\* where it began and, once it has shown its batch, to where it ends.
Behind(r) ==
    /\ r.cmd \in {"inbox", "watch", "mcp"} => 1 .. r.from \subseteq Seen
    /\ r.pc = "save" /\ r.cmd \in {"inbox", "watch"} => 1 .. r.until \subseteq Seen

\* Who was trusted and never lost it is approved, also between the last write
\* and the display of ecco trust, and what was taken of theirs was read.
Approved(who) == \A a \in who \ lapsed : contacts[a] = "approved"

Kept ==
    /\ Approved(admitted)
    /\ \A p \in Proc : proc[p].pc = "print" => Approved(proc[p].at)
    /\ \A g \in taken : mail[g] \in admitted \ lapsed => g \in read

\* The inductive invariant.
Typed == TypeOK /\ proc \in [Proc -> Local]
Fits == \A p \in Proc : CommandFits(proc[p]) /\ PlaceFits(proc[p])
Covered == NothingPassedOver /\ \A p \in Proc : Behind(proc[p])

IInv == Typed /\ Fits /\ Covered /\ Kept

-----------------------------------------------------------------------------
(* Each step, from what its process holds.                                 *)

LEMMA InitIInv == Init => IInv
<1> SUFFICES ASSUME Init PROVE IInv
  OBVIOUS
<1> USE ClientAssumption DEF Init
<1>1. Nobody \in [Peer -> Standing] /\ Idle \in Local
  BY DEF Nobody, Standing, Idle, Local
<1>2. Typed
  <2>1. mail \in Seq(Peer) /\ Len(mail) = 0 /\ DOMAIN mail = {}
    BY EmptySeq
  <2>2. proc \in [Proc -> Local] /\ contacts \in [Peer -> Standing]
    BY <1>1
  <2> QED
    BY <2>1, <2>2 DEF Typed, TypeOK, Local
<1>3. Fits
  BY DEF Fits, CommandFits, PlaceFits, Idle, Reader, Setter
<1>4. Covered /\ Kept
  BY DEF Covered, NothingPassedOver, Behind, Kept, Approved, Idle
<1> QED
  BY <1>2, <1>3, <1>4 DEF IInv

\* An idle process may hold Idle again.
LEMMA IdleFits ==
    /\ Idle \in Local
    /\ CommandFits(Idle) /\ PlaceFits(Idle) /\ Behind(Idle)
BY ClientAssumption DEF Idle, Local, Nobody, Standing, CommandFits, PlaceFits, Behind, Reader, Setter

\* What a step of one process gives it.
New(p, r) == proc' = [proc EXCEPT ![p] = r]

\* The parts of TypeOK that are not about processes.
Tables ==
    /\ mail \in Seq(Peer) /\ Len(mail) <= MaxMail
    /\ cursor \in 0 .. Len(mail)
    /\ contacts \in [Peer -> Standing]
    /\ taken \subseteq DOMAIN mail /\ read \subseteq DOMAIN mail
    /\ waived \subseteq 1 .. MaxMail /\ crossed \subseteq Proc
    /\ admitted \subseteq Peer /\ lapsed \subseteq Peer
    /\ commands \in 0 .. MaxCommands

LEMMA TypedIsTables == Typed <=> Tables /\ proc \in [Proc -> Local]
BY DEF Typed, TypeOK, Tables, Local

\* Nothing that was seen is unseen by a step of one process that leaves the
\* mail alone and does not drop a batch in hand.
LEMMA SeenGrows ==
    ASSUME Typed, NEW p \in Proc, NEW r \in Local, New(p, r), mail' = mail,
           taken \subseteq taken', waived \subseteq waived',
           proc[p].cmd = "mcp" /\ proc[p].pc = "show" => Batch(p) \subseteq taken' \cup waived'
    PROVE  Seen \subseteq Seen'
<1> SUFFICES ASSUME NEW g \in InHand PROVE g \in Seen'
  BY DEF Seen
<1>1. PICK q \in Proc : proc[q].cmd = "mcp" /\ proc[q].pc = "show" /\ g \in Batch(q)
  BY DEF InHand
<1>2. CASE q = p
  BY <1>1, <1>2 DEF Seen
<1>3. CASE q # p
  <2>1. proc'[q] = proc[q]
    BY <1>3 DEF Typed, New
  <2>2. proc'[q].cmd = "mcp" /\ proc'[q].pc = "show" /\ g \in Batch(q)'
    BY <1>1, <2>1 DEF Batch
  <2> QED
    BY <2>2 DEF Seen, InHand
<1> QED
  BY <1>2, <1>3

\* What holds of one process's new locals holds of all.
LEMMA FitsStep ==
    ASSUME Typed, Fits, \A q \in Proc : Behind(proc[q]),
           NEW p \in Proc, NEW r \in Local, New(p, r), mail' = mail,
           Seen \subseteq Seen',
           CommandFits(r), PlaceFits(r),
           r.cmd \in {"inbox", "watch", "mcp"} => 1 .. r.from \subseteq Seen',
           r.pc = "save" /\ r.cmd \in {"inbox", "watch"} => 1 .. r.until \subseteq Seen'
    PROVE  proc' \in [Proc -> Local] /\ Fits' /\ (\A q \in Proc : Behind(proc[q]))'
<1>1. proc' \in [Proc -> Local] /\ proc'[p] = r /\ \A q \in Proc \ {p} : proc'[q] = proc[q]
  BY DEF Typed, New
<1>2. Fits'
  BY <1>1 DEF Fits, CommandFits, PlaceFits, Ahead
<1>3. ASSUME NEW q \in Proc PROVE Behind(proc[q])'
  BY <1>1 DEF Behind
<1> QED
  BY <1>1, <1>2, <1>3

\* The inductive invariant but for what is about contacts.
Readers == Typed /\ Fits /\ Covered

\* A command begins or goes on, and neither files nor mail change.
LEMMA QuietStep ==
    ASSUME Readers, NEW p \in Proc, NEW r \in Local, New(p, r),
           UNCHANGED <<mail, cursor>>, Tables',
           taken \subseteq taken', waived \subseteq waived',
           proc[p].cmd = "mcp" /\ proc[p].pc = "show" => Batch(p) \subseteq taken' \cup waived',
           CommandFits(r), PlaceFits(r),
           r.cmd \in {"inbox", "watch", "mcp"} => 1 .. r.from \subseteq Seen \cup taken' \cup waived',
           r.pc = "save" /\ r.cmd \in {"inbox", "watch"}
               => 1 .. r.until \subseteq Seen \cup taken' \cup waived'
    PROVE  Readers'
<1>1. Typed /\ Fits /\ NothingPassedOver /\ \A q \in Proc : Behind(proc[q])
  BY DEF Readers, Covered
<1>2. Seen \subseteq Seen'
  BY <1>1, SeenGrows
<1>3. taken' \cup waived' \subseteq Seen'
  BY DEF Seen
<1>4. proc' \in [Proc -> Local] /\ Fits' /\ (\A q \in Proc : Behind(proc[q]))'
  BY <1>1, <1>2, <1>3, FitsStep
<1>5. Typed'
  BY <1>4, TypedIsTables DEF Typed, TypeOK, Tables, Local
<1>6. NothingPassedOver'
  BY <1>1, <1>2 DEF NothingPassedOver, Seen
<1> QED
  BY <1>4, <1>5, <1>6 DEF Readers, Covered

-----------------------------------------------------------------------------
(* The readers, action by action.                                          *)

LEMMA ReadersNext == IInv /\ [Next]_vars => Readers'
<1> SUFFICES ASSUME IInv, [Next]_vars PROVE Readers'
  OBVIOUS
<1> USE ClientAssumption
<1>0. Readers /\ Typed /\ Tables /\ Fits /\ NothingPassedOver /\ Covered
  BY TypedIsTables DEF IInv, Readers, Covered
<1>a. Len(mail) \in Nat /\ DOMAIN mail = 1 .. Len(mail) /\ \A x \in 1 .. cursor : x \in Seen
  BY <1>0 DEF Tables, NothingPassedOver, Seen
<1>b. \A p \in Proc : proc[p] \in Local /\ CommandFits(proc[p]) /\ PlaceFits(proc[p]) /\ Behind(proc[p])
  BY <1>0 DEF Typed, Fits, Covered
<1>1. ASSUME NEW p \in Proc, NEW cmd \in Reader \ {"peek"}, ReadInbox(p, cmd) PROVE Readers'
  <2> DEFINE r == [Idle EXCEPT !.pc = "fetch", !.cmd = cmd, !.from = cursor]
  <2>1. r \in Local /\ r.pc = "fetch" /\ r.cmd = cmd /\ r.from = cursor
    <3>1. cursor \in 0 .. MaxMail
      BY <1>0, <1>a DEF Tables
    <3> QED
      BY <3>1, IdleFits DEF Local
  <2>2. New(p, r) /\ Tables' /\ UNCHANGED <<mail, cursor, taken, waived>> /\ proc[p] = Idle
    BY <1>0, <1>1 DEF ReadInbox, Begin, New, Tables, file, history
  <2>3. CommandFits(r) /\ PlaceFits(r)
    BY <1>0, <1>a, <2>1 DEF CommandFits, PlaceFits, Reader, Setter, Tables
  <2>4. proc[p].pc # "show"
    BY <2>2 DEF Idle
  <2> HIDE DEF r
  <2> QED
    BY <1>0, <1>a, <2>1, <2>2, <2>3, <2>4, QuietStep
<1>2. ASSUME NEW p \in Proc, NEW cmd \in {"peek", "watch"}, NEW since \in 0 .. MaxMail,
             ReadFrom(p, cmd, since)
      PROVE Readers'
  <2> DEFINE r == [Idle EXCEPT !.pc = "fetch", !.cmd = cmd, !.from = since]
  <2>1. r \in Local /\ r.pc = "fetch" /\ r.cmd = cmd /\ r.from = since
    BY IdleFits DEF Local, Reader
  <2>2. New(p, r) /\ Tables' /\ UNCHANGED <<mail, cursor, taken>> /\ proc[p] = Idle
    BY <1>0, <1>2 DEF ReadFrom, Begin, New, Tables, file
  <2>3. waived \subseteq waived' /\ (cmd = "watch" => 1 .. since \subseteq waived')
    BY <1>2 DEF ReadFrom
  <2>4. CommandFits(r) /\ PlaceFits(r)
    BY <2>1 DEF CommandFits, PlaceFits, Reader, Setter
  <2>5. proc[p].pc # "show"
    BY <2>2 DEF Idle
  <2> HIDE DEF r
  <2> QED
    BY <1>0, <2>1, <2>2, <2>3, <2>4, <2>5, QuietStep
<1>3. ASSUME NEW p \in Proc, Fetch(p) PROVE Readers'
  <2> DEFINE o == proc[p]
             mark == Mark(o.from)
             r == [o EXCEPT !.pc = Presents(o.cmd), !.until = mark]
  <2>1. o \in Local /\ o.pc = "fetch" /\ o.cmd \in Reader /\ o.from \in 0 .. MaxMail
    BY <1>b, <1>3 DEF Fetch, CommandFits, Local
  <2>2. mark \in 0 .. MaxMail /\ (mark = o.from \/ (o.from < mark /\ mark <= Len(mail)))
    BY <1>0, <1>a, <2>1 DEF Tables, Mark
  <2>3. Presents(o.cmd) \in {"save", "show"} /\ (Presents(o.cmd) = "save" <=> o.cmd = "mcp")
    BY DEF Presents
  <2>4. /\ r \in Local /\ r.pc = Presents(o.cmd) /\ r.until = mark
        /\ r.cmd = o.cmd /\ r.from = o.from
    BY <2>1, <2>2, <2>3 DEF Local
  <2>5. New(p, r)
    BY <1>3 DEF Fetch, New
  <2>6. Tables' /\ UNCHANGED <<mail, cursor, taken, waived>>
    BY <1>0, <1>3 DEF Fetch, Tables, file, history
  <2>7. CommandFits(r) /\ PlaceFits(r)
    BY <1>b, <2>1, <2>2, <2>3, <2>4
       DEF CommandFits, PlaceFits, Ahead, Reader, Setter
  <2>8. r.cmd \in {"inbox", "watch", "mcp"} => 1 .. r.from \subseteq Seen
    BY <1>b, <2>4 DEF Behind
  <2>9. proc[p].pc # "show" /\ (r.pc = "save" => r.cmd = "mcp")
    BY <2>1, <2>3, <2>4
  <2> HIDE DEF r
  <2> QED
    BY <1>0, <2>4, <2>5, <2>6, <2>7, <2>8, <2>9, QuietStep
<1>4. ASSUME NEW p \in Proc, Show(p) PROVE Readers'
  <2> DEFINE o == proc[p]
             next == CASE o.cmd = "inbox" -> "save"
                       [] o.cmd = "watch" -> IF Moved(p) THEN "save" ELSE "fetch"
                       [] OTHER -> "idle"
             r == IF next = "idle" THEN Idle ELSE [o EXCEPT !.pc = next]
  <2>1. o \in Local /\ o.pc = "show" /\ o.cmd \in Reader
    BY <1>b, <1>4 DEF Show, CommandFits
  <2>2. /\ o.cmd = "inbox" => next = "save"
        /\ o.cmd = "watch" => next = (IF Moved(p) THEN "save" ELSE "fetch")
        /\ o.cmd \notin {"inbox", "watch"} => next = "idle"
    OBVIOUS
  <2>3. New(p, r)
    BY <1>4 DEF Show, Goto, New
  <2>4. Batch(p) \subseteq DOMAIN mail
    BY DEF Batch
  <2>5. Tables' /\ UNCHANGED <<mail, cursor, waived>> /\ taken' = taken \cup Batch(p)
    <3>1. read' = read \cup {g \in Batch(p) : contacts[mail[g]] = "approved"}
          /\ taken' = taken \cup Batch(p)
          /\ UNCHANGED <<mail, cursor, contacts, commands, waived, crossed, admitted, lapsed>>
      BY <1>4 DEF Show, file
    <3> QED
      BY <1>0, <2>4, <3>1 DEF Tables
  <2>6. next \in {"save", "fetch"} => next = r.pc /\ r \in Local /\ r = [o EXCEPT !.pc = next]
                                      /\ r.cmd = o.cmd /\ r.from = o.from /\ r.until = o.until
    BY <2>1 DEF Local
  <2>7. next = "idle" => r = Idle
    OBVIOUS
  <2>8. PlaceFits(o) /\ CommandFits(o) /\ Behind(o)
    BY <1>b
  <2>9. 1 .. o.until \subseteq 1 .. o.from \cup Batch(p)
    <3>1. o.from \in Nat /\ o.until \in Nat /\ (o.until = o.from \/ o.until <= Len(mail))
      BY <2>1, <2>8 DEF PlaceFits, Ahead, Local
    <3> QED
      BY <1>a, <3>1 DEF Batch
  <2>10. next \in {"save", "fetch"} =>
            /\ CommandFits(r) /\ PlaceFits(r)
            /\ 1 .. r.from \subseteq Seen
            /\ r.pc = "save" => 1 .. r.until \subseteq Seen \cup taken'
    <3> SUFFICES ASSUME next \in {"save", "fetch"}
                 PROVE  /\ CommandFits(r) /\ PlaceFits(r)
                        /\ 1 .. r.from \subseteq Seen
                        /\ r.pc = "save" => 1 .. r.until \subseteq Seen \cup taken'
      OBVIOUS
    <3>1. o.cmd \in {"inbox", "watch"} /\ (next = "save" /\ o.cmd = "watch" => o.until > o.from)
      BY <2>2 DEF Moved
    <3>2. r.pc = next /\ r.cmd = o.cmd /\ r.from = o.from /\ r.until = o.until
          /\ o.from \in Nat /\ o.until \in Nat
      BY <2>1, <2>6 DEF Local
    <3>3. CommandFits(r)
      BY <3>1, <3>2 DEF CommandFits, Reader, Setter
    <3>4. PlaceFits(r)
      BY <2>1, <2>8, <3>1, <3>2 DEF PlaceFits, Ahead
    <3>5. 1 .. r.from \subseteq Seen
      BY <2>8, <3>1, <3>2 DEF Behind
    <3>6. 1 .. r.until \subseteq Seen \cup taken'
      BY <2>5, <2>9, <3>2, <3>5
    <3> HIDE DEF r, next
    <3> QED
      BY <3>3, <3>4, <3>5, <3>6
  <2>11. next \in {"save", "fetch", "idle"}
    BY <2>1, <2>2
  <2>12. CASE next = "idle"
    <3>1. Idle.cmd = "none" /\ Idle.pc = "idle" /\ New(p, Idle)
      BY <2>3, <2>7, <2>12 DEF Idle
    <3> HIDE DEF r, next
    <3> QED
      BY <1>0, <2>5, <3>1, IdleFits, QuietStep
  <2>13. CASE next \in {"save", "fetch"}
    <3> HIDE DEF r, next
    <3> QED
      BY <1>0, <2>3, <2>5, <2>6, <2>10, <2>13, QuietStep
  <2> QED
    BY <2>11, <2>12, <2>13
<1>6. ASSUME NEW p \in Proc, NEW cmd \in Setter, NEW who \in SUBSET Peer, Decide(p, cmd, who)
      PROVE Readers'
  <2> DEFINE todo == IF cmd = "send" THEN Strangers(who) ELSE who
             r == [Idle EXCEPT !.pc = "load", !.cmd = cmd, !.todo = todo]
  <2>1. todo \subseteq Peer /\ contacts \in [Peer -> Standing]
    BY <1>0 DEF Strangers, Tables
  <2>2. /\ r \in Local /\ r.pc = "load" /\ r.cmd = cmd /\ r.todo = todo /\ r.at = {}
    BY <2>1, IdleFits DEF Local, Idle
  <2>3. New(p, r) /\ Tables' /\ UNCHANGED <<mail, cursor, taken, waived>> /\ proc[p] = Idle
    BY <1>0, <1>6 DEF Decide, Begin, New, Tables, file, history
  <2>4. CommandFits(r) /\ PlaceFits(r)
    BY <2>2 DEF CommandFits, PlaceFits, Reader, Setter, Strangers
  <2>5. proc[p].pc # "show" /\ r.cmd \notin {"inbox", "watch", "mcp"}
    BY <2>2, <2>3 DEF Idle, Setter
  <2> HIDE DEF r
  <2> QED
    BY <1>0, <2>2, <2>3, <2>4, <2>5, QuietStep
<1>7. ASSUME NEW p \in Proc, Load(p) PROVE Readers'
  <2>1. PICK a \in proc[p].todo :
            New(p, [proc[p] EXCEPT !.pc = "write", !.at = {a}, !.todo = @ \ {a}, !.snap = contacts])
    BY <1>7 DEF Load, New
  <2> DEFINE o == proc[p]
             r == [o EXCEPT !.pc = "write", !.at = {a}, !.todo = @ \ {a}, !.snap = contacts]
  <2>2. o \in Local /\ o.pc = "load" /\ o.cmd \in Setter /\ contacts \in [Peer -> Standing]
    BY <1>0, <1>b, <1>7 DEF Load, CommandFits, Tables
  <2>3. /\ r \in Local /\ r.pc = "write" /\ r.cmd = o.cmd /\ r.todo \cup r.at = o.todo /\ r.from = o.from
    BY <2>1, <2>2 DEF Local
  <2>4. Tables' /\ UNCHANGED <<mail, cursor, taken, waived>>
    BY <1>0, <1>7 DEF Load, Tables, file, history
  <2>5. PlaceFits(o)
    BY <1>b
  <2>6. CommandFits(r) /\ PlaceFits(r) /\ r.cmd \notin {"inbox", "watch", "mcp"}
    BY <2>2, <2>3, <2>5 DEF CommandFits, PlaceFits, Reader, Setter
  <2> HIDE DEF r
  <2> QED
    BY <1>0, <2>1, <2>2, <2>3, <2>4, <2>6, QuietStep DEF r
<1>8. ASSUME NEW p \in Proc, Write(p) PROVE Readers'
  <2> DEFINE o == proc[p]
             next == IF o.todo # {} THEN "load" ELSE IF o.cmd = "trust" THEN "print" ELSE "idle"
             r == IF next = "idle" THEN Idle ELSE [o EXCEPT !.pc = next]
  <2>1. o \in Local /\ o.pc = "write" /\ o.cmd \in Setter
    BY <1>b, <1>8 DEF Write, CommandFits
  <2>2. New(p, r)
    BY <1>8 DEF Write, Goto, New
  <2>3. Tables' /\ UNCHANGED <<mail, cursor, taken, waived>>
    <3>1. contacts' \in [Peer -> Standing]
      BY <1>8, <2>1 DEF Write, Local, Standing
    <3>2. lapsed' \subseteq Peer
      BY <1>0, <1>8 DEF Write, Tables
    <3>3. UNCHANGED <<mail, cursor, commands, taken, read, waived, crossed, admitted>>
      BY <1>8 DEF Write
    <3> QED
      BY <1>0, <3>1, <3>2, <3>3 DEF Tables
  <2>4. next \in {"load", "print"} =>
            r \in Local /\ r.pc = next /\ r.cmd = o.cmd /\ r.todo = o.todo
            /\ r.at = o.at /\ r.from = o.from
    BY <2>1 DEF Local
  <2>5. next = "print" => o.cmd = "trust"
    OBVIOUS
  <2>7. next = "idle" => r = Idle
    OBVIOUS
  <2>8. CASE next \in {"load", "print"}
    <3>1. CommandFits(r) /\ PlaceFits(r) /\ r.cmd \notin {"inbox", "watch", "mcp"}
      <4> HIDE DEF r, next
      <4> QED
        BY <2>1, <2>4, <2>5, <2>8 DEF CommandFits, PlaceFits, Reader, Setter
    <3> HIDE DEF r, next
    <3> QED
      BY <1>0, <2>1, <2>2, <2>3, <2>4, <2>8, <3>1, QuietStep
  <2>9. CASE next = "idle"
    <3>1. Idle.cmd = "none" /\ New(p, Idle)
      BY <2>2, <2>7, <2>9 DEF Idle
    <3> QED
      BY <1>0, <2>1, <2>3, <3>1, IdleFits, QuietStep
  <2> QED
    BY <2>8, <2>9
<1>9. ASSUME NEW p \in Proc, ShowEarlier(p) PROVE Readers'
  <2>1. New(p, Idle) /\ proc[p].pc = "print" /\ Idle.cmd = "none"
    BY <1>9 DEF ShowEarlier, Goto, New, Idle
  <2>2. Tables' /\ UNCHANGED <<mail, cursor, taken, waived>>
    <3>1. proc[p].at \subseteq Peer /\ Earlier(proc[p].at) \subseteq DOMAIN mail
      BY <1>b DEF Local, Earlier
    <3> QED
      BY <1>0, <1>9, <3>1 DEF ShowEarlier, Tables, file
  <2> QED
    BY <1>0, <2>1, <2>2, IdleFits, QuietStep
<1>10. ASSUME NEW p \in Proc, Die(p) PROVE Readers'
  <2>1. New(p, Idle) /\ Idle.cmd = "none"
    BY <1>10 DEF Die, Goto, New, Idle
  <2>2. UNCHANGED <<mail, cursor, taken>> /\ waived \subseteq waived'
        /\ (proc[p].cmd = "mcp" /\ proc[p].pc = "show" => Batch(p) \subseteq waived')
    BY <1>10 DEF Die, file
  <2>3. Tables'
    <3>1. Batch(p) \subseteq 1 .. MaxMail
      BY <1>0, <1>a DEF Batch, Tables
    <3> QED
      BY <1>0, <1>10, <3>1 DEF Die, Tables, file
  <2> QED
    BY <1>0, <2>1, <2>2, <2>3, IdleFits, QuietStep
<1>5. ASSUME NEW p \in Proc, Save(p) PROVE Readers'
  <2> DEFINE o == proc[p]
             r == CASE o.cmd = "mcp" -> [o EXCEPT !.pc = "show"]
                    [] o.cmd = "watch" -> [o EXCEPT !.pc = "fetch", !.from = o.until]
                    [] OTHER -> Idle
  <2>1. o \in Local /\ o.pc = "save" /\ o.cmd \in {"inbox", "watch", "mcp"}
    BY <1>b, <1>5 DEF Save, CommandFits, Reader
  <2>2. New(p, r) /\ cursor' = o.until
        /\ UNCHANGED <<mail, contacts, commands, taken, read, waived, admitted, lapsed>>
    BY <1>5 DEF Save, New
  <2>3. PlaceFits(o) /\ Behind(o)
    BY <1>b
  <2>4. o.from \in Nat /\ o.until \in Nat /\ o.from <= o.until /\ o.until <= Len(mail)
    <3>1. o.from \in Nat /\ o.until \in Nat
      BY <2>1 DEF Local
    <3> QED
      BY <1>a, <2>1, <2>3, <3>1 DEF PlaceFits, Ahead
  <2>5. /\ o.cmd = "mcp" => r = [o EXCEPT !.pc = "show"]
        /\ o.cmd = "watch" => r = [o EXCEPT !.pc = "fetch", !.from = o.until]
        /\ o.cmd = "inbox" => r = Idle
    BY <2>1
  <2> HIDE DEF r
  <2>6. r \in Local
    <3>1. o.until \in 0 .. MaxMail
      BY <2>1 DEF Local
    <3> QED
      BY <2>1, <2>5, <3>1, IdleFits DEF Local
  <2>7. Seen \subseteq Seen'
    BY <1>0, <2>1, <2>2, <2>6, SeenGrows
  <2>8. 1 .. o.from \subseteq Seen
    BY <2>1, <2>3 DEF Behind
  <2>9. 1 .. o.until \subseteq Seen'
    <3>1. CASE o.cmd = "mcp"
      <4>1. proc'[p] = r /\ r.cmd = "mcp" /\ r.pc = "show" /\ r.from = o.from /\ r.until = o.until
        BY <1>0, <2>1, <2>2, <2>5, <3>1 DEF New, Typed, Local
      <4>2. Batch(p)' = (o.from + 1 .. o.until) \cap DOMAIN mail
        BY <2>2, <4>1 DEF Batch
      <4>3. (o.from + 1 .. o.until) \cap DOMAIN mail \subseteq Seen'
        BY <4>1, <4>2 DEF Seen, InHand
      <4>4. \A g \in 1 .. o.until : g \in 1 .. o.from \/ g \in (o.from + 1 .. o.until) \cap DOMAIN mail
        BY <1>a, <2>4
      <4> QED
        BY <2>7, <2>8, <4>3, <4>4
    <3>2. CASE o.cmd \in {"inbox", "watch"}
      BY <2>1, <2>3, <2>7, <3>2 DEF Behind
    <3> QED
      BY <2>1, <3>1, <3>2
  <2>10. /\ CommandFits(r) /\ PlaceFits(r)
         /\ r.cmd \in {"inbox", "watch", "mcp"} => 1 .. r.from \subseteq Seen'
         /\ r.pc # "save"
    <3>1. CASE o.cmd = "mcp"
      <4>1. r.cmd = "mcp" /\ r.pc = "show" /\ r.from = o.from /\ r.until = o.until
        BY <2>1, <2>5, <3>1 DEF Local
      <4>2. CommandFits(r)
        BY <4>1 DEF CommandFits, Reader, Setter
      <4>3. PlaceFits(r)
        BY <1>a, <2>4, <4>1 DEF PlaceFits, Ahead
      <4> QED
        BY <2>7, <2>8, <4>1, <4>2, <4>3
    <3>2. CASE o.cmd = "watch"
      <4>1. r.cmd = "watch" /\ r.pc = "fetch" /\ r.from = o.until
        BY <2>1, <2>5, <3>2 DEF Local
      <4>2. CommandFits(r) /\ PlaceFits(r)
        BY <4>1 DEF CommandFits, PlaceFits, Reader, Setter
      <4>3. 1 .. r.from \subseteq Seen'
        BY <2>9, <4>1
      <4> QED
        BY <4>1, <4>2, <4>3
    <3>3. CASE o.cmd = "inbox"
      BY <2>5, <3>3, IdleFits DEF Idle
    <3> QED
      BY <2>1, <3>1, <3>2, <3>3
  <2>11. proc' \in [Proc -> Local] /\ Fits' /\ (\A q \in Proc : Behind(proc[q]))'
    BY <1>0, <2>2, <2>6, <2>7, <2>10, FitsStep DEF Covered
  <2>12. Tables'
    <3>1. crossed' \subseteq Proc
      BY <1>0, <1>5 DEF Save, Tables
    <3> QED
      BY <1>0, <1>a, <2>2, <2>4, <3>1 DEF Tables
  <2>13. Typed'
    BY <2>11, <2>12, TypedIsTables DEF Typed, TypeOK, Tables, Local
  <2>14. NothingPassedOver'
    BY <2>2, <2>9 DEF NothingPassedOver, Seen
  <2> QED
    BY <2>11, <2>13, <2>14 DEF Readers, Covered
<1>11. ASSUME NEW a \in Peer, Arrive(a) PROVE Readers'
  <2>1. /\ mail' = Append(mail, a) /\ Len(mail) < MaxMail
        /\ UNCHANGED <<cursor, contacts, proc, commands, taken, read, waived, crossed, admitted, lapsed>>
    BY <1>11 DEF Arrive, file, history
  <2>2. mail' \in Seq(Peer) /\ Len(mail') = Len(mail) + 1 /\ DOMAIN mail' = 1 .. Len(mail) + 1
    BY <1>0, <2>1, AppendProperties DEF Tables
  <2>3. DOMAIN mail \subseteq DOMAIN mail'
    BY <1>a, <2>2
  <2>4. Typed'
    <3>1. Tables'
      BY <1>0, <1>a, <2>1, <2>2, <2>3 DEF Tables
    <3> QED
      BY <1>0, <2>1, <3>1, TypedIsTables DEF Typed, TypeOK, Tables, Local
  <2>5. Seen \subseteq Seen'
    <3>1. ASSUME NEW p \in Proc PROVE Batch(p) \subseteq Batch(p)'
      BY <2>1, <2>3 DEF Batch
    <3>2. InHand \subseteq InHand'
      BY <2>1, <3>1 DEF InHand
    <3> QED
      BY <2>1, <3>2 DEF Seen
  <2>6. Fits'
    <3>1. ASSUME NEW p \in Proc
          PROVE  CommandFits(proc[p])' /\ PlaceFits(proc[p])'
      <4>1. proc[p].from \in Nat /\ proc[p].until \in Nat
        BY <1>b DEF Local
      <4> QED
        BY <1>a, <1>b, <2>1, <2>2, <4>1 DEF CommandFits, PlaceFits, Ahead
    <3> QED
      BY <3>1 DEF Fits
  <2>7. Covered'
    <3>1. ASSUME NEW p \in Proc PROVE Behind(proc[p])'
      BY <1>b, <2>1, <2>5 DEF Behind
    <3>2. NothingPassedOver'
      BY <1>a, <2>1, <2>5 DEF NothingPassedOver, Seen
    <3> QED
      BY <3>1, <3>2 DEF Covered
  <2> QED
    BY <2>4, <2>6, <2>7 DEF Readers
<1>12. CASE UNCHANGED vars
  <2>1. UNCHANGED <<mail, cursor, contacts, proc, commands, taken, read, waived, crossed, admitted, lapsed>>
    BY <1>12 DEF vars, file, history
  <2>2. InHand' = InHand /\ Seen' = Seen
    BY <2>1 DEF Seen, InHand, Batch
  <2> QED
    BY <1>0, <2>1, <2>2 DEF Readers, Typed, TypeOK, Fits, CommandFits, PlaceFits,
       Ahead, Covered, NothingPassedOver, Behind
<1> QED
  BY <1>1, <1>2, <1>3, <1>4, <1>5, <1>6, <1>7, <1>8, <1>9, <1>10, <1>11, <1>12 DEF Next

-----------------------------------------------------------------------------
(* The contacts.                                                           *)

\* Only ecco trust's own approval is displayed, and a reader that takes mail
\* of an approved sender displays it.
LEMMA KeptNext == IInv /\ [Next]_vars => Kept'
<1> SUFFICES ASSUME IInv, [Next]_vars PROVE Kept'
  OBVIOUS
<1>0. Typed /\ Tables /\ Fits /\ Kept
  BY TypedIsTables DEF IInv
<1>a. \A p \in Proc : proc[p] \in Local /\ CommandFits(proc[p])
  BY <1>0 DEF Typed, Fits
<1>1. ASSUME NEW p \in Proc, NEW r \in Local, New(p, r), r.pc # "print",
             UNCHANGED <<mail, contacts, admitted, lapsed, taken>>, read \subseteq read'
      PROVE  Kept'
  <2>1. ASSUME NEW q \in Proc, proc'[q].pc = "print" PROVE Approved(proc[q].at)'
    <3>1. q # p /\ proc'[q] = proc[q]
      BY <1>0, <1>1, <2>1 DEF Typed, New
    <3> QED
      BY <1>0, <1>1, <2>1, <3>1 DEF Kept, Approved
  <2> QED
    BY <1>0, <1>1, <2>1 DEF Kept, Approved
<1> DEFINE Quiet == UNCHANGED <<mail, contacts, admitted, lapsed, taken, read>>
<1>2. ASSUME NEW p \in Proc, NEW cmd \in Reader \ {"peek"}, ReadInbox(p, cmd) PROVE Kept'
  <2> DEFINE r == [Idle EXCEPT !.pc = "fetch", !.cmd = cmd, !.from = cursor]
  <2>1. r \in Local /\ r.pc # "print"
    <3>1. cursor \in 0 .. MaxMail
      BY <1>0, LenProperties, ClientAssumption DEF Tables
    <3> QED
      BY <3>1, IdleFits DEF Local
  <2>2. New(p, r) /\ Quiet
    BY <1>2 DEF ReadInbox, Begin, New, file, history
  <2> QED
    BY <1>1, <2>1, <2>2
<1>3. ASSUME NEW p \in Proc, NEW cmd \in {"peek", "watch"}, NEW since \in 0 .. MaxMail,
             ReadFrom(p, cmd, since)
      PROVE Kept'
  <2> DEFINE r == [Idle EXCEPT !.pc = "fetch", !.cmd = cmd, !.from = since]
  <2>1. r \in Local /\ r.pc # "print"
    BY IdleFits DEF Local, Reader
  <2>2. New(p, r) /\ Quiet
    BY <1>3 DEF ReadFrom, Begin, New, file
  <2> QED
    BY <1>1, <2>1, <2>2
<1>4. ASSUME NEW p \in Proc, Fetch(p) PROVE Kept'
  <2> DEFINE mark == Mark(proc[p].from)
             r == [proc[p] EXCEPT !.pc = Presents(proc[p].cmd), !.until = mark]
  <2>1. r \in Local /\ r.pc # "print"
    <3>1. mark \in 0 .. MaxMail /\ Presents(proc[p].cmd) \in {"save", "show"}
      BY <1>0, <1>a, LenProperties, ClientAssumption DEF Tables, Presents, Mark, Local
    <3> QED
      BY <1>a, <3>1 DEF Local
  <2>2. New(p, r) /\ Quiet
    BY <1>4 DEF Fetch, New, file, history
  <2> QED
    BY <1>1, <2>1, <2>2
<1>5. ASSUME NEW p \in Proc, Show(p) PROVE Kept'
  <2>1. PICK pc \in {"save", "fetch", "idle"} :
            New(p, IF pc = "idle" THEN Idle ELSE [proc[p] EXCEPT !.pc = pc])
    BY <1>5 DEF Show, Goto, New
  <2> DEFINE r == IF pc = "idle" THEN Idle ELSE [proc[p] EXCEPT !.pc = pc]
  <2>2. r \in Local /\ r.pc # "print"
    BY <1>a, <2>1, IdleFits DEF Local, Idle
  <2>3. /\ read' = read \cup {g \in Batch(p) : contacts[mail[g]] = "approved"}
        /\ taken' = taken \cup Batch(p)
        /\ UNCHANGED <<mail, contacts, admitted, lapsed>>
    BY <1>5 DEF Show, file
  <2>4. ASSUME NEW g \in taken', mail[g] \in admitted \ lapsed PROVE g \in read'
    <3>1. contacts[mail[g]] = "approved"
      BY <1>0, <2>4 DEF Kept, Approved
    <3> QED
      BY <1>0, <2>3, <2>4, <3>1 DEF Kept
  <2>5. ASSUME NEW q \in Proc, proc'[q].pc = "print" PROVE Approved(proc[q].at)'
    <3>1. q # p /\ proc'[q] = proc[q]
      BY <1>0, <2>1, <2>2, <2>5 DEF Typed, New
    <3> QED
      BY <1>0, <2>3, <2>5, <3>1 DEF Kept, Approved
  <2> QED
    BY <1>0, <2>3, <2>4, <2>5 DEF Kept, Approved
<1>6. ASSUME NEW p \in Proc, Save(p) PROVE Kept'
  <2>1. proc[p].pc = "save" /\ proc[p].cmd \in {"inbox", "watch", "mcp"}
    BY <1>a, <1>6 DEF Save, CommandFits, Reader
  <2>2. PICK r \in Local : New(p, r) /\ r.pc # "print"
    <3> DEFINE o == proc[p]
               s == CASE o.cmd = "mcp" -> [o EXCEPT !.pc = "show"]
                      [] o.cmd = "watch" -> [o EXCEPT !.pc = "fetch", !.from = o.until]
                      [] OTHER -> Idle
    <3>1. New(p, s)
      BY <1>6 DEF Save, New
    <3>2. [o EXCEPT !.pc = "show"] \in Local /\ [o EXCEPT !.pc = "fetch", !.from = o.until] \in Local
          /\ [o EXCEPT !.pc = "show"].pc = "show"
          /\ [o EXCEPT !.pc = "fetch", !.from = o.until].pc = "fetch"
      BY <1>a DEF Local
    <3>3. s \in Local /\ s.pc # "print"
      BY <2>1, <3>2, IdleFits DEF Idle
    <3> HIDE DEF s
    <3> QED
      BY <3>1, <3>3
  <2>3. Quiet
    BY <1>6 DEF Save
  <2> QED
    BY <1>1, <2>2, <2>3
<1>7. ASSUME NEW p \in Proc, NEW cmd \in Setter, NEW who \in SUBSET Peer, Decide(p, cmd, who)
      PROVE Kept'
  <2> DEFINE todo == IF cmd = "send" THEN Strangers(who) ELSE who
             r == [Idle EXCEPT !.pc = "load", !.cmd = cmd, !.todo = todo]
  <2>1. r \in Local /\ r.pc # "print"
    <3>1. todo \subseteq Peer /\ contacts \in [Peer -> Standing]
      BY <1>0 DEF Strangers, Tables
    <3> QED
      BY <3>1, IdleFits DEF Local, Idle
  <2>2. New(p, r) /\ Quiet
    BY <1>7 DEF Decide, Begin, New, file, history
  <2> QED
    BY <1>1, <2>1, <2>2
<1>8. ASSUME NEW p \in Proc, Load(p) PROVE Kept'
  <2>1. PICK a \in proc[p].todo :
            New(p, [proc[p] EXCEPT !.pc = "write", !.at = {a}, !.todo = @ \ {a}, !.snap = contacts])
    BY <1>8 DEF Load, New
  <2>2. [proc[p] EXCEPT !.pc = "write", !.at = {a}, !.todo = @ \ {a}, !.snap = contacts] \in Local
    <3>1. a \in Peer /\ proc[p].todo \ {a} \subseteq Peer /\ {a} \subseteq Peer
      BY <1>a, <2>1 DEF Local
    <3>2. contacts \in [Peer -> Standing]
      BY <1>0 DEF Tables
    <3> QED
      BY <1>a, <3>1, <3>2 DEF Local
  <2>3. [proc[p] EXCEPT !.pc = "write", !.at = {a}, !.todo = @ \ {a}, !.snap = contacts].pc # "print"
    BY <1>a DEF Local
  <2>4. Quiet
    BY <1>8 DEF Load, file, history
  <2> QED
    BY <1>1, <2>1, <2>2, <2>3, <2>4
<1>9. ASSUME NEW p \in Proc, Write(p) PROVE Kept'
  <2> DEFINE o == proc[p]
  <2>1. o \in Local /\ o.pc = "write" /\ o.cmd \in Setter
    BY <1>a, <1>9 DEF Write, CommandFits
  <2>2. /\ contacts' = [a \in Peer |->
               IF a \notin o.at THEN o.snap[a]
               ELSE IF o.cmd = "block" THEN "blocked" ELSE "approved"]
        /\ lapsed' = lapsed \cup
               {a \in Peer : contacts[a] = "approved" /\ contacts'[a] # "approved"}
        /\ UNCHANGED <<mail, cursor, commands, taken, read, waived, crossed, admitted>>
    BY <1>9 DEF Write
  <2>3. ASSUME NEW who \in SUBSET Peer, Approved(who) PROVE Approved(who)'
    BY <2>2, <2>3 DEF Approved
  <2>4. ASSUME NEW q \in Proc, proc'[q].pc = "print" PROVE Approved(proc[q].at)'
    <3>1. CASE q # p
      <4>1. proc'[q] = proc[q] /\ proc[q].at \subseteq Peer
        BY <1>0, <1>a, <1>9, <3>1 DEF Write, Goto, Typed, Local
      <4>2. Approved(proc[q].at)
        BY <1>0, <2>4, <4>1 DEF Kept
      <4>3. \A a \in proc[q].at \ lapsed' : contacts'[a] = "approved"
        BY <2>2, <4>1, <4>2 DEF Approved
      <4> QED
        BY <4>1, <4>3 DEF Approved
    <3>2. CASE q = p
      <4> DEFINE next == IF o.todo # {} THEN "load" ELSE IF o.cmd = "trust" THEN "print" ELSE "idle"
      <4>1. proc'[p] = IF next = "idle" THEN Idle ELSE [o EXCEPT !.pc = next]
        BY <1>0, <1>9, <2>1 DEF Write, Goto, Typed
      <4>2. next = "print"
        BY <2>1, <2>4, <3>2, <4>1 DEF Idle, Local
      <4>3. o.cmd = "trust" /\ proc'[p].at = o.at /\ o.at \subseteq Peer
        BY <2>1, <4>1, <4>2 DEF Local
      <4>4. \A a \in o.at : contacts'[a] = "approved"
        BY <2>2, <4>3
      <4> QED
        BY <3>2, <4>3, <4>4 DEF Approved
    <3> QED
      BY <3>1, <3>2
  <2>5. Approved(admitted)'
    <3>1. admitted \subseteq Peer /\ Approved(admitted) /\ admitted' = admitted
      BY <1>0, <2>2 DEF Tables, Kept
    <3> QED
      BY <2>2, <3>1 DEF Approved
  <2>6. \A g \in taken' : mail'[g] \in admitted' \ lapsed' => g \in read'
    BY <1>0, <2>2 DEF Kept
  <2> QED
    BY <2>4, <2>5, <2>6 DEF Kept
<1>10. ASSUME NEW p \in Proc, ShowEarlier(p) PROVE Kept'
  <2>1. New(p, Idle) /\ proc[p].pc = "print" /\ Idle.pc # "print"
    BY <1>10 DEF ShowEarlier, Goto, New, Idle
  <2>2. /\ read' = read \cup Earlier(proc[p].at) /\ admitted' = admitted \cup proc[p].at
        /\ UNCHANGED <<mail, contacts, taken, lapsed>>
    BY <1>10 DEF ShowEarlier, file
  <2>3. Approved(proc[p].at) /\ Approved(admitted)
    BY <1>0, <2>1 DEF Kept
  <2>4. ASSUME NEW q \in Proc, proc'[q].pc = "print" PROVE Approved(proc[q].at)'
    <3>1. q # p /\ proc'[q] = proc[q]
      BY <1>0, <2>1, <2>4 DEF Typed, New
    <3> QED
      BY <1>0, <2>2, <2>4, <3>1 DEF Kept, Approved
  <2>5. ASSUME NEW g \in taken', mail'[g] \in admitted' \ lapsed' PROVE g \in read'
    <3>1. CASE mail[g] \in proc[p].at
      BY <1>0, <2>2, <2>5, <3>1 DEF Earlier, Tables
    <3>2. CASE mail[g] \in admitted
      BY <1>0, <2>2, <2>5, <3>2 DEF Kept
    <3> QED
      BY <2>2, <2>5, <3>1, <3>2
  <2>6. Approved(admitted)'
    BY <2>2, <2>3 DEF Approved
  <2> QED
    BY <2>4, <2>5, <2>6 DEF Kept
<1>11. ASSUME NEW p \in Proc, Die(p) PROVE Kept'
  <2>1. New(p, Idle) /\ Idle.pc # "print" /\ Quiet
    BY <1>11 DEF Die, Goto, New, Idle, file
  <2> QED
    BY <1>1, <2>1, IdleFits
<1>12. ASSUME NEW a \in Peer, Arrive(a) PROVE Kept'
  <2>1. /\ mail' = Append(mail, a)
        /\ UNCHANGED <<contacts, proc, taken, read, admitted, lapsed>>
    BY <1>12 DEF Arrive, file, history
  <2>2. \A g \in DOMAIN mail : mail'[g] = mail[g]
    BY <1>0, <2>1, AppendProperties DEF Tables
  <2>3. taken \subseteq DOMAIN mail
    BY <1>0 DEF Tables
  <2> QED
    BY <1>0, <2>1, <2>2, <2>3 DEF Kept, Approved
<1>13. CASE UNCHANGED vars
  BY <1>0, <1>13 DEF vars, file, history, Kept, Approved
<1> QED
  BY <1>2, <1>3, <1>4, <1>5, <1>6, <1>7, <1>8, <1>9, <1>10, <1>11, <1>12, <1>13 DEF Next

\* The inductive invariant of the home.
THEOREM ClientInvariant == Spec => []IInv
<1>1. IInv /\ [Next]_vars => IInv'
  BY ReadersNext, KeptNext DEF IInv, Readers
<1> QED
  BY InitIInv, <1>1, PTL DEF Spec

-----------------------------------------------------------------------------
(* What follows.                                                           *)

\* The types; in particular the saved place never passes the end of the inbox
\* (client::inbox, save_cursor).
THEOREM ClientTyped == Spec => []TypeOK
<1>1. IInv => TypeOK
  BY DEF IInv, Typed
<1> QED
  BY ClientInvariant, <1>1, PTL

\* Readers that overlap and die pass over nothing that was not asked for
\* (Cmd::Inbox, Cmd::Watch, ecco_inbox, save_cursor).
THEOREM NothingIsPassedOver == Spec => []NothingPassedOver
<1>1. IInv => NothingPassedOver
  BY DEF IInv, Covered
<1> QED
  BY ClientInvariant, <1>1, PTL

\* Once ecco trust ran, all that sender's mail behind the saved place was
\* displayed (Cmd::Trust, partition).
THEOREM NothingIsHeldBack == Spec => []NothingHeldBack
<1>1. IInv => NothingHeldBack
  BY DEF IInv, Covered, Kept, NothingPassedOver, NothingHeldBack
<1> QED
  BY ClientInvariant, <1>1, PTL

-----------------------------------------------------------------------------
(* The saved place moves back only under an overtaken reader.              *)

\* What a reader that was not overtaken will save is not behind what is saved.
OnTime == \A p \in Proc \ crossed : Between(p) => proc[p].until >= cursor

\* Only Save moves the place.
LEMMA OnlySavesMove ==
    ASSUME [Next]_vars, cursor' # cursor
    PROVE  \E p \in Proc : Save(p)
<1>1. \A a \in Peer : ~Arrive(a)
  BY DEF Arrive, file
<1>2. \A p \in Proc :
         /\ \A cmd \in Reader \ {"peek"} : ~ReadInbox(p, cmd)
         /\ \A cmd \in {"peek", "watch"}, since \in 0 .. MaxMail : ~ReadFrom(p, cmd, since)
         /\ ~Fetch(p) /\ ~Show(p)
         /\ \A cmd \in Setter, who \in SUBSET Peer : ~Decide(p, cmd, who)
         /\ ~Load(p) /\ ~Write(p) /\ ~ShowEarlier(p) /\ ~Die(p)
  BY DEF ReadInbox, ReadFrom, Fetch, Show, Decide, Load, Write, ShowEarlier, Die, file
<1>3. ~UNCHANGED vars
  BY DEF vars, file
<1> QED
  BY <1>1, <1>2, <1>3 DEF Next

\* A reader that comes between its fetch and its save in a step has just
\* fetched; one that stays there keeps its mark.
LEMMA ComesToSave ==
    ASSUME IInv, [Next]_vars, NEW p \in Proc, Between(p)'
    PROVE  \/ Fetch(p)
           \/ Between(p) /\ proc'[p].until = proc[p].until /\ ~Save(p)
<1>1. proc \in [Proc -> Local] /\ CommandFits(proc[p])
  BY DEF IInv, Typed, Fits
<1>2. CASE proc'[p] = proc[p]
  <2>1. Between(p)
    BY <1>2 DEF Between
  <2>2. CASE Save(p)
    <3>1. /\ proc[p].pc = "save" /\ proc[p].cmd \in Reader
          /\ proc'[p] = CASE proc[p].cmd = "mcp" -> [proc[p] EXCEPT !.pc = "show"]
                         [] proc[p].cmd = "watch" -> [proc[p] EXCEPT !.pc = "fetch", !.from = proc[p].until]
                         [] OTHER -> Idle
      BY <1>1, <2>2 DEF Save, CommandFits
    <3>2. proc'[p].pc # "save"
      BY <1>1, <3>1 DEF Idle, Local
    <3> QED
      BY <1>2, <3>1, <3>2
  <2> QED
    BY <1>2, <2>1, <2>2
<1>3. CASE proc'[p] # proc[p]
  <2>1. proc'[p].pc \in {"show", "save"} /\ (proc'[p].pc = "show" => proc'[p].cmd \in {"inbox", "watch"})
    BY DEF Between
  <2>2. \A a \in Peer : ~Arrive(a)
    BY <1>3 DEF Arrive
  <2>3. ASSUME NEW q \in Proc, q # p
        PROVE  /\ \A cmd \in Reader \ {"peek"} : ~ReadInbox(q, cmd)
               /\ \A cmd \in {"peek", "watch"}, since \in 0 .. MaxMail : ~ReadFrom(q, cmd, since)
               /\ ~Fetch(q) /\ ~Show(q) /\ ~Save(q)
               /\ \A cmd \in Setter, who \in SUBSET Peer : ~Decide(q, cmd, who)
               /\ ~Load(q) /\ ~Write(q) /\ ~ShowEarlier(q) /\ ~Die(q)
    <3>1. \A r : proc' # [proc EXCEPT ![q] = r]
      BY <1>1, <1>3, <2>3
    <3>2. \A cmd \in Reader \ {"peek"} : ~ReadInbox(q, cmd)
      BY <3>1 DEF ReadInbox, Begin
    <3>3. \A cmd \in {"peek", "watch"}, since \in 0 .. MaxMail : ~ReadFrom(q, cmd, since)
      BY <3>1 DEF ReadFrom, Begin
    <3>4. \A cmd \in Setter, who \in SUBSET Peer : ~Decide(q, cmd, who)
      BY <3>1 DEF Decide, Begin
    <3>5. ~Show(q) /\ ~Save(q) /\ ~Write(q) /\ ~ShowEarlier(q) /\ ~Die(q)
      BY <3>1 DEF Show, Save, Write, ShowEarlier, Die, Goto
    <3>6. ~Fetch(q) /\ ~Load(q)
      BY <1>1, <1>3, <2>3 DEF Fetch, Load
    <3> QED
      BY <3>2, <3>3, <3>4, <3>5, <3>6
  <2>4. /\ \A cmd \in Reader \ {"peek"} : ~ReadInbox(p, cmd)
        /\ \A cmd \in {"peek", "watch"}, since \in 0 .. MaxMail : ~ReadFrom(p, cmd, since)
        /\ \A cmd \in Setter, who \in SUBSET Peer : ~Decide(p, cmd, who)
    <3>1. \A r : proc' = [proc EXCEPT ![p] = r] => r.pc \in {"show", "save"}
      BY <1>1, <2>1
    <3> DEFINE reading(cmd, from) == [Idle EXCEPT !.pc = "fetch", !.cmd = cmd, !.from = from]
               setting(cmd, todo) ==
                   [Idle EXCEPT !.pc = "load", !.cmd = cmd, !.todo = todo]
    <3>2. /\ \A cmd \in Reader : ReadInbox(p, cmd) => proc' = [proc EXCEPT ![p] = reading(cmd, cursor)]
          /\ \A cmd \in Reader, since \in 0 .. MaxMail :
                 ReadFrom(p, cmd, since) => proc' = [proc EXCEPT ![p] = reading(cmd, since)]
      BY DEF ReadInbox, ReadFrom, Begin
    <3>3. \A cmd \in Setter, who \in SUBSET Peer :
             Decide(p, cmd, who) => \E todo : proc' = [proc EXCEPT ![p] = setting(cmd, todo)]
      BY DEF Decide, Begin
    <3>4. /\ \A cmd, from : reading(cmd, from).pc = "fetch"
          /\ \A cmd, todo : setting(cmd, todo).pc = "load"
      BY DEF Idle
    <3> HIDE DEF reading, setting
    <3>5. /\ \A cmd, from : proc' # [proc EXCEPT ![p] = reading(cmd, from)]
          /\ \A cmd, todo : proc' # [proc EXCEPT ![p] = setting(cmd, todo)]
      BY <3>1, <3>4
    <3> QED
      BY <3>2, <3>3, <3>5 DEF Reader
  <2>5. ~Load(p) /\ ~ShowEarlier(p) /\ ~Die(p)
    <3>1. Load(p) => proc'[p].pc = "write"
      BY <1>1 DEF Load, Local
    <3>2. ShowEarlier(p) \/ Die(p) => proc'[p] = Idle
      BY <1>1 DEF ShowEarlier, Die, Goto
    <3> QED
      BY <2>1, <3>1, <3>2 DEF Idle
  <2>6. ~Write(p)
    <3>1. Write(p) => \/ proc'[p] = Idle
                      \/ \E pc \in {"load", "print"} : proc'[p] = [proc[p] EXCEPT !.pc = pc]
      BY <1>1 DEF Write, Goto
    <3> QED
      BY <1>1, <2>1, <3>1 DEF Idle, Local
  <2>7. ~Save(p)
    <3>1. Save(p) => \/ proc'[p] = [proc[p] EXCEPT !.pc = "show"] /\ proc[p].cmd = "mcp"
                     \/ proc'[p] = [proc[p] EXCEPT !.pc = "fetch", !.from = proc[p].until]
                     \/ proc'[p] = Idle
      BY <1>1 DEF Save
    <3>2. /\ [proc[p] EXCEPT !.pc = "show"].cmd = proc[p].cmd
          /\ [proc[p] EXCEPT !.pc = "fetch", !.from = proc[p].until].pc = "fetch"
          /\ Idle.pc = "idle"
      BY <1>1 DEF Idle, Local
    <3>3. [proc[p] EXCEPT !.pc = "show"].pc = "show"
      BY <1>1 DEF Local
    <3> QED
      BY <2>1, <3>1, <3>2, <3>3
  <2>8. Show(p) => Between(p) /\ proc'[p].until = proc[p].until
    <3> SUFFICES ASSUME Show(p) PROVE Between(p) /\ proc'[p].until = proc[p].until
      OBVIOUS
    <3>1. proc[p].pc = "show" /\ proc[p].cmd \in Reader
      BY <1>1 DEF Show, CommandFits
    <3>2. CASE proc[p].cmd \in {"inbox", "watch"}
      <4>1. \E pc \in {"save", "fetch"} : proc'[p] = [proc[p] EXCEPT !.pc = pc]
        BY <1>1, <3>2 DEF Show, Goto
      <4> QED
        BY <1>1, <3>1, <3>2, <4>1 DEF Between, Local
    <3>3. CASE proc[p].cmd \notin {"inbox", "watch"}
      <4>1. proc'[p] = Idle
        BY <1>1, <3>3 DEF Show, Goto
      <4> QED
        BY <2>1, <4>1 DEF Idle
    <3> QED
      BY <3>2, <3>3
  <2> QED
    BY <1>3, <2>2, <2>3, <2>4, <2>5, <2>6, <2>7, <2>8 DEF Next, vars
<1> QED
  BY <1>2, <1>3

\* A reader is overtaken until it saves or dies.
LEMMA CrossedStays ==
    ASSUME [Next]_vars, NEW p \in crossed, p \notin crossed'
    PROVE  Save(p) \/ Die(p)
<1>1. \A a \in Peer : ~Arrive(a)
  BY DEF Arrive, history
<1>2. \A q \in Proc :
         /\ \A cmd \in Reader \ {"peek"} : ~ReadInbox(q, cmd)
         /\ \A cmd \in {"peek", "watch"}, since \in 0 .. MaxMail : ~ReadFrom(q, cmd, since)
         /\ ~Fetch(q) /\ ~Show(q)
         /\ \A cmd \in Setter, who \in SUBSET Peer : ~Decide(q, cmd, who)
         /\ ~Load(q) /\ ~Write(q) /\ ~ShowEarlier(q)
  BY DEF ReadInbox, ReadFrom, Fetch, Show, Decide, Load, Write, ShowEarlier, history
<1>3. ~UNCHANGED vars
  BY DEF vars, history
<1>4. PICK q \in Proc : Save(q) \/ Die(q)
  BY <1>1, <1>2, <1>3 DEF Next
<1>5. q = p
  BY <1>4 DEF Save, Die
<1> QED
  BY <1>4, <1>5

LEMMA OnTimeKept ==
    IInv /\ OnTime /\ [Next]_vars
        => OnTime' /\ (cursor' < cursor => \E p \in crossed : Save(p))
<1> SUFFICES ASSUME IInv, OnTime, [Next]_vars
             PROVE  OnTime' /\ (cursor' < cursor => \E p \in crossed : Save(p))
  OBVIOUS
<1>1. /\ proc \in [Proc -> Local] /\ crossed \subseteq Proc
      /\ cursor \in Nat /\ Len(mail) \in Nat /\ cursor <= Len(mail)
      /\ \A p \in Proc : proc[p].until \in Nat /\ proc[p].from \in Nat
  BY LenProperties DEF IInv, Typed, TypeOK, Local
<1>2. ASSUME cursor' < cursor PROVE \E p \in crossed : Save(p)
  <2>1. PICK q \in Proc : Save(q)
    BY <1>1, <1>2, OnlySavesMove
  <2>2. cursor' = proc[q].until /\ Between(q)
    BY <2>1 DEF Save, Between
  <2> QED
    BY <1>1, <1>2, <2>1, <2>2 DEF OnTime
<1>3. ASSUME NEW p \in Proc, p \notin crossed', Between(p)' PROVE proc'[p].until >= cursor'
  <2>1. CASE Fetch(p)
    <3>1. proc'[p].until = Mark(proc[p].from) /\ cursor' = cursor
      BY <1>1, <2>1 DEF Fetch, Local, file
    <3> QED
      BY <1>1, <3>1 DEF Mark
  <2>2. CASE Between(p) /\ proc'[p].until = proc[p].until /\ ~Save(p)
    <3>1. \A q \in Proc : ~Save(q)
      BY <1>3, <2>2 DEF Save
    <3>2. cursor' = cursor
      BY <3>1, OnlySavesMove
    <3>3. ~Die(p)
      <4>1. Die(p) => proc'[p] = Idle
        BY <1>1 DEF Die, Goto
      <4> QED
        BY <1>3, <4>1 DEF Between, Idle
    <3>4. p \notin crossed
      BY <1>3, <2>2, <3>3, CrossedStays
    <3> QED
      BY <2>2, <3>2, <3>4 DEF OnTime
  <2> QED
    BY <1>3, <2>1, <2>2, ComesToSave
<1>4. OnTime'
  BY <1>3 DEF OnTime
<1> QED
  BY <1>2, <1>4

\* The saved place moves back only when a reader saves that was overtaken
\* between its fetch and its save (Cmd::Inbox, Cmd::Watch, ecco_inbox,
\* save_cursor).
THEOREM PlaceAdvancesUncrossed == Spec => OnlyOvertakenGoBack
<1>1. Init => OnTime
  BY DEF Init, OnTime, Between, Idle
<1>2. IInv /\ OnTime /\ [Next]_vars => [cursor' < cursor => \E p \in crossed : Save(p)]_vars
  BY OnTimeKept
<1> QED
  BY <1>1, <1>2, ClientInvariant, OnTimeKept, PTL DEF Spec, OnlyOvertakenGoBack

-----------------------------------------------------------------------------
(* A block is undone only where two commands that change contacts overlap. *)

\* It has read the contacts and is not done writing them.
Setting(p) == proc[p].pc \in {"load", "write"}

\* No two commands are there at once.
OneSetter == \A p, q \in Proc : Setting(p) /\ Setting(q) => p = q

\* What a lone command read is what the file still says, and a send still has
\* nobody in hand who is blocked.
Unblocked(who) == \A a \in who : contacts[a] # "blocked"

Fresh(p) ==
    /\ proc[p].pc = "write" => proc[p].snap = contacts
    /\ Setting(p) /\ proc[p].cmd = "send" => Unblocked(proc[p].todo)
    /\ proc[p].pc = "write" /\ proc[p].cmd = "send" => Unblocked(proc[p].at)

AllFresh == \A p \in Proc : Fresh(p)

LEMMA FreshKept == IInv /\ AllFresh /\ OneSetter /\ [Next]_vars => AllFresh'
<1> SUFFICES ASSUME IInv, AllFresh, OneSetter, [Next]_vars PROVE AllFresh'
  OBVIOUS
<1>0. /\ proc \in [Proc -> Local] /\ contacts \in [Peer -> Standing]
      /\ \A p \in Proc : CommandFits(proc[p])
  BY DEF IInv, Typed, TypeOK, Fits
\* A step that neither reads nor writes the contacts.
<1>1. ASSUME NEW p \in Proc, NEW r, New(p, r), r.pc \notin {"load", "write"},
             contacts' = contacts
      PROVE  AllFresh'
  <2> SUFFICES ASSUME NEW q \in Proc PROVE Fresh(q)'
    BY DEF AllFresh
  <2>1. CASE q = p
    <3>1. proc'[q] = r
      BY <1>0, <1>1, <2>1 DEF New
    <3> QED
      BY <1>1, <3>1 DEF Fresh, Setting
  <2>2. CASE q # p
    <3>1. proc'[q] = proc[q]
      BY <1>0, <1>1, <2>2 DEF New
    <3> QED
      BY <1>1, <3>1 DEF AllFresh, Fresh, Setting, Unblocked
  <2> QED
    BY <2>1, <2>2
<1>2. ASSUME NEW p \in Proc, NEW cmd \in Reader \ {"peek"}, ReadInbox(p, cmd) PROVE AllFresh'
  <2> DEFINE r == [Idle EXCEPT !.pc = "fetch", !.cmd = cmd, !.from = cursor]
  <2>1. r.pc = "fetch"
    BY DEF Idle
  <2>2. New(p, r) /\ contacts' = contacts
    BY <1>2 DEF ReadInbox, Begin, New, file
  <2> QED
    BY <1>1, <2>1, <2>2
<1>3. ASSUME NEW p \in Proc, NEW cmd \in {"peek", "watch"}, NEW since \in 0 .. MaxMail,
             ReadFrom(p, cmd, since)
      PROVE AllFresh'
  <2> DEFINE r == [Idle EXCEPT !.pc = "fetch", !.cmd = cmd, !.from = since]
  <2>1. r.pc = "fetch"
    BY DEF Idle
  <2>2. New(p, r) /\ contacts' = contacts
    BY <1>3 DEF ReadFrom, Begin, New, file
  <2> QED
    BY <1>1, <2>1, <2>2
<1>4. ASSUME NEW p \in Proc, Fetch(p) PROVE AllFresh'
  <2> DEFINE r == [proc[p] EXCEPT !.pc = Presents(proc[p].cmd), !.until = Mark(proc[p].from)]
  <2>1. r.pc \in {"save", "show"}
    BY <1>0 DEF Presents, Local
  <2>2. New(p, r) /\ contacts' = contacts
    BY <1>4 DEF Fetch, New, file
  <2> QED
    BY <1>1, <2>1, <2>2
<1>5. ASSUME NEW p \in Proc, Show(p) PROVE AllFresh'
  <2>1. PICK pc \in {"save", "fetch", "idle"} :
            New(p, IF pc = "idle" THEN Idle ELSE [proc[p] EXCEPT !.pc = pc])
    BY <1>5 DEF Show, Goto, New
  <2> DEFINE r == IF pc = "idle" THEN Idle ELSE [proc[p] EXCEPT !.pc = pc]
  <2>2. r.pc = pc
    BY <1>0, <2>1 DEF Local, Idle
  <2>3. contacts' = contacts
    BY <1>5 DEF Show, file
  <2> QED
    BY <1>1, <2>1, <2>2, <2>3
<1>6. ASSUME NEW p \in Proc, Save(p) PROVE AllFresh'
  <2>1. PICK r : New(p, r) /\ r.pc \in {"show", "fetch", "idle"}
    <3> DEFINE o == proc[p]
               s == CASE o.cmd = "mcp" -> [o EXCEPT !.pc = "show"]
                      [] o.cmd = "watch" -> [o EXCEPT !.pc = "fetch", !.from = o.until]
                      [] OTHER -> Idle
    <3>1. New(p, s)
      BY <1>6 DEF Save, New
    <3>2. [o EXCEPT !.pc = "show"].pc = "show" /\ Idle.pc = "idle"
          /\ [o EXCEPT !.pc = "fetch", !.from = o.until].pc = "fetch"
      BY <1>0 DEF Local, Idle
    <3>3. s.pc \in {"show", "fetch", "idle"}
      BY <3>2
    <3> HIDE DEF s
    <3> QED
      BY <3>1, <3>3
  <2>2. contacts' = contacts
    BY <1>6 DEF Save
  <2> QED
    BY <1>1, <2>1, <2>2
<1>7. ASSUME NEW p \in Proc, NEW cmd \in Setter, NEW who \in SUBSET Peer, Decide(p, cmd, who)
      PROVE AllFresh'
  <2> DEFINE todo == IF cmd = "send" THEN Strangers(who) ELSE who
             r == [Idle EXCEPT !.pc = "load", !.cmd = cmd, !.todo = todo]
  <2>1. r.pc = "load" /\ r.cmd = cmd /\ r.todo = todo
    BY DEF Idle
  <2>2. New(p, r) /\ contacts' = contacts
    BY <1>7 DEF Decide, Begin, New, file
  <2>3. cmd = "send" => Unblocked(todo)
    BY DEF Strangers, Unblocked
  <2> HIDE DEF r
  <2>4. ASSUME NEW q \in Proc PROVE Fresh(q)'
    <3>1. CASE q = p
      <4>1. proc'[q] = r
        BY <1>0, <2>2, <3>1 DEF New
      <4> QED
        BY <2>1, <2>2, <2>3, <4>1 DEF Fresh, Setting, Unblocked
    <3>2. CASE q # p
      <4>1. proc'[q] = proc[q]
        BY <1>0, <2>2, <3>2 DEF New
      <4> QED
        BY <2>2, <4>1 DEF AllFresh, Fresh, Setting, Unblocked
    <3> QED
      BY <3>1, <3>2
  <2> QED
    BY <2>4 DEF AllFresh
<1>8. ASSUME NEW p \in Proc, Load(p) PROVE AllFresh'
  <2> DEFINE o == proc[p]
  <2>1. PICK a \in o.todo :
            New(p, [o EXCEPT !.pc = "write", !.at = {a}, !.todo = @ \ {a}, !.snap = contacts])
    BY <1>8 DEF Load, New
  <2> DEFINE r == [o EXCEPT !.pc = "write", !.at = {a}, !.todo = @ \ {a}, !.snap = contacts]
  <2>2. /\ r.pc = "write" /\ r.at = {a} /\ r.todo = o.todo \ {a} /\ r.snap = contacts
        /\ r.cmd = o.cmd
    BY <1>0 DEF Local
  <2>3. contacts' = contacts /\ o.pc = "load" /\ New(p, r)
    BY <1>8, <2>1 DEF Load, file
  <2>4. o.cmd = "send" => Unblocked(o.todo)
    BY <2>3 DEF AllFresh, Fresh, Setting
  <2> HIDE DEF r
  <2>5. ASSUME NEW q \in Proc PROVE Fresh(q)'
    <3>1. CASE q = p
      <4>1. proc'[q] = r
        BY <1>0, <2>3, <3>1 DEF New
      <4> QED
        BY <2>1, <2>2, <2>3, <2>4, <4>1 DEF Fresh, Setting, Unblocked
    <3>2. CASE q # p
      <4>1. proc'[q] = proc[q]
        BY <1>0, <2>3, <3>2 DEF New
      <4> QED
        BY <2>3, <4>1 DEF AllFresh, Fresh, Setting, Unblocked
    <3> QED
      BY <3>1, <3>2
  <2> QED
    BY <2>5 DEF AllFresh
<1>9. ASSUME NEW p \in Proc, Write(p) PROVE AllFresh'
  <2> DEFINE o == proc[p]
             next == IF o.todo # {} THEN "load" ELSE IF o.cmd = "trust" THEN "print" ELSE "idle"
             r == IF next = "idle" THEN Idle ELSE [o EXCEPT !.pc = next]
  <2>1. o \in Local /\ o.pc = "write" /\ o.snap = contacts
    BY <1>0, <1>9 DEF Write, AllFresh, Fresh
  <2>2. New(p, r)
    BY <1>9 DEF Write, Goto, New
  <2>3. contacts' = [a \in Peer |->
            IF a \notin o.at THEN o.snap[a]
            ELSE IF o.cmd = "block" THEN "blocked" ELSE "approved"]
    BY <1>9 DEF Write
  <2>4. o.cmd = "send" => Unblocked(o.todo)
    BY <2>1 DEF AllFresh, Fresh, Setting
  <2>5. o.cmd = "send" => \A a \in o.todo : contacts'[a] # "blocked"
    BY <2>1, <2>3, <2>4 DEF Unblocked, Local
  <2>6. r.pc # "write" /\ (r.pc = "load" => r.cmd = o.cmd /\ r.todo = o.todo)
    BY <2>1 DEF Idle, Local
  <2>7. ASSUME NEW q \in Proc PROVE Fresh(q)'
    <3>1. CASE q = p
      <4>1. proc'[q] = r
        BY <1>0, <2>2, <3>1 DEF New
      <4> HIDE DEF r
      <4> QED
        BY <2>5, <2>6, <4>1 DEF Fresh, Setting, Unblocked
    <3>2. CASE q # p
      <4>1. proc'[q] = proc[q]
        BY <1>0, <2>2, <3>2 DEF New
      <4>2. ~Setting(q)
        BY <2>1, <3>2 DEF OneSetter, Setting
      <4> QED
        BY <4>1, <4>2 DEF Fresh, Setting
    <3> QED
      BY <3>1, <3>2
  <2> QED
    BY <2>7 DEF AllFresh
<1>10. ASSUME NEW p \in Proc, ShowEarlier(p) PROVE AllFresh'
  <2>1. New(p, Idle) /\ Idle.pc = "idle" /\ contacts' = contacts
    BY <1>10 DEF ShowEarlier, Goto, New, Idle, file
  <2> QED
    BY <1>1, <2>1
<1>11. ASSUME NEW p \in Proc, Die(p) PROVE AllFresh'
  <2>1. New(p, Idle) /\ Idle.pc = "idle" /\ contacts' = contacts
    BY <1>11 DEF Die, Goto, New, Idle, file
  <2> QED
    BY <1>1, <2>1
<1>12. ASSUME NEW a \in Peer, Arrive(a) PROVE AllFresh'
  BY <1>12 DEF Arrive, file, AllFresh, Fresh, Setting, Unblocked
<1>13. CASE UNCHANGED vars
  BY <1>13 DEF vars, file, AllFresh, Fresh, Setting, Unblocked
<1> QED
  BY <1>2, <1>3, <1>4, <1>5, <1>6, <1>7, <1>8, <1>9, <1>10, <1>11, <1>12, <1>13 DEF Next

\* Only Write changes the contacts.
LEMMA OnlyWritesChange ==
    ASSUME [Next]_vars, contacts' # contacts
    PROVE  \E p \in Proc : Write(p)
<1>1. \A a \in Peer : ~Arrive(a)
  BY DEF Arrive, file
<1>2. \A p \in Proc :
         /\ \A cmd \in Reader \ {"peek"} : ~ReadInbox(p, cmd)
         /\ \A cmd \in {"peek", "watch"}, since \in 0 .. MaxMail : ~ReadFrom(p, cmd, since)
         /\ ~Fetch(p) /\ ~Show(p) /\ ~Save(p)
         /\ \A cmd \in Setter, who \in SUBSET Peer : ~Decide(p, cmd, who)
         /\ ~Load(p) /\ ~ShowEarlier(p) /\ ~Die(p)
  BY DEF ReadInbox, ReadFrom, Fetch, Show, Save, Decide, Load, ShowEarlier, Die, file
<1>3. ~UNCHANGED vars
  BY DEF vars, file
<1> QED
  BY <1>1, <1>2, <1>3 DEF Next

\* What ends a block when commands do not overlap: a person's trust or
\* configure of that very address.
LEMMA LoneWriteKeepsBlocks ==
    ASSUME IInv, AllFresh, [Next]_vars, NEW a \in Peer,
           contacts[a] = "blocked", contacts'[a] # "blocked"
    PROVE  \E p \in Proc :
              /\ proc[p].pc = "write" /\ proc'[p] # proc[p]
              /\ a \in proc[p].at /\ proc[p].cmd \in {"trust", "configure"}
<1>1. PICK p \in Proc : Write(p)
  BY OnlyWritesChange
<1> DEFINE o == proc[p]
<1>2. o \in Local /\ o.pc = "write" /\ o.cmd \in Setter /\ proc \in [Proc -> Local]
  BY <1>1 DEF IInv, Typed, Fits, CommandFits, Write
<1>3. proc'[p].pc # "write"
  <2> DEFINE next == IF o.todo # {} THEN "load" ELSE IF o.cmd = "trust" THEN "print" ELSE "idle"
  <2>1. proc'[p] = IF next = "idle" THEN Idle ELSE [o EXCEPT !.pc = next]
    BY <1>1, <1>2 DEF Write, Goto
  <2> QED
    BY <1>2, <2>1 DEF Idle, Local
<1>4. contacts'[a] = IF a \notin o.at THEN o.snap[a]
                     ELSE IF o.cmd = "block" THEN "blocked" ELSE "approved"
  BY <1>1 DEF Write
<1>5. o.snap = contacts /\ (o.cmd = "send" => Unblocked(o.at))
  BY <1>2 DEF AllFresh, Fresh
<1>6. a \in o.at /\ o.cmd # "block"
  BY <1>4, <1>5
<1>7. o.cmd # "send"
  BY <1>5, <1>6 DEF Unblocked
<1> QED
  BY <1>2, <1>3, <1>6, <1>7 DEF Setter

\* A block is undone without a person only where two commands that change the
\* contacts overlap: as long as no two are between their read and their last
\* write, it never is (post in src/main.rs, contacts_set).
THEOREM LoneSettersKeepBlocks == Spec /\ []OneSetter => OnlyAPersonUnblocks
<1>1. Init => AllFresh
  BY DEF Init, AllFresh, Fresh, Setting, Idle
<1>2. IInv /\ AllFresh /\ [Next]_vars =>
        [\A a \in Peer : contacts[a] = "blocked" /\ contacts'[a] # "blocked" =>
           \E p \in Proc :
              /\ proc[p].pc = "write" /\ proc'[p] # proc[p]
              /\ a \in proc[p].at /\ proc[p].cmd \in {"trust", "configure"}]_vars
  BY LoneWriteKeepsBlocks
<1> QED
  BY <1>1, <1>2, ClientInvariant, FreshKept, PTL DEF Spec, OnlyAPersonUnblocks

====
