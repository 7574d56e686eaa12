---- MODULE Relay ----
(***************************************************************************)
(* The relay's message path: the sixteen worker threads that take posts    *)
(* and reads, the sweeper, the operator's takedown, and the SQLite store   *)
(* they share (src/relay.rs, src/store.rs), with the operator's sweep from  *)
(* another process on the same file (src/main.rs).                         *)
(*                                                                         *)
(* Every method of Store takes Mutex<Connection> once and runs one         *)
(* transaction, so a method is one atomic step.  A handler calls several   *)
(* methods, so a handler is several steps: a worker posting an envelope    *)
(* stamps the time, reads the sender's profile, asks for access to the     *)
(* thread and appends, and the other threads run in between.               *)
(*                                                                         *)
(* Time is in days: retention windows are whole days, so nothing finer is  *)
(* told apart.  The relay modelled has --signed reads and no --allow-roots *)
(* (allow_root returns Ok at once); a worker that rejects a post for its   *)
(* signature or its rate leaves no state and is not a step.                *)
(***************************************************************************)
EXTENDS Naturals, FiniteSets

CONSTANTS
    Addr,           \* addresses on this relay, senders and readers
    Reader,         \* the addresses whose clients read
    About,          \* anchors
    Env,            \* the signed envelopes in circulation, one per id
    EnvFrom,        \* [Env -> Addr]
    EnvTo,          \* [Env -> SUBSET Addr], one to sixteen recipients
    EnvAbout,       \* [Env -> About]
    EnvKey,         \* [Env -> Key], the key that signed it
    Key,            \* signing keys
    NoKey,          \* an address with no profile
    Worker,         \* HTTP worker threads
    NoEnv,          \* an idle worker's envelope
    NoEntry,        \* a sender with no row in the retention table
    RetentionTables,\* the per-sender tables a limits snapshot may carry
    DefaultDays,    \* the default windows in use, 0 keeps for ever
    SweepBatch,     \* rows per sweep transaction
    MaxGseq,        \* bound: envelopes ever stored
    MaxClock        \* bound: days

ASSUME EnvAssumption ==
    /\ EnvFrom \in [Env -> Addr]
    /\ EnvTo \in [Env -> SUBSET Addr]
    /\ EnvAbout \in [Env -> About]
    /\ EnvKey \in [Env -> Key]
    /\ NoEnv \notin Env
    /\ Reader \subseteq Addr

ASSUME BoundAssumption ==
    /\ SweepBatch \in Nat \ {0}
    /\ MaxGseq \in Nat
    /\ MaxClock \in Nat
    /\ DefaultDays \subseteq Nat
    /\ NoEntry \notin Nat
    /\ RetentionTables \subseteq [Addr -> Nat \cup {NoEntry}]

VARIABLES
    clock,          \* envelope::now(), in days
    rows,           \* table msgs
    msgTo,          \* table msg_to
    lastTseq,       \* table threads; 0: no row, the thread never started
    lastGseq,       \* the AUTOINCREMENT counter of msgs
    participants,   \* table participants
    profile,        \* table profiles: the key each address's profile authorises
    retention,      \* table retention
    worker,         \* the locals of each worker inside post_msgs
    sweep,          \* the locals of each call of Store::sweep
    reader,         \* each address's long poll of one thread
    cursor,         \* the place each address has read its inbox to
    issued,         \* history: every receipt made
    delivered       \* history: the gseqs each address's inbox reads returned

store == <<rows, msgTo, lastTseq, lastGseq, participants>>
vars == <<clock, store, profile, retention, worker, sweep, reader, cursor,
          issued, delivered>>

Time == 0 .. MaxClock
Row == [gseq : Nat \ {0}, tseq : Nat \ {0}, id : Env, at : Time]

PostLocals == [pc : {"idle", "profile", "access", "append"},
               env : Env \cup {NoEnv}, now : Time, started : BOOLEAN]

IdleWorker == [pc |-> "idle", env |-> NoEnv, now |-> 0, started |-> FALSE]

\* Who calls Store::sweep: the relay's retention thread, and the operator's
\* ecco admin sweep, a process of its own.
Sweeper == {"relay", "admin"}

\* windows is auxiliary: the retention table when the sweep began.
SweepLocals == [pc : {"idle", "batch"}, now : Time, days : Nat, bound : Nat,
                windows : [Addr -> Nat \cup {NoEntry}]]

NoWindows == [a \in Addr |-> NoEntry]
IdleSweep == [pc |-> "idle", now |-> 0, days |-> 0, bound |-> 0,
              windows |-> NoWindows]
IdleReader(about) == [pc |-> "idle", about |-> about, started |-> FALSE]

TypeOK ==
    /\ clock \in Time
    /\ rows \subseteq Row
    /\ msgTo \subseteq ((Nat \ {0}) \X Addr)
    /\ lastTseq \in [About -> Nat]
    /\ lastGseq \in Nat
    /\ participants \in [About -> SUBSET Addr]
    /\ profile \in [Addr -> Key \cup {NoKey}]
    /\ retention \in [Addr -> Nat \cup {NoEntry}]
    /\ worker \in [Worker -> PostLocals]
    /\ \A w \in Worker : worker[w].pc # "idle" => worker[w].env \in Env
    /\ sweep \in [Sweeper -> SweepLocals]
    /\ reader \in [Reader -> [pc : {"idle", "poll"}, about : About,
                          started : BOOLEAN]]
    /\ cursor \in [Reader -> Nat]
    /\ issued \subseteq Row
    /\ delivered \in [Reader -> SUBSET (Nat \ {0})]

Init ==
    /\ clock = 0
    /\ rows = {} /\ msgTo = {} /\ issued = {}
    /\ lastTseq = [b \in About |-> 0]
    /\ lastGseq = 0
    /\ participants = [b \in About |-> {}]
    /\ profile \in [Addr -> Key]
    /\ retention = NoWindows
    /\ worker = [w \in Worker |-> IdleWorker]
    /\ sweep = [s \in Sweeper |-> IdleSweep]
    /\ \E b \in About : reader = [a \in Reader |-> IdleReader(b)]
    /\ cursor = [a \in Reader |-> 0]
    /\ delivered = [a \in Reader |-> {}]

-----------------------------------------------------------------------------
(* Queries of the store.                                                   *)

ThreadRows(about) == {m \in rows : EnvAbout[m.id] = about}

\* Mutant of Access: a thread with no mail left counts as empty.
AccessByMail(about, addr) ==
    IF ThreadRows(about) = {} THEN "Empty"
    ELSE IF addr \in participants[about] THEN "Participant"
    ELSE "NotParticipant"

\* Store::access: a thread that was ever started is not empty, whatever is
\* left of it.
Access(about, addr) ==
    IF lastTseq[about] = 0 THEN "Empty"
    ELSE IF addr \in participants[about] THEN "Participant"
    ELSE "NotParticipant"

InboxRows(addr, since) ==
    {m \in rows : <<m.gseq, addr>> \in msgTo /\ m.gseq > since}

\* The window a table gives an address: its own entry, else the default.
Window(table, addr, days) == IF table[addr] = NoEntry THEN days ELSE table[addr]

\* The exact per-sender test of SQLITE_BATCH, strictly past the window.
Expired(m, table, now, days) ==
    LET w == Window(table, EnvFrom[m.id], days)
    IN  w > 0 /\ m.at + w < now

\* Mutant of PositiveWindows: the bound forgets the per-sender windows.
DefaultWindowOnly(table, days) == {d \in {days} : d > 0}

\* The windows min_window takes the smallest of; 0 never expires anything.
PositiveWindows(table, days) ==
    {d \in ({days} \cup {table[a] : a \in Addr}) \ {NoEntry} : d > 0}

\* Mutant of SatSub: a young relay's bound wraps below zero.
PlainSub(a, b) == a - b

\* u64::saturating_sub.
SatSub(a, b) == IF a >= b THEN a - b ELSE 0

-----------------------------------------------------------------------------
(* POST /msgs: one worker takes an envelope through post_msgs.             *)

Busy == {w \in Worker : worker[w].pc # "idle"}

\* The signature is good and the rate allows it: `now` is read here, and
\* stays what it is however long the worker then waits for the store.
\* started is auxiliary: whether the thread existed when the post arrived.
ReceivePost(w, e) ==
    /\ worker[w].pc = "idle"
    /\ lastGseq + Cardinality(Busy) < MaxGseq
    /\ worker' = [worker EXCEPT ![w] =
           [pc |-> "profile", env |-> e, now |-> clock,
            started |-> lastTseq[EnvAbout[e]] # 0]]
    /\ UNCHANGED <<clock, store, profile, retention, sweep, reader, cursor,
                   issued, delivered>>

\* The profile's keys must include the envelope's; else 400 or 403.
CheckSender(w) ==
    /\ worker[w].pc = "profile"
    /\ worker' = [worker EXCEPT ![w] =
           IF profile[EnvFrom[@.env]] = EnvKey[@.env]
           THEN [@ EXCEPT !.pc = "access"] ELSE IdleWorker]
    /\ UNCHANGED <<clock, store, profile, retention, sweep, reader, cursor,
                   issued, delivered>>

\* Closed threads: a sender outside an existing thread gets 403.
CheckAccess(w) ==
    /\ worker[w].pc = "access"
    /\ worker' = [worker EXCEPT ![w] =
           IF Access(EnvAbout[@.env], EnvFrom[@.env]) = "NotParticipant"
           THEN IdleWorker ELSE [@ EXCEPT !.pc = "append"]]
    /\ UNCHANGED <<clock, store, profile, retention, sweep, reader, cursor,
                   issued, delivered>>

\* Mutant of NextGseq: a rowid without AUTOINCREMENT comes back when the
\* newest rows are deleted.
RowidGseq ==
    IF rows = {} THEN 1
    ELSE 1 + (CHOOSE g \in {m.gseq : m \in rows} : \A m \in rows : m.gseq <= g)

\* msgs.gseq INTEGER PRIMARY KEY AUTOINCREMENT.
NextGseq == lastGseq + 1

\* Mutant of NextTseq: numbers a thread by the messages it has left.
CountedTseq(about) == Cardinality(ThreadRows(about)) + 1

\* The upsert of threads.last_tseq.
NextTseq(about) == lastTseq[about] + 1

\* Store::append of an envelope that is not stored: the next number of the
\* thread and of the relay, its recipients, and the thread's participants.
Insert(e, now) ==
    LET about == EnvAbout[e]
        row == [gseq |-> NextGseq, tseq |-> NextTseq(about), id |-> e, at |-> now]
    IN  /\ rows' = rows \cup {row}
        /\ msgTo' = msgTo \cup ({row.gseq} \X EnvTo[e])
        /\ lastTseq' = [lastTseq EXCEPT ![about] = row.tseq]
        /\ lastGseq' = row.gseq
        /\ participants' = [participants EXCEPT ![about] =
               @ \cup {EnvFrom[e]} \cup EnvTo[e]]
        /\ issued' = issued \cup {row}

\* A resubmission inserts nothing and its receipt is the stored row's.
Resubmit(e) ==
    /\ \E m \in rows : m.id = e /\ issued' = issued \cup {m}
    /\ UNCHANGED store

\* Mutant of AppendPost: no look for a stored copy in the transaction.
AppendUnchecked(w) ==
    /\ worker[w].pc = "append"
    /\ Insert(worker[w].env, worker[w].now)
    /\ worker' = [worker EXCEPT ![w] = IdleWorker]
    /\ UNCHANGED <<clock, profile, retention, sweep, reader, cursor, delivered>>

\* Store::append and the receipt post_msgs signs over its answer.
AppendPost(w) ==
    /\ worker[w].pc = "append"
    /\ LET e == worker[w].env
       IN  \/ Resubmit(e)
           \/ /\ \A m \in rows : m.id # e
              /\ Insert(e, worker[w].now)
    /\ worker' = [worker EXCEPT ![w] = IdleWorker]
    /\ UNCHANGED <<clock, profile, retention, sweep, reader, cursor, delivered>>

-----------------------------------------------------------------------------
(* Expiry and takedown: they delete from msgs and msg_to, nothing else.    *)

\* Mutant of Delete: only those who still have mail in a thread stay in it.
DeleteMembersToo(gone) ==
    LET left == rows \ gone
        gseqs == {m.gseq : m \in gone}
    IN  /\ rows' = left
        /\ msgTo' = {t \in msgTo : t[1] \notin gseqs}
        /\ participants' = [b \in About |->
               UNION {{EnvFrom[m.id]} \cup EnvTo[m.id] :
                         m \in {x \in left : EnvAbout[x.id] = b}}]
        /\ UNCHANGED <<lastTseq, lastGseq>>

Delete(gone) ==
    LET gseqs == {m.gseq : m \in gone}
    IN  /\ rows' = rows \ gone
        /\ msgTo' = {t \in msgTo : t[1] \notin gseqs}
        /\ UNCHANGED <<lastTseq, lastGseq, participants>>

\* set_retention, from a snapshot.  The relay's thread does this and then
\* sweeps, one after the other; the operator's sweep may be between batches.
RefreshRetention(table) ==
    /\ sweep["relay"].pc = "idle"
    /\ retention' = table
    /\ UNCHANGED <<clock, store, profile, worker, sweep, reader, cursor,
                   issued, delivered>>

\* sweep: the smallest window in play bounds the scan; none, nothing to do.
StartSweep(s, days) ==
    /\ sweep[s].pc = "idle"
    /\ \E window \in PositiveWindows(retention, days) :
           /\ \A d \in PositiveWindows(retention, days) : window <= d
           /\ sweep' = [sweep EXCEPT ![s] =
                  [pc |-> "batch", now |-> clock, days |-> days,
                   bound |-> SatSub(clock, window), windows |-> retention]]
    /\ UNCHANGED <<clock, store, profile, retention, worker, reader, cursor,
                   issued, delivered>>

\* SQLITE_BATCH: the oldest of the expired rows older than the bound.  The
\* bound is the one computed at the start, the table the one of this moment.
BatchRows(s) ==
    LET w == sweep[s]
        old == {m \in rows : m.at < w.bound /\ Expired(m, retention, w.now, w.days)}
    IN  {m \in old : Cardinality({x \in old : x.gseq < m.gseq}) < SweepBatch}

\* One transaction; a batch that is not full was the last.
DeleteBatch(s) ==
    /\ sweep[s].pc = "batch"
    /\ Delete(BatchRows(s))
    /\ sweep' = IF Cardinality(BatchRows(s)) < SweepBatch
                THEN [sweep EXCEPT ![s] = IdleSweep] ELSE sweep
    /\ UNCHANGED <<clock, profile, retention, worker, reader, cursor,
                   issued, delivered>>

\* A batch's transaction fails, or the operator's command is killed: the
\* batches before it stay done, and what is left waits for the next sweep.
AbandonSweep(s) ==
    /\ sweep[s].pc = "batch"
    /\ sweep' = [sweep EXCEPT ![s] = IdleSweep]
    /\ UNCHANGED <<clock, store, profile, retention, worker, reader, cursor,
                   issued, delivered>>

\* ecco admin remove <id>, from another process on the same file.
Remove(e) ==
    /\ \E m \in rows : m.id = e
    /\ Delete({m \in rows : m.id = e})
    /\ UNCHANGED <<clock, profile, retention, worker, sweep, reader, cursor,
                   issued, delivered>>

-----------------------------------------------------------------------------
(* Signed reads: the reader's profile and its access are checked when the  *)
(* request arrives, then the worker polls.                                 *)

AskThread(a, about) ==
    /\ reader[a].pc = "idle"
    /\ profile[a] # NoKey
    /\ Access(about, a) # "NotParticipant"
    /\ reader' = [reader EXCEPT ![a] =
           [pc |-> "poll", about |-> about, started |-> lastTseq[about] # 0]]
    /\ UNCHANGED <<clock, store, profile, retention, worker, sweep, cursor,
                   issued, delivered>>

\* The poll answers as soon as it finds something (`since` is the caller's
\* choice and only shrinks the answer), or with nothing at its deadline.
AnswerThread(a) ==
    /\ reader[a].pc = "poll"
    /\ reader' = [reader EXCEPT ![a] = IdleReader(@.about)]
    /\ UNCHANGED <<clock, store, profile, retention, worker, sweep, cursor,
                   issued, delivered>>

\* GET /inbox from the saved cursor; the client saves the highest gseq.
ReadInbox(a) ==
    LET found == InboxRows(a, cursor[a])
    IN  /\ profile[a] # NoKey
        /\ found # {}
        /\ delivered' = [delivered EXCEPT ![a] = @ \cup {m.gseq : m \in found}]
        /\ \E last \in found :
               /\ \A m \in found : m.gseq <= last.gseq
               /\ cursor' = [cursor EXCEPT ![a] = last.gseq]
        /\ UNCHANGED <<clock, store, profile, retention, worker, sweep, reader,
                       issued>>

-----------------------------------------------------------------------------
(* The rest of the world.                                                  *)

\* A key rotation, a deactivation or a transfer of the name replaces the
\* profile in one transaction.
PutProfile(a, k) ==
    /\ profile[a] # k
    /\ profile' = [profile EXCEPT ![a] = k]
    /\ UNCHANGED <<clock, store, retention, worker, sweep, reader, cursor,
                   issued, delivered>>

\* The process dies and starts again: every handler's locals are gone, the
\* store is as its last commit left it.  Clients, their cursors and the
\* operator's sweep go on.
Restart ==
    /\ worker' = [w \in Worker |-> IdleWorker]
    /\ sweep' = [sweep EXCEPT !["relay"] = IdleSweep]
    /\ reader' = [a \in Reader |-> IdleReader(reader[a].about)]
    /\ UNCHANGED <<clock, store, profile, retention, cursor, issued, delivered>>

Tick ==
    /\ clock < MaxClock
    /\ clock' = clock + 1
    /\ UNCHANGED <<store, profile, retention, worker, sweep, reader, cursor,
                   issued, delivered>>

Next ==
    \/ \E w \in Worker, e \in Env : ReceivePost(w, e)
    \/ \E w \in Worker : CheckSender(w) \/ CheckAccess(w) \/ AppendPost(w)
    \/ \E table \in RetentionTables : RefreshRetention(table)
    \/ \E s \in Sweeper, days \in DefaultDays : StartSweep(s, days)
    \/ \E s \in Sweeper : DeleteBatch(s) \/ AbandonSweep(s)
    \/ \E e \in Env : Remove(e)
    \/ \E a \in Reader, about \in About : AskThread(a, about)
    \/ \E a \in Reader : AnswerThread(a) \/ ReadInbox(a)
    \/ \E a \in Addr, k \in Key \cup {NoKey} : PutProfile(a, k)
    \/ Restart
    \/ Tick

Spec == Init /\ [][Next]_vars

-----------------------------------------------------------------------------
(* What must hold.                                                         *)

\* Of one thread or of the whole relay, a number stands for one receipt, and
\* the two orders agree: over everything ever given, so across sweeps,
\* takedowns, resubmissions and restarts ("thread sequence values are not
\* reused", Store::append).
ReceiptOrder ==
    \A r, s \in issued :
        /\ r.gseq = s.gseq => r = s
        /\ EnvAbout[r.id] = EnvAbout[s.id] =>
               /\ r.tseq = s.tseq => r = s
               /\ r.gseq < s.gseq <=> r.tseq < s.tseq

\* Whoever sent or was sent a message of a thread stays its participant when
\* the message is gone (Store::sweep and Store::remove leave the table).
ParticipantsOutliveMail ==
    \A r \in issued :
        {EnvFrom[r.id]} \cup EnvTo[r.id] \subseteq participants[EnvAbout[r.id]]

\* An inbox read from the saved cursor never passes over a stored message:
\* gseq order is commit order and no gseq comes back (Store::inbox, the
\* cursor of ecco inbox).
InboxNeverSkips ==
    \A m \in rows, a \in Reader :
        <<m.gseq, a>> \in msgTo /\ m.gseq <= cursor[a] => m.gseq \in delivered[a]

\* A post to a thread that existed when the post arrived is stored only if
\* its sender was a participant, whatever the other workers, the sweeper and
\* a takedown did meanwhile (post_msgs, "closed threads").
ClosedToLaterPosts ==
    [][\A w \in Worker :
           /\ worker[w].pc = "append" /\ worker[w].started
           /\ \E m \in rows' \ rows : m.id = worker[w].env
           /\ worker'[w].pc = "idle"
           => EnvFrom[worker[w].env] \in participants[EnvAbout[worker[w].env]]]_vars

\* A read that found something shows it to a participant, or to one who
\* asked before the thread ever started (authorize_thread, evaluated at
\* request time, then poll).
PrivateThreads ==
    [][\A a \in Reader :
           LET r == reader[a]
           IN  AnswerThread(a) /\ ThreadRows(r.about) # {} /\ r.started
               => a \in participants[r.about]]_vars

\* Of the rows that its windows had expired when it began, a sweep that ends
\* leaves only those that a table installed since then keeps, and the relay's
\* own sweep leaves none: the bound it scans under and its batches together
\* miss no row, whatever posts, takedowns, other sweeps and snapshots land
\* between the batches (Store::sweep, retention_pass, sweep_once).
SweepIsComplete ==
    [][\A s \in Sweeper : DeleteBatch(s) /\ sweep'[s].pc = "idle" =>
           \A m \in rows' : LET w == sweep[s] IN
               Expired(m, w.windows, w.now, w.days) =>
                   s # "relay" /\ ~Expired(m, retention, w.now, w.days)]_vars

\* Every number given is at or below its counter, and a started thread's
\* counter is the number of a receipt.
CountersBound ==
    /\ \A r \in issued : r.gseq <= lastGseq /\ r.tseq <= lastTseq[EnvAbout[r.id]]
    /\ \A b \in About : lastTseq[b] # 0 =>
           \E r \in issued : EnvAbout[r.id] = b /\ r.tseq = lastTseq[b]

\* What is stored was receipted, once per envelope.
StoredOnce ==
    /\ rows \subseteq issued
    /\ \A m, n \in rows : m.id = n.id => m = n

\* A worker about to append to a thread that existed when its post arrived
\* has seen its sender among the participants.
AccessHeld ==
    \A w \in Worker : worker[w].pc # "idle" /\ worker[w].started =>
        LET e == worker[w].env
        IN  /\ lastTseq[EnvAbout[e]] # 0
            /\ worker[w].pc = "append" => EnvFrom[e] \in participants[EnvAbout[e]]

\* The same for a reader's poll.
PollHeld ==
    \A a \in Reader : reader[a].pc = "poll" /\ reader[a].started =>
        a \in participants[reader[a].about]

\* The inductive invariant the proofs of RelayProofs rest on.
IInv ==
    /\ TypeOK
    /\ CountersBound
    /\ StoredOnce
    /\ ReceiptOrder
    /\ ParticipantsOutliveMail
    /\ \A a \in Reader : cursor[a] <= lastGseq
    /\ InboxNeverSkips
    /\ AccessHeld
    /\ PollHeld

\* The relay's counters keep the promise of Ledger: numbers are given out
\* against everything ever given, whatever is still stored.
LedgerOf == INSTANCE Ledger WITH given <- issued, kept <- rows
ImplementsLedger == LedgerOf!LedgerSpec

\* README section 5, "Only a participant can post to an existing anchor":
\* the sender of every message stored in an existing thread is at that
\* moment a participant of it.
ClosedThreads ==
    [][\A m \in rows' \ rows :
           lastTseq[EnvAbout[m.id]] # 0
           => EnvFrom[m.id] \in participants[EnvAbout[m.id]]]_vars

====
