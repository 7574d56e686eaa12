---- MODULE Dispatcher ----
(***************************************************************************)
(* The dispatcher: the local loop that turns trusted requests into handler *)
(* runs and sends one result back (src/dispatcher.rs), with the outbox its *)
(* sends go through (src/outbox.rs, prepare_envelope in src/main.rs).      *)
(*                                                                         *)
(* One process (flock) works in passes: read the inbox from the cursor,    *)
(* ingest it in one transaction, then take each due job in turn.  A job is *)
(* several transactions with HTTP calls and a handler run between them,    *)
(* and the process may die between any two.  Every call to the relay may   *)
(* fail without effect, take effect and lose its answer, or time out here  *)
(* and take effect later.                                                  *)
(*                                                                         *)
(* A request is the number of its arrival, which is also the order of its  *)
(* row.  Texts are abstracted to what tells envelopes apart: a reply's     *)
(* text is the handler run that made it, a notice's is fixed.              *)
(***************************************************************************)
EXTENDS Naturals, FiniteSets

CONSTANTS
    Requests,       \* bound: requests sent to this identity
    Sealed,         \* those of them whose body is sealed to someone else
    MaxAttempts,    \* MAX_ATTEMPTS
    PassLimit,      \* LIMIT of SQLITE_READY: jobs of one pass
    MaxFaults       \* bound: process deaths and failed writes

Req == 1 .. Requests

ASSUME DispatcherAssumption ==
    /\ Requests \in Nat
    /\ Sealed \subseteq Req
    /\ MaxAttempts \in Nat \ {0}
    /\ PassLimit \in Nat \ {0}
    /\ MaxFaults \in Nat

VARIABLES
    arrived,        \* requests 1 .. arrived are in the relay's inbox
    trusted,        \* the sender is allowed and trusted (config, contacts)
    thread,         \* envelopes of this identity stored by the relay
    wire,           \* posts that timed out here and may still get there
    cursor,         \* state.cursor of dispatcher.sqlite
    jobs,           \* table jobs
    outbox,         \* table sends: the envelopes saved under their keys
    proc,           \* the process: its place in the loop and its locals
    runs,           \* history: handler runs started for each request
    told,           \* history: a failure notice was posted
    barred,         \* history: passed over, or not told, for want of trust
    stranded,       \* history: jobs whose outcome this process could not write
    faults          \* bound counter

db == <<cursor, jobs, outbox>>
noted == <<barred, stranded, faults>>
vars == <<arrived, trusted, thread, wire, db, proc, runs, told, noted>>

-----------------------------------------------------------------------------

NoResult == [run |-> 0, kind |-> "finding", follow |-> FALSE]
Result == [run : Nat, kind : {"finding", "proposal"}, follow : BOOLEAN]

\* A proposal carries no follow-up (ResultMessage::decode).
HandlerResults(run) ==
    {r \in [run : {run}, kind : {"finding", "proposal"}, follow : BOOLEAN] :
        ~(r.kind = "proposal" /\ r.follow)}

\* What one send is: `build` tells apart two envelopes with the same content.
Envelope == [re : Req, kind : {"reply", "follow", "notice", "human"},
             text : Nat, build : Nat]

Status == {"none", "received", "retrying", "running", "notify",
           "completed", "needs-human", "failed"}

Ready == {"received", "retrying", "notify"}
Settled == {"completed", "needs-human", "failed"}

NoJob == [status |-> "none", attempts |-> 0, saved |-> NoResult, due |-> TRUE]

\* until: the inbox's end as fetched; todo: the jobs selected; job: the one in
\* hand; replied and followed: what its thread showed; result: the saved one,
\* then the handler's; end: the status the job is about to be given.
Idle(pc) == [pc |-> pc, todo |-> {}, job |-> 0, until |-> 0, replied |-> FALSE,
             followed |-> FALSE, result |-> NoResult, end |-> "none"]

Pc == {"down", "poll", "ingest", "select", "next", "thread", "handler", "save",
       "reply", "follow", "notify", "mark"}

TypeOK ==
    /\ arrived \in {0} \cup Req
    /\ trusted \in BOOLEAN
    /\ thread \subseteq Envelope
    /\ wire \subseteq Envelope
    /\ cursor \in {0} \cup Req
    /\ jobs \in [Req -> [status : Status, attempts : Nat, saved : Result, due : BOOLEAN]]
    /\ outbox \subseteq Envelope
    /\ proc \in [pc : Pc, todo : SUBSET Req, job : {0} \cup Req, until : {0} \cup Req,
                 replied : BOOLEAN, followed : BOOLEAN, result : Result,
                 end : Status]
    /\ runs \in [Req -> Nat]
    /\ told \subseteq Req
    /\ barred \subseteq Req
    /\ stranded \subseteq Req
    /\ faults \in 0 .. MaxFaults

Init ==
    /\ arrived = 0 /\ cursor = 0 /\ faults = 0
    /\ trusted = TRUE
    /\ thread = {} /\ wire = {} /\ outbox = {} /\ told = {} /\ barred = {} /\ stranded = {}
    /\ jobs = [n \in Req |-> NoJob]
    /\ proc = Idle("down")
    /\ runs = [n \in Req |-> 0]

-----------------------------------------------------------------------------
(* The outbox and the relay, as one send sees them.                        *)

\* Everything this identity ever put on the wire or saved.
Made == outbox \cup thread \cup wire

Fresh(re, kind, text) ==
    [re |-> re, kind |-> kind, text |-> text,
     build |-> 1 + Cardinality({e \in Made : e.re = re /\ e.kind = kind /\ e.text = text})]

\* Mutant of Prepared: every attempt seals an envelope of its own.
PreparedAnew(re, kind, text) == {Fresh(re, kind, text)}

\* outbox::reserve: the envelope saved under this content, or a new one.
Prepared(re, kind, text) ==
    LET saved == {e \in outbox : e.re = re /\ e.kind = kind /\ e.text = text}
    IN  IF saved # {} THEN saved ELSE {Fresh(re, kind, text)}

\* client::send: the envelope is saved first; then the post is answered.
Sent(e) ==
    /\ outbox' = outbox \cup {e}
    /\ thread' = thread \cup {e}
    /\ UNCHANGED wire

\* Or it fails: it could not be prepared, was refused, was stored with its
\* answer lost, or is still on its way when the client stops waiting.
SendFailed(e) ==
    \/ UNCHANGED <<outbox, thread, wire>>
    \/ /\ outbox' = outbox \cup {e}
       /\ \/ UNCHANGED <<thread, wire>>
          \/ thread' = thread \cup {e} /\ UNCHANGED wire
          \/ wire' = wire \cup {e} /\ UNCHANGED thread

\* correlated(): a finding or proposal of ours that answers the request, a
\* person's or the failure notice as much as the handler's.
Answers(n) == {e \in thread : e.re = n /\ e.kind \in {"reply", "human", "notice"}}

FollowUps(n) == {e \in thread : e.re = n /\ e.kind = "follow"}

-----------------------------------------------------------------------------
(* The loop.                                                               *)

\* Mutants of Resumed: what was running stays so; a notice becomes a try of
\* the handler again.
NotResumed(job) == job
NoticeResumed(job) ==
    IF job.status \in {"running", "notify"}
    THEN [job EXCEPT !.status = "retrying", !.due = TRUE] ELSE job

\* What the last process left running is retried at once.
Resumed(job) ==
    IF job.status = "running"
    THEN [job EXCEPT !.status = "retrying", !.due = TRUE] ELSE job

\* Only one process per identity starts (flock).
Start ==
    /\ proc.pc = "down"
    /\ proc' = Idle("poll")
    /\ jobs' = [n \in Req |-> Resumed(jobs[n])]
    /\ stranded' = {}
    /\ UNCHANGED <<arrived, trusted, thread, wire, cursor, outbox, runs, told,
                   barred, faults>>

\* client::inbox answers; when it does not, the loop sleeps and tries again.
FetchInbox ==
    /\ proc.pc = "poll"
    /\ proc' = [Idle("ingest") EXCEPT !.until = arrived]
    /\ UNCHANGED <<arrived, trusted, thread, wire, db, runs, told, noted>>

\* Mutant of NextCursor: one further than what was read.
CursorPast(until) == until + 1

\* client::inbox: the inbox is read from here the next time.
NextCursor(until) == until

\* ingest: new jobs and the cursor in one transaction.  A request whose
\* sender is not trusted now is passed over for good.
Ingest ==
    LET new == {n \in Req : n > cursor /\ n <= proc.until}
    IN  /\ proc.pc = "ingest"
        /\ jobs' = [n \in Req |->
               IF n \in new /\ trusted /\ jobs[n].status = "none"
               THEN [NoJob EXCEPT !.status =
                        IF n \in Sealed THEN "needs-human" ELSE "received"]
               ELSE jobs[n]]
        /\ barred' = IF trusted THEN barred ELSE barred \cup new
        /\ cursor' = NextCursor(proc.until)
        /\ proc' = Idle("select")
        /\ UNCHANGED <<arrived, trusted, thread, wire, outbox, runs, told, stranded,
                       faults>>

Due == {n \in Req : jobs[n].status \in Ready /\ jobs[n].due}

\* SQLITE_READY: the oldest rows that are due.
Select ==
    /\ proc.pc = "select"
    /\ proc' = [Idle("next") EXCEPT
           !.todo = {n \in Due : Cardinality({m \in Due : m < n}) < PassLimit}]
    /\ UNCHANGED <<arrived, trusted, thread, wire, db, runs, told, noted>>

\* The pass is over.
PassDone ==
    /\ proc.pc = "next" /\ proc.todo = {}
    /\ proc' = Idle("poll")
    /\ UNCHANGED <<arrived, trusted, thread, wire, db, runs, told, noted>>

\* Mutant of Counted: the attempt is counted when it ends, so not at all
\* when it dies.
CountedAtTheEnd(job) == job.attempts

\* The attempt is on disk before anything is tried.
Counted(job) == job.attempts + 1

\* The next job of the pass, in row order.
Take ==
    /\ proc.pc = "next"
    /\ \E n \in proc.todo :
           /\ \A m \in proc.todo : n <= m
           /\ jobs' = [jobs EXCEPT ![n].status = IF @ = "notify" THEN "notify" ELSE "running",
                                   ![n].attempts = Counted(jobs[n])]
           /\ proc' = [Idle("thread") EXCEPT !.todo = proc.todo \ {n}, !.job = n,
                                             !.result = jobs[n].saved]
    /\ UNCHANGED <<arrived, trusted, thread, wire, cursor, outbox, runs, told,
                   noted>>

\* Mutant of OnError: the last failure of the handler is the end of it.
GivesUp(job) == IF job.attempts >= MaxAttempts THEN "failed" ELSE "retrying"

\* The status an error ends this attempt in.
OnError(job) ==
    IF job.status = "notify"
    THEN IF job.attempts >= 2 * MaxAttempts THEN "failed" ELSE "notify"
    ELSE IF job.attempts >= MaxAttempts THEN "notify" ELSE "retrying"

\* The process goes on to a later step of the job, or to its end.
Step(pc) == proc' = [proc EXCEPT !.pc = pc]
End(status) == proc' = [proc EXCEPT !.pc = "mark", !.end = status]

\* Both execute and notify_failure look at trust first.
NotTrusted ==
    /\ proc.pc = "thread" /\ ~trusted
    /\ IF jobs[proc.job].status = "notify"
       THEN End("failed") /\ barred' = barred \cup {proc.job}
       ELSE End(OnError(jobs[proc.job])) /\ UNCHANGED barred
    /\ UNCHANGED <<arrived, trusted, thread, wire, db, runs, told, stranded, faults>>

\* The thread cannot be read.
ThreadFailed ==
    /\ proc.pc = "thread" /\ trusted
    /\ End(OnError(jobs[proc.job]))
    /\ UNCHANGED <<arrived, trusted, thread, wire, db, runs, told, noted>>

\* The thread as it is now decides what the rest of the attempt does.
ReadThread ==
    LET n == proc.job
        replied == Answers(n) # {}
        seen == [proc EXCEPT !.replied = replied, !.followed = FollowUps(n) # {}]
    IN  /\ proc.pc = "thread" /\ trusted
        /\ proc' = IF jobs[n].status = "notify"
                   THEN IF replied THEN [seen EXCEPT !.pc = "mark", !.end = "failed"]
                        ELSE [seen EXCEPT !.pc = "notify"]
                   ELSE IF proc.result # NoResult
                   THEN [seen EXCEPT !.pc = IF replied THEN "follow" ELSE "reply"]
                   ELSE IF replied THEN [seen EXCEPT !.pc = "mark", !.end = "completed"]
                   ELSE [seen EXCEPT !.pc = "handler"]
        /\ UNCHANGED <<arrived, trusted, thread, wire, db, runs, told, noted>>

\* The handler runs to a usable result.
RunHandler ==
    LET n == proc.job
    IN  /\ proc.pc = "handler"
        /\ runs' = [runs EXCEPT ![n] = @ + 1]
        /\ \E r \in HandlerResults(runs[n] + 1) :
               proc' = [proc EXCEPT !.pc = "save", !.result = r]
        /\ UNCHANGED <<arrived, trusted, thread, wire, db, told, noted>>

\* Or fails, times out, is cancelled, prints something else, or its result
\* cannot be saved.
HandlerFailed ==
    /\ proc.pc = "handler"
    /\ runs' = [runs EXCEPT ![proc.job] = @ + 1]
    /\ End(OnError(jobs[proc.job]))
    /\ UNCHANGED <<arrived, trusted, thread, wire, db, told, noted>>

\* Mutant of Saved: the result is kept in memory only.
NotSaved(n) == jobs

Saved(n) == [jobs EXCEPT ![n].saved = proc.result]

SaveResult ==
    /\ proc.pc = "save"
    /\ jobs' = Saved(proc.job)
    /\ Step("reply")
    /\ UNCHANGED <<arrived, trusted, thread, wire, cursor, outbox, runs, told,
                   noted>>

\* Mutant of AfterReplyFailed: an error of the send goes unnoticed.
AfterReplyIgnored == Step("follow")

AfterReplyFailed == End(OnError(jobs[proc.job]))

PostReply ==
    /\ proc.pc = "reply"
    /\ \E e \in Prepared(proc.job, "reply", proc.result.run) :
           \/ Sent(e) /\ Step("follow")
           \/ SendFailed(e) /\ AfterReplyFailed
    /\ UNCHANGED <<arrived, trusted, cursor, jobs, runs, told, noted>>

AfterResult(result) ==
    End(IF result.kind = "proposal" THEN "needs-human" ELSE "completed")

\* follow_allowed is a function of the thread and the clock that both can
\* turn: it may allow the follow-up or not.
NoFollowUp ==
    /\ proc.pc = "follow"
    /\ AfterResult(proc.result)
    /\ UNCHANGED <<arrived, trusted, thread, wire, db, runs, told, noted>>

PostFollowUp ==
    /\ proc.pc = "follow" /\ proc.result.follow /\ ~proc.followed
    /\ \E e \in Prepared(proc.job, "follow", proc.result.run) :
           \/ Sent(e) /\ AfterResult(proc.result)
           \/ SendFailed(e) /\ End(OnError(jobs[proc.job]))
    /\ UNCHANGED <<arrived, trusted, cursor, jobs, runs, told, noted>>

PostNotice ==
    /\ proc.pc = "notify"
    /\ \E e \in Prepared(proc.job, "notice", 0) :
           \/ Sent(e) /\ End("failed")
           \/ SendFailed(e) /\ End(OnError(jobs[proc.job]))
    /\ told' = told \cup {proc.job}
    /\ UNCHANGED <<arrived, trusted, cursor, jobs, runs, noted>>

\* The attempt's outcome goes to disk; a repeated try waits, except that the
\* first notice follows the last failure at once.
Mark ==
    LET n == proc.job
        waits == \/ proc.end = "retrying"
                 \/ proc.end = "notify" /\ jobs[n].status = "notify"
    IN  /\ proc.pc = "mark"
        /\ jobs' = [jobs EXCEPT ![n].status = proc.end, ![n].due = ~waits]
        /\ proc' = [Idle("next") EXCEPT !.todo = proc.todo]
        /\ UNCHANGED <<arrived, trusted, thread, wire, cursor, outbox, runs, told,
                       noted>>

-----------------------------------------------------------------------------
(* Around the loop.                                                        *)

\* next_at passes.
BackoffOver(n) ==
    /\ ~jobs[n].due
    /\ jobs' = [jobs EXCEPT ![n].due = TRUE]
    /\ UNCHANGED <<arrived, trusted, thread, wire, cursor, outbox, proc, runs,
                   told, noted>>

\* The process dies: its locals are gone.
Crash ==
    /\ proc.pc # "down" /\ faults < MaxFaults
    /\ faults' = faults + 1
    /\ proc' = Idle("down")
    /\ UNCHANGED <<arrived, trusted, thread, wire, db, runs, told, barred, stranded>>

\* A read or write of dispatcher.sqlite fails: the loop starts over, and a job
\* whose outcome was to be written is left running.
WriteFailed ==
    /\ proc.pc \in {"ingest", "select", "next", "mark"} /\ faults < MaxFaults
    /\ faults' = faults + 1
    /\ proc' = Idle("poll")
    /\ stranded' = stranded \cup
           {n \in {proc.job} \cap Req : proc.pc = "mark" /\ jobs[n].status = "running"}
    /\ UNCHANGED <<arrived, trusted, thread, wire, db, runs, told, barred>>

Arrive ==
    /\ arrived + 1 \in Req
    /\ arrived' = arrived + 1
    /\ UNCHANGED <<trusted, thread, wire, db, proc, runs, told, noted>>

\* A late post gets there, or never does.
Late(e) ==
    /\ wire' = wire \ {e}
    /\ thread' = thread \cup {e} \/ UNCHANGED thread
    /\ UNCHANGED <<arrived, trusted, db, proc, runs, told, noted>>

\* The person behind the identity answers a request with ecco send.
HumanReply(n) ==
    /\ n <= arrived
    /\ thread' = thread \cup {[re |-> n, kind |-> "human", text |-> 0, build |-> 1]}
    /\ UNCHANGED <<arrived, trusted, wire, db, proc, runs, told, noted>>

\* ecco block, ecco trust.
ChangeTrust ==
    /\ trusted' = ~trusted
    /\ UNCHANGED <<arrived, thread, wire, db, proc, runs, told, noted>>

Attempt ==
    \/ NotTrusted \/ ThreadFailed \/ ReadThread
    \/ RunHandler \/ HandlerFailed \/ SaveResult
    \/ PostReply \/ NoFollowUp \/ PostFollowUp \/ PostNotice \/ Mark

Loop == Start \/ FetchInbox \/ Ingest \/ Select \/ PassDone \/ Take \/ Attempt

Next ==
    \/ Loop
    \/ \E n \in Req : BackoffOver(n) \/ HumanReply(n)
    \/ \E e \in wire : Late(e)
    \/ Crash \/ WriteFailed \/ Arrive \/ ChangeTrust

Spec == Init /\ [][Next]_vars

\* The process keeps going between its deaths (a service manager restarts
\* it, a handler has a timeout, a call to the relay has one and the inbox
\* answers in the end), and time passes.
Fairness ==
    /\ WF_vars(Loop)
    /\ \A n \in Req : WF_vars(BackoffOver(n))

FairSpec == Spec /\ Fairness

-----------------------------------------------------------------------------
(* What must hold.                                                         *)

\* However often a send is retried, lost, late or cut short by a crash, the
\* dispatcher makes at most one reply, one follow-up and one notice of a
\* request (outbox::reserve under idempotency_key, and correlated).
OneOfEach ==
    \A d, e \in thread \cup wire :
        d.re = e.re /\ d.kind = e.kind => d = e

\* What is sent is what is saved: no handler run whose result was posted is
\* forgotten, so none is run again for another answer (execute, "a saved
\* result is reused").
ReplyIsSaved ==
    \A e \in thread \cup wire :
        e.kind \in {"reply", "follow"} => e.text = jobs[e.re].saved.run

\* Once the requester was told of the failure, no handler runs for the
\* request any more, crashes or not (process_ready, "so a crash never runs the
\* handler again").
NoRunAfterNotice == [][\A n \in told : runs'[n] = runs[n]]_vars

\* A request behind the cursor is a job, or was passed over because its
\* sender was not trusted (ingest, "a crash never skips a request").
NoneSkipped ==
    \A n \in Req : n <= cursor /\ n \notin barred => jobs[n].status # "none"

\* Nor is one forgotten later on: a job marked running, which no pass selects,
\* is the one in hand, or its outcome could not be written and it waits for the
\* next start, or there is no process (SQLITE_READY, run's UPDATE).
NoneForgotten ==
    /\ NoneSkipped
    /\ \A n \in Req : jobs[n].status = "running" =>
          n \in stranded \/ n = proc.job \/ proc.pc = "down"
    /\ \A n \in stranded : jobs[n].status = "running" /\ n # proc.job

\* A job that ended has an answer in its request's thread, the handler's own,
\* the saved result or the notice that it failed, unless the sender lost its
\* trust, the notice was itself tried until its attempts ran out, or the
\* request is sealed to someone else and waits for a person.
EndsAreAnswered ==
    \A n \in Req : jobs[n].status \in {"completed", "needs-human", "failed"} =>
        \/ Answers(n) # {}
        \/ jobs[n].status # "failed" /\ n \in Sealed
        \/ jobs[n].status = "failed" /\ (n \in barred \/ jobs[n].attempts >= 2 * MaxAttempts)

\* The handler runs at most MaxAttempts times, and once more for each death
\* of the process or outcome that could not be written (README, "retries up to
\* four times").
RunsAreBounded == \A n \in Req : runs[n] <= MaxAttempts + faults

\* Nothing is retried for ever: with the tries of its notice a request is
\* attempted at most twice as often, and once more for each such fault
\* (process_ready, the attempts of both statuses in one count).
EffortIsBounded ==
    /\ RunsAreBounded
    /\ \A n \in Req : jobs[n].attempts <= 2 * MaxAttempts + faults

\* Again and again, everything that has arrived is settled, was passed over
\* for want of trust, or is stranded until the process is started again (run
\* resumes what was running only then).
EverySettles ==
    []<>(\A n \in Req : n <= arrived =>
            n \in barred \/ jobs[n].status \in Settled \/ n \in stranded)

\* How far a request has come, for who sees no process.
Stage(status) ==
    IF status \in {"received", "retrying", "running"} THEN "open"
    ELSE IF status \in {"completed", "needs-human"} THEN "done" ELSE status

\* The dispatcher implements Service.tla: whatever is retried, lost, late, or
\* cut short by a death of the process, each request goes from one stage to
\* the next in its order, a handler run costs a counted attempt, one result
\* is chosen, and one envelope of a kind is made for it.
ServiceOf == INSTANCE Service WITH
    Request <- Req,
    state <- [n \in Req |-> Stage(jobs[n].status)],
    attempts <- [n \in Req |-> jobs[n].attempts],
    tries <- runs,
    chosen <- [n \in Req |-> jobs[n].saved.run],
    made <- outbox,
    there <- thread,
    read <- cursor

ImplementsService == ServiceOf!ServiceSpec

\* README, "the requester gets one correlated finding that says the request
\* was not handled, so a request never fails in silence".
NeverSilent ==
    \A n \in Req : jobs[n].status = "failed" /\ n \notin barred => Answers(n) # {}

====
