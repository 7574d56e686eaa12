---- MODULE DispatcherProofs ----
(***************************************************************************)
(* What the dispatcher promises, for any number of requests, attempts,     *)
(* deaths and failed writes, and passes of any length.                     *)
(***************************************************************************)
EXTENDS Dispatcher, FiniteSetTheorems, TLAPS

\* Where the process has a job in hand, and where it works on an answer.
Working == {"thread", "handler", "save", "reply", "follow", "notify", "mark"}
Answering == {"handler", "save", "reply", "follow"}

InHand(n) == proc.pc \in Working /\ proc.job = n

\* The status a job is about to be given follows from the one it has, and a
\* job that ends has its answer, or a reason for having none.
EndFits ==
    LET job == jobs[proc.job]
    IN  /\ job.status = "notify" => proc.end \in {"notify", "failed"}
        /\ job.status = "running" => proc.end \in {"retrying", "notify", "completed", "needs-human"}
        /\ proc.end = "retrying" => job.attempts < MaxAttempts
        /\ proc.end \in Settled =>
              \/ Answers(proc.job) # {}
              \/ proc.end = "failed" /\ (proc.job \in barred \/ job.attempts >= 2 * MaxAttempts)

\* The job in hand is as its place in the attempt says.
Hands ==
    /\ proc.pc \in Working =>
          /\ proc.job \in Req \ proc.todo
          /\ jobs[proc.job].status \in {"running", "notify"}
    /\ \A n \in proc.todo : jobs[n].status \in Ready
    /\ proc.pc \in Answering => jobs[proc.job].status = "running"
    /\ proc.pc = "notify" => jobs[proc.job].status = "notify"
    /\ proc.pc = "thread" => proc.result = jobs[proc.job].saved
    /\ proc.pc \in {"handler", "save"} => jobs[proc.job].saved = NoResult
    /\ proc.pc \in {"reply", "follow"} => proc.result = jobs[proc.job].saved
    /\ proc.pc \in {"save", "reply", "follow"} => proc.result.run >= 1
    /\ proc.pc = "follow" => Answers(proc.job) # {}
    /\ proc.pc = "mark" => EndFits

\* One envelope is saved for one content, the content is the saved result's,
\* and what is on the way or in the thread was saved, or is a person's.
Posted ==
    /\ \A d, e \in outbox : d.re = e.re /\ d.kind = e.kind /\ d.text = e.text => d = e
    /\ \A e \in outbox :
          /\ e.kind # "human"
          /\ e.kind = "notice" => e.text = 0
          /\ e.kind \in {"reply", "follow"} => e.text >= 1 /\ e.text = jobs[e.re].saved.run
    /\ \A e \in (thread \cup wire) \ outbox : e.kind = "human" /\ e.text = 0 /\ e.build = 1

\* A handler runs once for an attempt that is on disk, and a job is left
\* running without its process only by a fault.
Attempted ==
    \A n \in Req :
        /\ jobs[n].status = "none" => jobs[n] = NoJob
        /\ runs[n] <= jobs[n].attempts
        /\ InHand(n) /\ proc.pc \in {"thread", "handler"} /\ jobs[n].status = "running"
              => runs[n] < jobs[n].attempts
        /\ jobs[n].status \in {"none", "received", "retrying"}
              => jobs[n].attempts < MaxAttempts + faults
        /\ jobs[n].status = "running" =>
              /\ jobs[n].attempts <= MaxAttempts + faults
              /\ ~InHand(n) => jobs[n].attempts < MaxAttempts + faults

SavedWasRun == \A n \in Req : jobs[n].saved = NoResult \/ jobs[n].saved.run >= 1

ToldIsOver == \A n \in told : jobs[n].status \in {"notify", "failed"}

Finite == IsFiniteSet(outbox) /\ IsFiniteSet(thread) /\ IsFiniteSet(wire)

\* The inductive invariant.
IInv ==
    /\ TypeOK /\ Finite
    /\ Hands /\ Posted /\ Attempted /\ SavedWasRun /\ ToldIsOver
    /\ RunsAreBounded /\ NoneSkipped /\ EndsAreAnswered

-----------------------------------------------------------------------------

Job == [status : Status, attempts : Nat, saved : Result, due : BOOLEAN]
Place == [pc : Pc, todo : SUBSET Req, job : {0} \cup Req, until : {0} \cup Req,
          replied : BOOLEAN, followed : BOOLEAN, result : Result, end : Status]

LEMMA Constants ==
    /\ Req \subseteq Nat /\ 0 \notin Req /\ \A n \in Req : n >= 1
    /\ MaxAttempts \in Nat /\ MaxAttempts >= 1 /\ MaxFaults \in Nat
    /\ NoResult \in Result /\ NoResult.run = 0 /\ NoJob \in Job
BY DispatcherAssumption DEF Req, NoResult, Result, NoJob, Job, Status

LEMMA IdlePlace ==
    ASSUME NEW pc \in Pc
    PROVE  /\ Idle(pc) \in Place
           /\ Idle(pc).pc = pc /\ Idle(pc).todo = {}
BY Constants DEF Idle, Place, Status

LEMMA InitIInv == Init => IInv
<1> SUFFICES ASSUME Init PROVE IInv
  OBVIOUS
<1> USE Constants DEF Init
<1>1. proc \in Place /\ proc.pc = "down" /\ proc.todo = {}
  BY IdlePlace DEF Pc
<1>2. NoJob.status = "none" /\ NoJob.attempts = 0 /\ NoJob.saved = NoResult
  BY DEF NoJob
<1>3. TypeOK
  BY <1>1 DEF TypeOK, Place, Job
<1>4. Finite
  BY FS_EmptySet DEF Finite
<1>5. Hands /\ Posted
  BY <1>1 DEF Hands, Posted, Working, Answering
<1>6. Attempted
  BY <1>2 DEF Attempted, InHand
<1>7. SavedWasRun /\ ToldIsOver /\ RunsAreBounded /\ NoneSkipped /\ EndsAreAnswered
  BY <1>2 DEF SavedWasRun, ToldIsOver, RunsAreBounded, NoneSkipped, EndsAreAnswered
<1> QED
  BY <1>3, <1>4, <1>5, <1>6, <1>7 DEF IInv

\* Facts every step uses.
LEMMA Facts ==
    ASSUME IInv
    PROVE  /\ proc \in Place /\ jobs \in [Req -> Job]
           /\ runs \in [Req -> Nat] /\ faults \in Nat
           /\ proc.pc \in Working => proc.job \in Req
           /\ proc.pc = "thread" => proc.job \in Req
BY DEF IInv, TypeOK, Place, Job, Hands, Working

-----------------------------------------------------------------------------
(* Sends.                                                                  *)

LEMMA PreparedIsEnvelope ==
    ASSUME IInv, NEW n \in Req, NEW kind \in {"reply", "follow", "notice"}, NEW text \in Nat,
           NEW e \in Prepared(n, kind, text)
    PROVE  /\ e \in Envelope /\ e.re = n /\ e.kind = kind /\ e.text = text
           /\ \A d \in outbox : d.re = n /\ d.kind = kind /\ d.text = text => d = e
<1> DEFINE saved == {d \in outbox : d.re = n /\ d.kind = kind /\ d.text = text}
<1>1. CASE saved # {}
  <2>1. e \in saved
    BY <1>1 DEF Prepared
  <2>2. e \in outbox /\ e.re = n /\ e.kind = kind /\ e.text = text
    BY <2>1
  <2>3. \A d \in outbox : d.re = n /\ d.kind = kind /\ d.text = text => d = e
    BY <2>2 DEF IInv, Posted
  <2> QED
    BY <2>2, <2>3 DEF IInv, TypeOK
<1>2. CASE saved = {}
  <2> DEFINE same == {d \in Made : d.re = n /\ d.kind = kind /\ d.text = text}
  <2>1. e = [re |-> n, kind |-> kind, text |-> text, build |-> 1 + Cardinality(same)]
    BY <1>2 DEF Prepared, Fresh
  <2>2. Cardinality(same) \in Nat
    <3>1. IsFiniteSet(Made)
      BY FS_Union DEF Made, IInv, Finite
    <3>2. same \subseteq Made
      OBVIOUS
    <3> HIDE DEF same
    <3> QED
      BY <3>1, <3>2, FS_Subset, FS_CardinalityType
  <2>3. 1 + Cardinality(same) \in Nat
    <3> HIDE DEF same
    <3> QED
      BY <2>2
  <2> HIDE DEF same
  <2>4. e \in Envelope /\ e.re = n /\ e.kind = kind /\ e.text = text
    BY <2>1, <2>3 DEF Envelope
  <2> QED
    BY <1>2, <2>4
<1> QED
  BY <1>1, <1>2

\* A send keeps the order in the outbox and between it and what is posted.
LEMMA SendKeeps ==
    ASSUME IInv, NEW n \in Req, NEW kind \in {"reply", "follow", "notice"}, NEW text \in Nat,
           NEW e \in Prepared(n, kind, text), Sent(e) \/ SendFailed(e), jobs' = jobs,
           kind = "notice" => text = 0,
           kind \in {"reply", "follow"} => text >= 1 /\ text = jobs[n].saved.run
    PROVE  /\ Posted' /\ Finite'
           /\ outbox' \subseteq Envelope /\ thread' \subseteq Envelope /\ wire' \subseteq Envelope
           /\ thread \subseteq thread'
<1>1. /\ e \in Envelope /\ e.re = n /\ e.kind = kind /\ e.text = text
      /\ \A d \in outbox : d.re = n /\ d.kind = kind /\ d.text = text => d = e
  BY PreparedIsEnvelope
<1>2. /\ outbox' = outbox \/ outbox' = outbox \cup {e}
      /\ thread' \in {thread, thread \cup {e}} /\ wire' \in {wire, wire \cup {e}}
      /\ (thread' = thread /\ wire' = wire) \/ e \in outbox'
  BY DEF Sent, SendFailed
<1>3. Finite'
  <2>1. /\ IsFiniteSet(outbox) /\ IsFiniteSet(thread) /\ IsFiniteSet(wire)
        /\ IsFiniteSet(outbox \cup {e}) /\ IsFiniteSet(thread \cup {e}) /\ IsFiniteSet(wire \cup {e})
    BY FS_AddElement DEF IInv, Finite
  <2>2. thread' = thread \/ thread' = thread \cup {e}
    BY <1>2
  <2>3. wire' = wire \/ wire' = wire \cup {e}
    BY <1>2
  <2>4. IsFiniteSet(outbox') /\ IsFiniteSet(thread') /\ IsFiniteSet(wire')
    BY <1>2, <2>1, <2>2, <2>3, Zenon
  <2> QED
    BY <2>4 DEF Finite
<1>4. Posted'
  <2>1. outbox' \subseteq outbox \cup {e} /\ outbox \subseteq outbox'
    BY <1>2
  <2>2. \A c, d \in outbox' : c.re = d.re /\ c.kind = d.kind /\ c.text = d.text => c = d
    BY <1>1, <2>1 DEF IInv, Posted
  <2>3. \A d \in outbox' :
          /\ d.kind # "human"
          /\ d.kind = "notice" => d.text = 0
          /\ d.kind \in {"reply", "follow"} => d.text >= 1 /\ d.text = jobs'[d.re].saved.run
    BY <1>1, <2>1 DEF IInv, Posted
  <2>4. \A d \in (thread' \cup wire') \ outbox' : d.kind = "human" /\ d.text = 0 /\ d.build = 1
    <3>1. \A d \in thread' \cup wire' : d \in thread \cup wire \/ d \in outbox'
      BY <1>2
    <3> QED
      BY <2>1, <3>1 DEF IInv, Posted
  <2> QED
    BY <2>2, <2>3, <2>4 DEF Posted
<1> QED
  BY <1>1, <1>2, <1>3, <1>4 DEF IInv, TypeOK

\* A step that leaves the jobs, the runs and the cursor alone.
LEMMA JobsStay ==
    ASSUME IInv, UNCHANGED <<jobs, runs, cursor, faults>>,
           barred \subseteq barred', thread \subseteq thread',
           TypeOK', Finite', Posted', Hands', Attempted', ToldIsOver'
    PROVE  IInv'
<1>1. \A n \in Req : Answers(n) \subseteq Answers(n)'
  BY DEF Answers
<1>2. SavedWasRun' /\ RunsAreBounded' /\ NoneSkipped'
  BY DEF IInv, SavedWasRun, RunsAreBounded, NoneSkipped
<1>3. EndsAreAnswered'
  BY <1>1 DEF IInv, EndsAreAnswered
<1> QED
  BY <1>2, <1>3 DEF IInv

\* Only the process moves.
LEMMA ProcessMoves ==
    ASSUME IInv, UNCHANGED <<thread, wire, outbox, jobs, runs, cursor, faults, told>>,
           barred \subseteq barred', TypeOK', Hands', Attempted'
    PROVE  IInv'
<1>1. Finite' /\ Posted' /\ ToldIsOver'
  BY DEF IInv, Finite, Posted, ToldIsOver
<1> QED
  BY <1>1, JobsStay

\* The parts of TypeOK but the place.
LEMMA PlaceTyped ==
    ASSUME TypeOK, proc' \in Place,
           UNCHANGED <<thread, wire, outbox, jobs, runs, cursor, faults, told>>,
           arrived' \in {0} \cup Req, trusted' \in BOOLEAN,
           barred' \subseteq Req, stranded' \subseteq Req
    PROVE  TypeOK'
BY DEF TypeOK, Place

\* A process with no job in hand.
LEMMA HandsFree ==
    ASSUME IInv, UNCHANGED <<jobs, runs, faults>>, proc' \in Place, proc.pc \notin Working,
           proc'.pc \notin Working, \A n \in proc'.todo : jobs[n].status \in Ready
    PROVE  Hands' /\ Attempted'
<1>1. Hands'
  BY DEF Hands, Working, Answering
<1>2. Attempted'
  BY DEF IInv, Attempted, InHand, Working
<1> QED
  BY <1>1, <1>2

\* With no job in hand, a running one lost its process to a fault.
LEMMA NobodyInHand ==
    ASSUME jobs' \in [Req -> Job], faults' \in Nat, proc'.pc \notin Working,
           \A n \in Req :
               /\ jobs'[n].status = "none" => jobs'[n] = NoJob
               /\ runs'[n] <= jobs'[n].attempts
               /\ jobs'[n].status \in {"none", "received", "retrying", "running"}
                     => jobs'[n].attempts < MaxAttempts + faults'
    PROVE  Attempted'
<1>1. \A n \in Req : ~InHand(n)' /\ jobs'[n].attempts \in Nat
  BY DEF InHand, Job
<1> QED
  BY <1>1, Constants DEF Attempted

\* The process keeps its job, and no handler is about to run that was not.
LEMMA SameHand ==
    ASSUME IInv, UNCHANGED <<jobs, runs, faults>>, proc' \in Place,
           proc.pc \in Working, proc'.pc \in Working, proc'.job = proc.job, proc'.todo = proc.todo,
           proc'.pc \in {"thread", "handler"} => proc.pc = "thread"
    PROVE  Attempted'
BY DEF IInv, Attempted, InHand

-----------------------------------------------------------------------------
(* The loop, action by action.                                             *)

LEMMA KeptFetchInbox == ASSUME IInv, FetchInbox PROVE IInv'
<1> USE Constants
<1>1. /\ proc' = [Idle("ingest") EXCEPT !.until = arrived] /\ proc.pc = "poll"
      /\ UNCHANGED <<arrived, trusted, thread, wire, cursor, jobs, outbox, runs, told, barred, stranded, faults>>
  BY DEF FetchInbox, db, noted
<1>2. arrived \in {0} \cup Req
  BY DEF IInv, TypeOK
<1>3. proc' \in Place /\ proc'.pc = "ingest" /\ proc'.todo = {}
  BY <1>1, <1>2, IdlePlace DEF Pc, Place
<1>4. TypeOK'
  BY <1>1, <1>3, PlaceTyped DEF IInv, TypeOK
<1>5. Hands' /\ Attempted'
  BY <1>1, <1>3, HandsFree DEF Working
<1> QED
  BY <1>1, <1>4, <1>5, ProcessMoves

LEMMA KeptSelect == ASSUME IInv, Select PROVE IInv'
<1> USE Constants
<1> DEFINE due == {n \in Due : Cardinality({m \in Due : m < n}) < PassLimit}
<1>a. due \subseteq Req /\ \A n \in due : jobs[n].status \in Ready
  BY DEF Due
<1>1. /\ proc' = [Idle("next") EXCEPT !.todo = due] /\ proc.pc = "select"
      /\ UNCHANGED <<arrived, trusted, thread, wire, cursor, jobs, outbox, runs, told, barred, stranded, faults>>
  BY DEF Select, db, noted
<1> HIDE DEF due
<1>2. proc' \in Place /\ proc'.pc = "next" /\ proc'.todo = due
  BY <1>a, <1>1, IdlePlace DEF Pc, Place
<1>3. TypeOK'
  BY <1>1, <1>2, PlaceTyped DEF IInv, TypeOK
<1>4. Hands' /\ Attempted'
  BY <1>a, <1>1, <1>2, HandsFree DEF Working
<1> QED
  BY <1>1, <1>3, <1>4, ProcessMoves

LEMMA KeptPassDone == ASSUME IInv, PassDone PROVE IInv'
<1> USE Constants
<1>1. /\ proc' = Idle("poll") /\ proc.pc = "next"
      /\ UNCHANGED <<arrived, trusted, thread, wire, cursor, jobs, outbox, runs, told, barred, stranded, faults>>
  BY DEF PassDone, db, noted
<1>2. proc' \in Place /\ proc'.pc = "poll" /\ proc'.todo = {}
  BY <1>1, IdlePlace DEF Pc
<1>3. TypeOK'
  BY <1>1, <1>2, PlaceTyped DEF IInv, TypeOK
<1>4. Hands' /\ Attempted'
  BY <1>1, <1>2, HandsFree DEF Working
<1> QED
  BY <1>1, <1>3, <1>4, ProcessMoves

LEMMA KeptStart == ASSUME IInv, Start PROVE IInv'
<1> USE Constants
<1>1. /\ proc' = Idle("poll") /\ proc.pc = "down"
      /\ jobs' = [n \in Req |-> Resumed(jobs[n])] /\ stranded' = {}
      /\ UNCHANGED <<arrived, trusted, thread, wire, cursor, outbox, runs, told, barred, faults>>
  BY DEF Start
<1>2. proc' \in Place /\ proc'.pc = "poll" /\ proc'.todo = {}
  BY <1>1, IdlePlace DEF Pc
<1>3. ASSUME NEW n \in Req
      PROVE  /\ jobs'[n] \in Job
             /\ jobs'[n].attempts = jobs[n].attempts /\ jobs'[n].saved = jobs[n].saved
             /\ jobs[n].status = "running" => jobs'[n].status = "retrying"
             /\ jobs[n].status # "running" => jobs'[n].status = jobs[n].status
  <2>1. jobs[n] \in Job /\ jobs'[n] = Resumed(jobs[n])
    BY <1>1, Facts
  <2> QED
    BY <2>1 DEF Resumed, Job, Status
<1>4. jobs' \in [Req -> Job]
  BY <1>1, <1>3
<1>5. TypeOK'
  BY <1>1, <1>2, <1>4 DEF IInv, TypeOK, Place, Job
<1>6. Hands' /\ Finite'
  BY <1>1, <1>2 DEF IInv, Finite, Hands, Working, Answering
<1>7. Posted'
  <2>1. \A e \in outbox : e.re \in Req
    BY DEF IInv, TypeOK, Envelope
  <2> QED
    BY <1>1, <1>3, <2>1 DEF IInv, Posted
<1>8. Attempted'
  <2>1. ASSUME NEW n \in Req
        PROVE  /\ jobs'[n].status = "none" => jobs'[n] = NoJob
               /\ runs'[n] <= jobs'[n].attempts
               /\ jobs'[n].status \in {"none", "received", "retrying", "running"}
                     => jobs'[n].attempts < MaxAttempts + faults'
    <3>1. ~InHand(n)
      BY <1>1 DEF InHand, Working
    <3>2. jobs'[n].status = "none" => jobs'[n] = jobs[n]
      BY <1>1, <1>3 DEF Resumed
    <3> QED
      BY <1>1, <1>3, <3>1, <3>2 DEF IInv, Attempted
  <2> QED
    BY <1>1, <1>2, <1>4, <2>1, Facts, NobodyInHand DEF Working
<1>9. SavedWasRun' /\ ToldIsOver' /\ RunsAreBounded' /\ NoneSkipped'
  <2>1. told \subseteq Req
    BY DEF IInv, TypeOK
  <2> QED
    BY <1>1, <1>3, <2>1 DEF IInv, SavedWasRun, ToldIsOver, RunsAreBounded, NoneSkipped
<1>10. EndsAreAnswered'
  BY <1>1, <1>3 DEF IInv, EndsAreAnswered, Answers
<1> QED
  BY <1>5, <1>6, <1>7, <1>8, <1>9, <1>10 DEF IInv

LEMMA KeptIngest == ASSUME IInv, Ingest PROVE IInv'
<1> USE Constants
<1> DEFINE new == {n \in Req : n > cursor /\ n <= proc.until}
<1>1. /\ proc.pc = "ingest"
      /\ jobs' = [n \in Req |->
               IF n \in new /\ trusted /\ jobs[n].status = "none"
               THEN [NoJob EXCEPT !.status =
                        IF n \in Sealed THEN "needs-human" ELSE "received"]
               ELSE jobs[n]]
      /\ barred' = (IF trusted THEN barred ELSE barred \cup new)
      /\ cursor' = proc.until
      /\ proc' = Idle("select")
      /\ UNCHANGED <<arrived, trusted, thread, wire, outbox, runs, told, stranded, faults>>
  BY DEF Ingest, NextCursor
<1>2. proc' \in Place /\ proc'.pc = "select" /\ proc'.todo = {}
  BY <1>1, IdlePlace DEF Pc
<1>3. ASSUME NEW n \in Req
      PROVE  /\ jobs'[n] \in Job
             /\ \/ jobs'[n] = jobs[n]
                \/ /\ jobs[n].status = "none"
                   /\ jobs'[n].attempts = 0 /\ jobs'[n].saved = NoResult
                   /\ \/ jobs'[n].status = "received"
                      \/ jobs'[n].status = "needs-human" /\ n \in Sealed
             /\ n \in new /\ trusted => jobs'[n].status # "none"
  <2>1. jobs[n] \in Job
    BY Facts
  <2>2. CASE n \in new /\ trusted /\ jobs[n].status = "none"
    <3>1. PICK st \in {"received", "needs-human"} :
              /\ jobs'[n] = [NoJob EXCEPT !.status = st]
              /\ st = "needs-human" => n \in Sealed
      BY <1>1, <2>2
    <3> HIDE DEF new
    <3>2. jobs'[n] \in Job /\ jobs'[n].status = st /\ jobs'[n].attempts = 0 /\ jobs'[n].saved = NoResult
      BY <3>1 DEF NoJob, Job, Status
    <3> QED
      BY <2>2, <3>1, <3>2
  <2>3. CASE ~(n \in new /\ trusted /\ jobs[n].status = "none")
    BY <1>1, <2>1, <2>3
  <2> QED
    BY <2>2, <2>3
<1>4. jobs' \in [Req -> Job]
  BY <1>1, <1>3
<1>5. proc.until \in {0} \cup Req /\ cursor \in {0} \cup Req
  BY Facts DEF Place, IInv, TypeOK
<1>6. TypeOK'
  BY <1>1, <1>2, <1>4, <1>5 DEF IInv, TypeOK, Place, Job
<1>7. Hands' /\ Finite'
  BY <1>1, <1>2 DEF IInv, Finite, Hands, Working, Answering
<1>8. \A n \in Req : jobs[n].status = "none" => jobs[n].attempts = 0 /\ jobs[n].saved = NoResult
  BY DEF IInv, Attempted, NoJob
<1>9. \A n \in Req : jobs'[n].attempts = jobs[n].attempts /\ jobs'[n].saved = jobs[n].saved
  BY <1>3, <1>8
<1>10. Posted'
  <2>1. \A e \in outbox : e.re \in Req
    BY DEF IInv, TypeOK, Envelope
  <2> QED
    BY <1>1, <1>9, <2>1 DEF IInv, Posted
<1>11. Attempted'
  <2>1. ASSUME NEW n \in Req
        PROVE  /\ jobs'[n].status = "none" => jobs'[n] = NoJob
               /\ runs'[n] <= jobs'[n].attempts
               /\ jobs'[n].status \in {"none", "received", "retrying", "running"}
                     => jobs'[n].attempts < MaxAttempts + faults'
    <3>1. ~InHand(n)
      BY <1>1 DEF InHand, Working
    <3>2. jobs'[n].status = "none" => jobs'[n] = jobs[n]
      BY <1>3
    <3> QED
      BY <1>1, <1>3, <1>9, <3>1, <3>2 DEF IInv, Attempted
  <2> QED
    BY <1>1, <1>2, <1>4, <2>1, Facts, NobodyInHand DEF Working
<1>12. SavedWasRun' /\ RunsAreBounded'
  BY <1>1, <1>9 DEF IInv, SavedWasRun, RunsAreBounded
<1>13. ToldIsOver'
  <2>1. told \subseteq Req
    BY DEF IInv, TypeOK
  <2> QED
    BY <1>1, <1>3, <2>1 DEF IInv, ToldIsOver
<1>14. NoneSkipped'
  <2> SUFFICES ASSUME NEW n \in Req, n <= proc.until, n \notin barred' PROVE jobs'[n].status # "none"
    BY <1>1 DEF NoneSkipped
  <2>1. CASE n <= cursor
    <3>1. jobs[n].status # "none"
      BY <1>1, <2>1 DEF IInv, NoneSkipped
    <3> QED
      BY <1>3, <3>1
  <2>2. CASE n > cursor
    BY <1>1, <1>3, <2>2
  <2> QED
    BY <1>5, <2>1, <2>2
<1>15. EndsAreAnswered'
  BY <1>1, <1>3 DEF IInv, EndsAreAnswered, Answers
<1> QED
  BY <1>6, <1>7, <1>10, <1>11, <1>12, <1>13, <1>14, <1>15 DEF IInv

-----------------------------------------------------------------------------
(* An attempt, step by step.                                               *)

\* What an error ends an attempt in.
LEMMA OnErrorFits ==
    ASSUME IInv, proc.pc \in Working
    PROVE  LET job == jobs[proc.job]
               end == OnError(job)
           IN  /\ end \in Status
               /\ job.status = "notify" => end \in {"notify", "failed"}
               /\ job.status = "running" => end \in {"retrying", "notify"}
               /\ end = "retrying" => job.attempts < MaxAttempts
               /\ end \in Settled => (end = "failed" /\ job.attempts >= 2 * MaxAttempts)
<1>1. jobs[proc.job] \in Job /\ jobs[proc.job].status \in {"running", "notify"}
  BY Facts DEF IInv, Hands
<1> QED
  BY <1>1, Constants DEF OnError, Job, Status, Settled

\* The attempt ends.
LEMMA EndStep ==
    ASSUME IInv, proc.pc \in Working, NEW end \in Status, End(end),
           UNCHANGED <<jobs, runs, faults>>,
           jobs[proc.job].status = "notify" => end \in {"notify", "failed"},
           jobs[proc.job].status = "running"
               => end \in {"retrying", "notify", "completed", "needs-human"},
           end = "retrying" => jobs[proc.job].attempts < MaxAttempts,
           end \in Settled =>
               \/ Answers(proc.job)' # {}
               \/ (end = "failed" /\ (proc.job \in barred' \/ jobs[proc.job].attempts >= 2 * MaxAttempts))
    PROVE  proc' \in Place /\ Hands' /\ Attempted'
<1>1. proc \in Place /\ proc' = [proc EXCEPT !.pc = "mark", !.end = end]
  BY Facts DEF End
<1>2. /\ proc' \in Place /\ proc'.pc = "mark" /\ proc'.end = end
      /\ proc'.job = proc.job /\ proc'.todo = proc.todo
  BY <1>1 DEF Place, Pc
<1>5. EndFits'
  BY <1>2 DEF EndFits
<1>6. Hands'
  BY <1>2, <1>5 DEF IInv, Hands, Working, Answering
<1>7. Attempted'
  BY <1>2, SameHand DEF Working
<1> QED
  BY <1>2, <1>6, <1>7

LEMMA KeptNotTrusted == ASSUME IInv, NotTrusted PROVE IInv'
<1> USE Constants
<1>1. /\ proc.pc = "thread" /\ proc.pc \in Working
      /\ UNCHANGED <<arrived, trusted, thread, wire, cursor, jobs, outbox, runs, told, stranded, faults>>
  BY DEF NotTrusted, db, Working
<1>2. barred \subseteq barred' /\ barred' \subseteq Req
  BY <1>1, Facts DEF NotTrusted, IInv, TypeOK
<1>3. proc' \in Place /\ Hands' /\ Attempted'
  <2>1. CASE jobs[proc.job].status = "notify"
    <3>1. End("failed") /\ proc.job \in barred'
      BY <2>1 DEF NotTrusted
    <3>2. "failed" \in Status
      BY DEF Status
    <3> QED
      BY <1>1, <2>1, <3>1, <3>2, EndStep
  <2>2. CASE jobs[proc.job].status # "notify"
    <3>1. End(OnError(jobs[proc.job]))
      BY <2>2 DEF NotTrusted
    <3> QED
      BY <1>1, <3>1, OnErrorFits, EndStep
  <2> QED
    BY <2>1, <2>2
<1>4. TypeOK'
  BY <1>1, <1>2, <1>3, PlaceTyped DEF IInv, TypeOK
<1> QED
  BY <1>1, <1>2, <1>3, <1>4, ProcessMoves

LEMMA KeptThreadFailed == ASSUME IInv, ThreadFailed PROVE IInv'
<1>1. /\ proc.pc = "thread" /\ proc.pc \in Working /\ End(OnError(jobs[proc.job]))
      /\ UNCHANGED <<arrived, trusted, thread, wire, cursor, jobs, outbox, runs, told, barred, stranded, faults>>
  BY DEF ThreadFailed, db, noted, Working
<1>2. proc' \in Place /\ Hands' /\ Attempted'
  BY <1>1, OnErrorFits, EndStep
<1>3. TypeOK'
  BY <1>1, <1>2, PlaceTyped DEF IInv, TypeOK
<1> QED
  BY <1>1, <1>2, <1>3, ProcessMoves

LEMMA KeptReadThread == ASSUME IInv, ReadThread PROVE IInv'
<1> USE Constants
<1> DEFINE n == proc.job
           replied == Answers(n) # {}
           followed == FollowUps(n) # {}
<1>1. /\ proc.pc = "thread" /\ proc.pc \in Working /\ proc \in Place
      /\ UNCHANGED <<arrived, trusted, thread, wire, cursor, jobs, outbox, runs, told, barred, stranded, faults>>
  BY Facts DEF ReadThread, db, noted, Working
<1> DEFINE seen == [proc EXCEPT !.replied = replied, !.followed = followed]
<1>2. /\ seen \in Place /\ seen.job = n /\ seen.todo = proc.todo /\ seen.result = proc.result
  <2>1. replied \in BOOLEAN /\ followed \in BOOLEAN
    OBVIOUS
  <2> HIDE DEF replied, followed
  <2> QED
    BY <1>1, <2>1 DEF Place
<1>a. proc' = IF jobs[n].status = "notify"
              THEN IF replied THEN [seen EXCEPT !.pc = "mark", !.end = "failed"]
                   ELSE [seen EXCEPT !.pc = "notify"]
              ELSE IF proc.result # NoResult
              THEN [seen EXCEPT !.pc = IF replied THEN "follow" ELSE "reply"]
              ELSE IF replied THEN [seen EXCEPT !.pc = "mark", !.end = "completed"]
              ELSE [seen EXCEPT !.pc = "handler"]
  BY DEF ReadThread
<1>b. PICK pc \in {"mark", "notify", "follow", "reply", "handler"} :
        /\ proc' \in Place /\ proc'.pc = pc /\ proc'.result = proc.result
        /\ proc'.job = proc.job /\ proc'.todo = proc.todo
        /\ pc = "mark" =>
              (replied /\ proc'.end = IF jobs[n].status = "notify" THEN "failed" ELSE "completed")
        /\ pc = "notify" => jobs[n].status = "notify"
        /\ pc \in {"follow", "reply"} => (jobs[n].status # "notify" /\ proc.result # NoResult)
        /\ pc = "follow" => replied
        /\ pc = "handler" => (jobs[n].status # "notify" /\ proc.result = NoResult)
  <2> HIDE DEF seen, replied, followed
  <2>1. CASE jobs[n].status = "notify"
    <3>1. CASE replied
      <4>1. proc' = [seen EXCEPT !.pc = "mark", !.end = "failed"]
        BY <1>a, <2>1, <3>1
      <4>2. proc' \in Place /\ proc'.pc = "mark" /\ proc'.end = "failed"
            /\ proc'.result = seen.result /\ proc'.job = seen.job /\ proc'.todo = seen.todo
        BY <1>2, <4>1 DEF Place, Pc, Status
      <4> QED
        BY <1>2, <2>1, <3>1, <4>2
    <3>2. CASE ~replied
      <4>1. proc' = [seen EXCEPT !.pc = "notify"]
        BY <1>a, <2>1, <3>2
      <4>2. proc' \in Place /\ proc'.pc = "notify"
            /\ proc'.result = seen.result /\ proc'.job = seen.job /\ proc'.todo = seen.todo
        BY <1>2, <4>1 DEF Place, Pc
      <4> QED
        BY <1>2, <2>1, <4>2
    <3> QED
      BY <3>1, <3>2
  <2>2. CASE jobs[n].status # "notify" /\ proc.result # NoResult
    <3>1. PICK pc \in {"follow", "reply"} :
              proc' = [seen EXCEPT !.pc = pc] /\ (pc = "follow" => replied)
      BY <1>a, <2>2
    <3>2. proc' \in Place /\ proc'.pc = pc
          /\ proc'.result = seen.result /\ proc'.job = seen.job /\ proc'.todo = seen.todo
      BY <1>2, <3>1 DEF Place, Pc
    <3> QED
      BY <1>2, <2>2, <3>1, <3>2
  <2>3. CASE jobs[n].status # "notify" /\ proc.result = NoResult
    <3>1. CASE replied
      <4>1. proc' = [seen EXCEPT !.pc = "mark", !.end = "completed"]
        BY <1>a, <2>3, <3>1
      <4>2. proc' \in Place /\ proc'.pc = "mark" /\ proc'.end = "completed"
            /\ proc'.result = seen.result /\ proc'.job = seen.job /\ proc'.todo = seen.todo
        BY <1>2, <4>1 DEF Place, Pc, Status
      <4> QED
        BY <1>2, <2>3, <3>1, <4>2
    <3>2. CASE ~replied
      <4>1. proc' = [seen EXCEPT !.pc = "handler"]
        BY <1>a, <2>3, <3>2
      <4>2. proc' \in Place /\ proc'.pc = "handler"
            /\ proc'.result = seen.result /\ proc'.job = seen.job /\ proc'.todo = seen.todo
        BY <1>2, <4>1 DEF Place, Pc
      <4> QED
        BY <1>2, <2>3, <4>2
    <3> QED
      BY <3>1, <3>2
  <2> QED
    BY <2>1, <2>2, <2>3
<1>3. /\ proc' \in Place /\ proc'.pc = pc /\ proc'.result = proc.result
      /\ proc'.job = proc.job /\ proc'.todo = proc.todo
  BY <1>b
<1>4. Answers(proc.job)' = Answers(n)
  BY <1>1, <1>3 DEF Answers
<1>5. jobs[n].status \in {"running", "notify"} /\ proc.result = jobs[n].saved
      /\ (jobs[n].saved = NoResult \/ jobs[n].saved.run >= 1)
  BY <1>1, Facts DEF IInv, Hands, SavedWasRun
<1>6. pc = "mark" => EndFits'
  BY <1>1, <1>b, <1>4, <1>5 DEF EndFits, Settled
<1>7. Hands'
  BY <1>1, <1>b, <1>4, <1>5, <1>6 DEF IInv, Hands, Working, Answering
<1>8. Attempted'
  BY <1>1, <1>3, SameHand DEF Working
<1>9. TypeOK'
  BY <1>1, <1>3, PlaceTyped DEF IInv, TypeOK
<1> QED
  BY <1>1, <1>7, <1>8, <1>9, ProcessMoves

\* A handler runs, well or not.
LEMMA RunCounts ==
    ASSUME IInv, proc.pc = "handler", UNCHANGED <<jobs, faults>>,
           runs' = [runs EXCEPT ![proc.job] = @ + 1],
           proc' \in Place, proc'.pc \in {"save", "mark"}, proc'.job = proc.job
    PROVE  Attempted' /\ RunsAreBounded' /\ runs' \in [Req -> Nat]
<1> USE Constants
<1>1. proc.job \in Req /\ jobs[proc.job].status = "running" /\ runs \in [Req -> Nat] /\ faults \in Nat
      /\ jobs \in [Req -> Job]
  BY Facts DEF IInv, Hands, Working, Answering
<1>2. runs[proc.job] < jobs[proc.job].attempts /\ jobs[proc.job].attempts <= MaxAttempts + faults
  BY <1>1 DEF IInv, Attempted, InHand, Working
<1>3. /\ runs'[proc.job] = runs[proc.job] + 1 /\ runs' \in [Req -> Nat]
      /\ \A n \in Req \ {proc.job} : runs'[n] = runs[n]
  <2>1. \A j \in Req : runs[j] + 1 \in Nat
    BY <1>1
  <2>2. \A j \in Req : runs' = [runs EXCEPT ![j] = @ + 1] =>
          /\ runs'[j] = runs[j] + 1 /\ runs' \in [Req -> Nat]
          /\ \A n \in Req \ {j} : runs'[n] = runs[n]
    BY <1>1, <2>1
  <2> QED
    BY <1>1, <2>2
<1>4. jobs[proc.job].attempts \in Nat /\ runs[proc.job] \in Nat
  BY <1>1 DEF Job
<1>5. runs'[proc.job] <= jobs[proc.job].attempts /\ runs'[proc.job] <= MaxAttempts + faults
  BY <1>1, <1>2, <1>3, <1>4
<1>6. RunsAreBounded'
  BY <1>3, <1>5 DEF IInv, RunsAreBounded
<1>7. Attempted'
  <2>1. \A n \in Req : InHand(n)' <=> InHand(n)
    BY DEF InHand, Working
  <2>2. \A n \in Req : runs'[n] <= jobs'[n].attempts
    BY <1>3, <1>5 DEF IInv, Attempted
  <2> QED
    BY <2>1, <2>2 DEF IInv, Attempted
<1> QED
  BY <1>3, <1>6, <1>7

\* Neither jobs nor what is posted change with a run.
LEMMA RunKeeps ==
    ASSUME IInv, UNCHANGED <<thread, wire, outbox, jobs, cursor, told, barred>>,
           TypeOK', Hands', Attempted', RunsAreBounded'
    PROVE  IInv'
BY DEF IInv, Finite, Posted, SavedWasRun, ToldIsOver, NoneSkipped, EndsAreAnswered, Answers

LEMMA KeptRunHandler == ASSUME IInv, RunHandler PROVE IInv'
<1> USE Constants
<1>1. /\ proc.pc = "handler" /\ proc.pc \in Working /\ proc \in Place
      /\ runs' = [runs EXCEPT ![proc.job] = @ + 1]
      /\ UNCHANGED <<arrived, trusted, thread, wire, cursor, jobs, outbox, told, barred, stranded, faults>>
  BY Facts DEF RunHandler, db, noted, Working
<1>2. PICK r \in HandlerResults(runs[proc.job] + 1) :
        proc' = [proc EXCEPT !.pc = "save", !.result = r]
  BY DEF RunHandler
<1>3. r \in Result /\ r.run >= 1
  <2>1. runs[proc.job] \in Nat
    BY <1>1, Facts
  <2> QED
    BY <2>1 DEF HandlerResults, Result
<1>4. /\ proc' \in Place /\ proc'.pc = "save" /\ proc'.result = r
      /\ proc'.job = proc.job /\ proc'.todo = proc.todo
  BY <1>1, <1>2, <1>3 DEF Place, Pc
<1>5. Attempted' /\ RunsAreBounded' /\ runs' \in [Req -> Nat]
  BY <1>1, <1>4, RunCounts
<1>6. Hands'
  BY <1>1, <1>3, <1>4 DEF IInv, Hands, Working, Answering
<1>7. TypeOK'
  BY <1>1, <1>4, <1>5 DEF IInv, TypeOK, Place
<1> QED
  BY <1>1, <1>5, <1>6, <1>7, RunKeeps

LEMMA KeptHandlerFailed == ASSUME IInv, HandlerFailed PROVE IInv'
<1> USE Constants
<1> DEFINE end == OnError(jobs[proc.job])
<1>1. /\ proc.pc = "handler" /\ proc.pc \in Working /\ proc \in Place /\ End(end)
      /\ runs' = [runs EXCEPT ![proc.job] = @ + 1]
      /\ UNCHANGED <<arrived, trusted, thread, wire, cursor, jobs, outbox, told, barred, stranded, faults>>
  BY Facts DEF HandlerFailed, db, noted, Working
<1>2. /\ end \in Status
      /\ jobs[proc.job].status = "notify" => end \in {"notify", "failed"}
      /\ jobs[proc.job].status = "running" => end \in {"retrying", "notify"}
      /\ end = "retrying" => jobs[proc.job].attempts < MaxAttempts
      /\ end \in Settled => (end = "failed" /\ jobs[proc.job].attempts >= 2 * MaxAttempts)
  BY <1>1, OnErrorFits
<1> HIDE DEF end
<1>3. /\ proc' \in Place /\ proc'.pc = "mark" /\ proc'.end = end
      /\ proc'.job = proc.job /\ proc'.todo = proc.todo
  BY <1>1, <1>2 DEF End, Place, Pc
<1>4. EndFits'
  BY <1>1, <1>2, <1>3 DEF EndFits
<1>5. Hands'
  BY <1>1, <1>3, <1>4 DEF IInv, Hands, Working, Answering
<1>6. Attempted' /\ RunsAreBounded' /\ runs' \in [Req -> Nat]
  BY <1>1, <1>3, RunCounts
<1>7. TypeOK'
  BY <1>1, <1>3, <1>6 DEF IInv, TypeOK, Place
<1> QED
  BY <1>1, <1>5, <1>6, <1>7, RunKeeps

LEMMA KeptSaveResult == ASSUME IInv, SaveResult PROVE IInv'
<1> USE Constants
<1> DEFINE n == proc.job
<1>1. /\ proc.pc = "save" /\ proc.pc \in Working /\ proc \in Place /\ n \in Req
      /\ jobs \in [Req -> Job] /\ jobs' = [jobs EXCEPT ![n].saved = proc.result]
      /\ proc' = [proc EXCEPT !.pc = "reply"]
      /\ UNCHANGED <<arrived, trusted, thread, wire, cursor, outbox, runs, told, barred, stranded, faults>>
  BY Facts DEF SaveResult, Saved, Step, noted, Working
<1>2. /\ jobs[n].status = "running" /\ jobs[n].saved = NoResult
      /\ proc.result.run >= 1 /\ proc.result \in Result /\ n \notin proc.todo
  BY <1>1 DEF IInv, Hands, Working, Answering, Place
<1>3. /\ proc' \in Place /\ proc'.pc = "reply" /\ proc'.result = proc.result
      /\ proc'.job = proc.job /\ proc'.todo = proc.todo
  BY <1>1 DEF Place, Pc
<1>4. /\ jobs' \in [Req -> Job] /\ jobs'[n].saved = proc.result
      /\ \A m \in Req : jobs'[m].status = jobs[m].status /\ jobs'[m].attempts = jobs[m].attempts
      /\ \A m \in Req \ {n} : jobs'[m] = jobs[m]
  BY <1>1, <1>2 DEF Job
<1>5. TypeOK'
  BY <1>1, <1>3, <1>4 DEF IInv, TypeOK, Place, Job
<1>6. Hands' /\ Finite'
  <2>1. \A m \in proc.todo : m \in Req
    BY <1>1 DEF Place
  <2> QED
    BY <1>1, <1>2, <1>3, <1>4, <2>1 DEF IInv, Hands, Finite, Working, Answering
<1>7. Posted'
  <2>1. \A e \in outbox : e.re \in Req /\ (e.re = n => e.kind \notin {"reply", "follow"})
    BY <1>2 DEF IInv, Posted, TypeOK, Envelope
  <2>2. \A e \in outbox : e.kind \in {"reply", "follow"} => jobs'[e.re] = jobs[e.re]
    BY <1>4, <2>1
  <2> QED
    BY <1>1, <2>2 DEF IInv, Posted
<1>8. Attempted'
  <2>1. \A m \in Req : InHand(m)' <=> InHand(m)
    BY <1>1, <1>3 DEF InHand, Working
  <2>2. \A m \in Req : jobs'[m].status = "none" => jobs'[m] = jobs[m]
    BY <1>2, <1>4
  <2> QED
    BY <1>1, <1>3, <1>4, <2>1, <2>2 DEF IInv, Attempted
<1>9. SavedWasRun' /\ RunsAreBounded'
  BY <1>1, <1>2, <1>4 DEF IInv, SavedWasRun, RunsAreBounded
<1>10. ToldIsOver'
  <2>1. told \subseteq Req
    BY DEF IInv, TypeOK
  <2> QED
    BY <1>1, <1>4, <2>1 DEF IInv, ToldIsOver
<1>11. NoneSkipped' /\ EndsAreAnswered'
  BY <1>1, <1>4 DEF IInv, NoneSkipped, EndsAreAnswered, Answers
<1> QED
  BY <1>5, <1>6, <1>7, <1>8, <1>9, <1>10, <1>11 DEF IInv

LEMMA KeptPostReply == ASSUME IInv, PostReply PROVE IInv'
<1> USE Constants
<1> DEFINE n == proc.job
<1>1. /\ proc.pc = "reply" /\ proc.pc \in Working /\ proc \in Place /\ n \in Req
      /\ UNCHANGED <<arrived, trusted, cursor, jobs, runs, told, barred, stranded, faults>>
  BY Facts DEF PostReply, noted, Working
<1>2. PICK e \in Prepared(n, "reply", proc.result.run) :
         (Sent(e) /\ Step("follow")) \/ (SendFailed(e) /\ AfterReplyFailed)
  BY DEF PostReply
<1>3. proc.result.run \in Nat /\ proc.result.run >= 1 /\ proc.result.run = jobs[n].saved.run
      /\ jobs[n].status = "running" /\ n \notin proc.todo
  BY <1>1 DEF IInv, Hands, Working, Answering, Place, Result
<1>4. /\ Posted' /\ Finite' /\ thread \subseteq thread'
      /\ outbox' \subseteq Envelope /\ thread' \subseteq Envelope /\ wire' \subseteq Envelope
  <2>1. Sent(e) \/ SendFailed(e)
    BY <1>2
  <2>2. n \in Req /\ jobs' = jobs
    BY <1>1
  <2> HIDE DEF n
  <2> QED
    BY <1>3, <2>1, <2>2, SendKeeps
<1>a. e.re = n /\ e.kind = "reply"
  <2> DEFINE text == proc.result.run
  <2>1. n \in Req /\ text \in Nat /\ e \in Prepared(n, "reply", text)
    BY <1>1, <1>2, <1>3
  <2>2. "reply" \in {"reply", "follow", "notice"}
    OBVIOUS
  <2> HIDE DEF n, text
  <2> QED
    BY <2>1, <2>2, PreparedIsEnvelope
<1>5. proc' \in Place /\ Hands' /\ Attempted'
  <2>1. CASE Sent(e) /\ Step("follow")
    <3>1. /\ proc' \in Place /\ proc'.pc = "follow" /\ proc'.result = proc.result
          /\ proc'.job = n /\ proc'.todo = proc.todo
      BY <1>1, <2>1 DEF Step, Place, Pc
    <3>2. e \in thread'
      BY <2>1 DEF Sent
    <3>3. Answers(proc.job)' # {}
      BY <1>a, <3>1, <3>2 DEF Answers
    <3>4. Hands'
      BY <1>1, <1>3, <3>1, <3>3 DEF IInv, Hands, Working, Answering
    <3>5. Attempted'
      BY <1>1, <3>1, SameHand DEF Working
    <3> QED
      BY <3>1, <3>4, <3>5
  <2>2. CASE SendFailed(e) /\ AfterReplyFailed
    BY <1>1, <2>2, OnErrorFits, EndStep DEF AfterReplyFailed
  <2> QED
    BY <1>2, <2>1, <2>2
<1>6. TypeOK' /\ ToldIsOver'
  BY <1>1, <1>4, <1>5 DEF IInv, TypeOK, Place, ToldIsOver
<1> QED
  BY <1>1, <1>4, <1>5, <1>6, JobsStay

LEMMA AfterResultEnds ==
    ASSUME IInv, proc.pc = "follow", AfterResult(proc.result), UNCHANGED <<jobs, runs, faults>>,
           thread \subseteq thread'
    PROVE  proc' \in Place /\ Hands' /\ Attempted'
<1> DEFINE end == IF proc.result.kind = "proposal" THEN "needs-human" ELSE "completed"
<1>1. End(end) /\ end \in Status /\ end \in {"completed", "needs-human"}
  BY DEF AfterResult, Status
<1>2. jobs[proc.job].status = "running" /\ Answers(proc.job) # {} /\ proc.pc \in Working
  BY DEF IInv, Hands, Working, Answering
<1>3. proc'.job = proc.job
  BY <1>1, Facts DEF End, Place
<1>4. Answers(proc.job)' # {}
  BY <1>2, <1>3 DEF Answers
<1> HIDE DEF end
<1> QED
  BY <1>1, <1>2, <1>4, EndStep

LEMMA KeptNoFollowUp == ASSUME IInv, NoFollowUp PROVE IInv'
<1>1. /\ proc.pc = "follow" /\ AfterResult(proc.result)
      /\ UNCHANGED <<arrived, trusted, thread, wire, cursor, jobs, outbox, runs, told, barred, stranded, faults>>
  BY DEF NoFollowUp, db, noted
<1>2. proc' \in Place /\ Hands' /\ Attempted'
  BY <1>1, AfterResultEnds
<1>3. TypeOK'
  BY <1>1, <1>2, PlaceTyped DEF IInv, TypeOK
<1> QED
  BY <1>1, <1>2, <1>3, ProcessMoves

LEMMA KeptPostFollowUp == ASSUME IInv, PostFollowUp PROVE IInv'
<1> USE Constants
<1> DEFINE n == proc.job
<1>1. /\ proc.pc = "follow" /\ proc.pc \in Working /\ proc \in Place /\ n \in Req
      /\ UNCHANGED <<arrived, trusted, cursor, jobs, runs, told, barred, stranded, faults>>
  BY Facts DEF PostFollowUp, noted, Working
<1>2. PICK e \in Prepared(n, "follow", proc.result.run) :
         (Sent(e) /\ AfterResult(proc.result)) \/ (SendFailed(e) /\ End(OnError(jobs[n])))
  BY DEF PostFollowUp
<1>3. proc.result.run \in Nat /\ proc.result.run >= 1 /\ proc.result.run = jobs[n].saved.run
  BY <1>1 DEF IInv, Hands, Place, Result
<1>4. /\ Posted' /\ Finite' /\ thread \subseteq thread'
      /\ outbox' \subseteq Envelope /\ thread' \subseteq Envelope /\ wire' \subseteq Envelope
  <2>1. Sent(e) \/ SendFailed(e)
    BY <1>2
  <2>2. n \in Req /\ jobs' = jobs
    BY <1>1
  <2> HIDE DEF n
  <2> QED
    BY <1>3, <2>1, <2>2, SendKeeps
<1>5. proc' \in Place /\ Hands' /\ Attempted'
  <2>1. CASE AfterResult(proc.result)
    BY <1>1, <1>4, <2>1, AfterResultEnds
  <2>2. CASE End(OnError(jobs[n]))
    BY <1>1, <2>2, OnErrorFits, EndStep
  <2> QED
    BY <1>2, <2>1, <2>2
<1>6. TypeOK' /\ ToldIsOver'
  BY <1>1, <1>4, <1>5 DEF IInv, TypeOK, Place, ToldIsOver
<1> QED
  BY <1>1, <1>4, <1>5, <1>6, JobsStay

LEMMA KeptPostNotice == ASSUME IInv, PostNotice PROVE IInv'
<1> USE Constants
<1> DEFINE n == proc.job
<1>1. /\ proc.pc = "notify" /\ proc.pc \in Working /\ proc \in Place /\ n \in Req
      /\ told' = told \cup {n}
      /\ UNCHANGED <<arrived, trusted, cursor, jobs, runs, barred, stranded, faults>>
  BY Facts DEF PostNotice, noted, Working
<1>2. PICK e \in Prepared(n, "notice", 0) :
         (Sent(e) /\ End("failed")) \/ (SendFailed(e) /\ End(OnError(jobs[n])))
  BY DEF PostNotice
<1>3. jobs[n].status = "notify"
  BY <1>1 DEF IInv, Hands
<1>4. /\ Posted' /\ Finite' /\ thread \subseteq thread'
      /\ outbox' \subseteq Envelope /\ thread' \subseteq Envelope /\ wire' \subseteq Envelope
  <2>1. Sent(e) \/ SendFailed(e)
    BY <1>2
  <2>2. n \in Req /\ jobs' = jobs
    BY <1>1
  <2> HIDE DEF n
  <2> QED
    BY <2>1, <2>2, SendKeeps
<1>a. e.re = n /\ e.kind = "notice"
  <2>1. n \in Req /\ 0 \in Nat /\ "notice" \in {"reply", "follow", "notice"}
    BY <1>1
  <2>2. \A d \in Prepared(n, "notice", 0) : d.re = n /\ d.kind = "notice"
    <3> HIDE DEF n
    <3> QED
      BY <2>1, PreparedIsEnvelope
  <2> QED
    BY <2>2
<1>5. proc' \in Place /\ Hands' /\ Attempted'
  <2>1. CASE Sent(e) /\ End("failed")
    <3>1. "failed" \in Status /\ proc'.job = n
      BY <1>1, <2>1 DEF Status, End, Place
    <3>2. Answers(proc.job)' # {}
      BY <1>a, <2>1, <3>1 DEF Answers, Sent
    <3> QED
      BY <1>1, <1>3, <2>1, <3>1, <3>2, EndStep
  <2>2. CASE End(OnError(jobs[n]))
    BY <1>1, <2>2, OnErrorFits, EndStep
  <2> QED
    BY <1>2, <2>1, <2>2
<1>6. TypeOK' /\ ToldIsOver'
  BY <1>1, <1>3, <1>4, <1>5 DEF IInv, TypeOK, Place, ToldIsOver
<1> QED
  BY <1>1, <1>4, <1>5, <1>6, JobsStay

LEMMA KeptTake == ASSUME IInv, Take PROVE IInv'
<1> USE Constants
<1>1. PICK n \in proc.todo :
        /\ jobs' = [jobs EXCEPT ![n].status = IF @ = "notify" THEN "notify" ELSE "running",
                                ![n].attempts = Counted(jobs[n])]
        /\ proc' = [Idle("thread") EXCEPT !.todo = proc.todo \ {n}, !.job = n,
                                          !.result = jobs[n].saved]
  BY DEF Take
<1>2. /\ proc.pc = "next" /\ proc.pc \notin Working
      /\ UNCHANGED <<arrived, trusted, thread, wire, cursor, outbox, runs, told, barred, stranded, faults>>
  BY DEF Take, noted, Working
<1>3. /\ proc \in Place /\ jobs \in [Req -> Job] /\ proc.todo \subseteq Req /\ n \in Req
      /\ jobs[n] \in Job /\ jobs[n].status \in Ready
  BY <1>1, Facts DEF Place, IInv, Hands
<1>4. /\ proc' \in Place /\ proc'.pc = "thread" /\ proc'.job = n
      /\ proc'.todo = proc.todo \ {n} /\ proc'.result = jobs[n].saved
  <2>1. Idle("thread") \in Place
    BY IdlePlace DEF Pc
  <2>2. proc.todo \ {n} \subseteq Req /\ jobs[n].saved \in Result
    BY <1>3 DEF Job
  <2>3. Idle("thread").pc = "thread"
    BY DEF Idle
  <2> QED
    BY <1>1, <1>3, <2>1, <2>2, <2>3 DEF Place
<1>5. /\ jobs' \in [Req -> Job]
      /\ jobs'[n].attempts = jobs[n].attempts + 1 /\ jobs'[n].saved = jobs[n].saved
      /\ jobs[n].status = "notify" => jobs'[n].status = "notify"
      /\ jobs[n].status # "notify" => jobs'[n].status = "running"
      /\ \A m \in Req \ {n} : jobs'[m] = jobs[m]
  <2>1. jobs[n].attempts \in Nat
    BY <1>3 DEF Job
  <2> QED
    BY <1>1, <1>3, <2>1 DEF Job, Status, Counted
<1>6. TypeOK'
  BY <1>2, <1>4, <1>5 DEF IInv, TypeOK, Place, Job
<1>7. Hands' /\ Finite'
  BY <1>2, <1>3, <1>4, <1>5 DEF IInv, Hands, Finite, Working, Answering
<1>8. Posted'
  <2>1. \A m \in Req : jobs'[m].saved = jobs[m].saved
    BY <1>5
  <2>2. \A e \in outbox : e.re \in Req
    BY DEF IInv, TypeOK, Envelope
  <2> QED
    BY <1>2, <2>1, <2>2 DEF IInv, Posted
<1>9. Attempted'
  <2> SUFFICES ASSUME NEW m \in Req
      PROVE  /\ jobs'[m].status = "none" => jobs'[m] = NoJob
             /\ runs'[m] <= jobs'[m].attempts
             /\ m = n => runs'[m] < jobs'[m].attempts
             /\ jobs'[m].status \in {"none", "received", "retrying"}
                   => jobs'[m].attempts < MaxAttempts + faults'
             /\ jobs'[m].status = "running" =>
                  /\ jobs'[m].attempts <= MaxAttempts + faults'
                  /\ m # n => jobs'[m].attempts < MaxAttempts + faults'
    BY <1>4 DEF Attempted, InHand, Working
  <2>1. runs[m] \in Nat /\ jobs[m].attempts \in Nat /\ faults \in Nat /\ ~InHand(m)
    BY <1>2, Facts DEF Job, InHand
  <2>2. CASE m # n
    <3>1. jobs'[m] = jobs[m]
      BY <1>5, <2>2
    <3>2. jobs[m].status = "running" => jobs[m].attempts < MaxAttempts + faults
      BY <2>1 DEF IInv, Attempted
    <3> QED
      BY <1>2, <2>1, <2>2, <3>1, <3>2 DEF IInv, Attempted
  <2>3. CASE m = n
    <3>1. runs[n] <= jobs[n].attempts
      BY <1>3 DEF IInv, Attempted
    <3>2. jobs[n].status # "notify" => jobs[n].attempts < MaxAttempts + faults
      BY <1>3 DEF IInv, Attempted, Ready
    <3>3. jobs'[n].status \in {"notify", "running"}
      BY <1>5
    <3> QED
      BY <1>2, <1>5, <2>1, <2>3, <3>1, <3>2, <3>3
  <2> QED
    BY <2>2, <2>3
<1>10. SavedWasRun' /\ RunsAreBounded'
  BY <1>2, <1>5 DEF IInv, SavedWasRun, RunsAreBounded
<1>11. ToldIsOver'
  <2>1. told \subseteq Req
    BY DEF IInv, TypeOK
  <2>2. n \in told => jobs[n].status = "notify"
    BY <1>3 DEF IInv, ToldIsOver, Ready
  <2> QED
    BY <1>2, <1>5, <2>1, <2>2 DEF IInv, ToldIsOver
<1>12. NoneSkipped' /\ EndsAreAnswered'
  <2>1. jobs'[n].status \notin {"none", "completed", "needs-human", "failed"}
    BY <1>5
  <2> QED
    BY <1>2, <1>5, <2>1 DEF IInv, NoneSkipped, EndsAreAnswered, Answers
<1> QED
  BY <1>6, <1>7, <1>8, <1>9, <1>10, <1>11, <1>12 DEF IInv

LEMMA KeptMark == ASSUME IInv, Mark PROVE IInv'
<1> USE Constants
<1> DEFINE n == proc.job
           end == proc.end
           waits == \/ proc.end = "retrying"
                    \/ proc.end = "notify" /\ jobs[n].status = "notify"
<1>1. /\ proc.pc = "mark" /\ proc.pc \in Working /\ proc \in Place /\ n \in Req
      /\ jobs \in [Req -> Job]
      /\ jobs' = [jobs EXCEPT ![n].status = end, ![n].due = ~waits]
      /\ proc' = [Idle("next") EXCEPT !.todo = proc.todo]
      /\ UNCHANGED <<arrived, trusted, thread, wire, cursor, outbox, runs, told, barred, stranded, faults>>
  BY Facts DEF Mark, noted, Working
<1>2. /\ EndFits /\ jobs[n].status \in {"running", "notify"} /\ n \notin proc.todo
      /\ jobs[n] \in Job /\ end \in Status
  BY <1>1 DEF IInv, Hands, Place
<1>3. /\ end \in {"retrying", "notify", "completed", "needs-human", "failed"}
      /\ jobs[n].status = "notify" => end \in {"notify", "failed"}
      /\ end = "retrying" => jobs[n].attempts < MaxAttempts
      /\ end \in Settled =>
            \/ Answers(n) # {}
            \/ (end = "failed" /\ (n \in barred \/ jobs[n].attempts >= 2 * MaxAttempts))
  BY <1>2 DEF EndFits
<1>4. /\ proc' \in Place /\ proc'.pc = "next" /\ proc'.todo = proc.todo
  BY <1>1, IdlePlace DEF Pc, Place
<1>5. /\ jobs' \in [Req -> Job] /\ jobs'[n].status = end
      /\ jobs'[n].attempts = jobs[n].attempts /\ jobs'[n].saved = jobs[n].saved
      /\ \A m \in Req \ {n} : jobs'[m] = jobs[m]
  <2> HIDE DEF waits
  <2>1. CASE waits
    <3>1. jobs' = [jobs EXCEPT ![n].status = end, ![n].due = FALSE]
      BY <1>1, <2>1, Zenon
    <3> QED
      BY <1>1, <1>2, <3>1 DEF Job
  <2>2. CASE ~waits
    <3>1. (~waits) = TRUE
      BY <2>2
    <3>2. jobs' = [jobs EXCEPT ![n].status = end, ![n].due = TRUE]
      BY <1>1, <3>1, Zenon
    <3> QED
      BY <1>1, <1>2, <3>2 DEF Job
  <2> QED
    BY <2>1, <2>2
<1> HIDE DEF end, waits
<1>6. TypeOK'
  BY <1>1, <1>4, <1>5 DEF IInv, TypeOK, Place, Job
<1>7. Hands' /\ Finite'
  <2>1. proc.todo \subseteq Req
    BY <1>1 DEF Place
  <2> QED
    BY <1>1, <1>2, <1>4, <1>5, <2>1 DEF IInv, Hands, Finite, Working, Answering
<1>8. Posted'
  <2>1. \A m \in Req : jobs'[m].saved = jobs[m].saved
    BY <1>5
  <2>2. \A e \in outbox : e.re \in Req
    BY DEF IInv, TypeOK, Envelope
  <2> QED
    BY <1>1, <2>1, <2>2 DEF IInv, Posted
<1>9. Attempted'
  <2>1. ASSUME NEW m \in Req
        PROVE  /\ jobs'[m].status = "none" => jobs'[m] = NoJob
               /\ runs'[m] <= jobs'[m].attempts
               /\ jobs'[m].status \in {"none", "received", "retrying", "running"}
                     => jobs'[m].attempts < MaxAttempts + faults'
    <3>1. runs[m] <= jobs[m].attempts /\ jobs[m].attempts \in Nat /\ faults \in Nat
      BY Facts DEF IInv, Attempted, Job
    <3>2. CASE m = n
      BY <1>1, <1>3, <1>5, <3>1, <3>2
    <3>3. CASE m # n
      <4>1. ~InHand(m) /\ jobs'[m] = jobs[m]
        BY <1>5, <3>3 DEF InHand
      <4> QED
        BY <1>1, <4>1 DEF IInv, Attempted
    <3> QED
      BY <3>2, <3>3
  <2> QED
    BY <1>1, <1>4, <1>5, <2>1, Facts, NobodyInHand DEF Working
<1>10. SavedWasRun' /\ RunsAreBounded'
  BY <1>1, <1>5 DEF IInv, SavedWasRun, RunsAreBounded
<1>11. ToldIsOver'
  <2>1. told \subseteq Req
    BY DEF IInv, TypeOK
  <2>2. n \in told => jobs[n].status = "notify"
    BY <1>2 DEF IInv, ToldIsOver
  <2> QED
    BY <1>1, <1>3, <1>5, <2>1, <2>2 DEF IInv, ToldIsOver
<1>12. NoneSkipped'
  BY <1>1, <1>3, <1>5 DEF IInv, NoneSkipped
<1>13. EndsAreAnswered'
  <2>1. \A m \in Req : Answers(m)' = Answers(m)
    BY <1>1 DEF Answers
  <2> QED
    BY <1>1, <1>3, <1>5, <2>1 DEF IInv, EndsAreAnswered, Settled
<1> QED
  BY <1>6, <1>7, <1>8, <1>9, <1>10, <1>11, <1>12, <1>13 DEF IInv

-----------------------------------------------------------------------------
(* Around the loop.                                                        *)

LEMMA KeptBackoffOver == ASSUME IInv, NEW n \in Req, BackoffOver(n) PROVE IInv'
<1> USE Constants
<1>1. /\ jobs' = [jobs EXCEPT ![n].due = TRUE] /\ jobs \in [Req -> Job] /\ proc \in Place
      /\ ~jobs[n].due
      /\ UNCHANGED <<arrived, trusted, thread, wire, cursor, outbox, proc, runs, told, barred, stranded, faults>>
  BY Facts DEF BackoffOver, noted
<1>2. /\ jobs' \in [Req -> Job]
      /\ \A m \in Req : /\ jobs'[m].status = jobs[m].status
                        /\ jobs'[m].attempts = jobs[m].attempts
                        /\ jobs'[m].saved = jobs[m].saved
      /\ \A m \in Req \ {n} : jobs'[m] = jobs[m]
  BY <1>1 DEF Job
<1>3. jobs[n].status # "none"
  BY <1>1 DEF IInv, Attempted, NoJob
<1>4. TypeOK' /\ Finite'
  BY <1>1, <1>2 DEF IInv, TypeOK, Finite, Job
<1>5. Hands'
  <2>1. proc.todo \subseteq Req /\ (proc.pc \in Working => proc.job \in Req)
    BY <1>1, Facts DEF Place
  <2>2. \A m \in Req : Answers(m)' = Answers(m)
    BY <1>1 DEF Answers
  <2>3. proc.pc = "mark" => EndFits'
    BY <1>1, <1>2, <2>1, <2>2 DEF IInv, Hands, EndFits, Working
  <2>4. proc.pc = "follow" => Answers(proc.job)' # {}
    BY <1>1, <2>1, <2>2 DEF IInv, Hands, Working
  <2> QED
    BY <1>1, <1>2, <2>1, <2>3, <2>4 DEF IInv, Hands, Working, Answering
<1>6. Posted'
  <2>1. \A e \in outbox : e.re \in Req
    BY DEF IInv, TypeOK, Envelope
  <2> QED
    BY <1>1, <1>2, <2>1 DEF IInv, Posted
<1>7. Attempted'
  <2>1. \A m \in Req : InHand(m)' <=> InHand(m)
    BY <1>1 DEF InHand
  <2>2. \A m \in Req : jobs'[m].status = "none" => jobs'[m] = jobs[m]
    BY <1>2, <1>3
  <2> QED
    BY <1>1, <1>2, <2>1, <2>2 DEF IInv, Attempted
<1>8. SavedWasRun' /\ RunsAreBounded' /\ NoneSkipped'
  BY <1>1, <1>2 DEF IInv, SavedWasRun, RunsAreBounded, NoneSkipped
<1>9. ToldIsOver'
  <2>1. told \subseteq Req
    BY DEF IInv, TypeOK
  <2> QED
    BY <1>1, <1>2, <2>1 DEF IInv, ToldIsOver
<1>10. EndsAreAnswered'
  BY <1>1, <1>2 DEF IInv, EndsAreAnswered, Answers
<1> QED
  BY <1>4, <1>5, <1>6, <1>7, <1>8, <1>9, <1>10 DEF IInv

\* A fault: the job in hand, if there is one, is left as it is.
LEMMA Fault ==
    ASSUME IInv, faults' = faults + 1, faults' <= MaxFaults,
           NEW pc \in {"down", "poll"}, proc' = Idle(pc), stranded' \subseteq Req,
           UNCHANGED <<arrived, trusted, thread, wire, cursor, jobs, outbox, runs, told, barred>>
    PROVE  IInv'
<1> USE Constants
<1>1. proc' \in Place /\ proc'.pc \notin Working /\ proc'.todo = {}
  BY IdlePlace DEF Pc, Working
<1>2. faults' \in Nat /\ faults \in Nat /\ jobs \in [Req -> Job]
  BY Facts
<1>3. TypeOK' /\ Finite'
  BY <1>1, <1>2 DEF IInv, TypeOK, Finite, Place
<1>4. Hands'
  BY <1>1 DEF Hands, Working, Answering
<1>5. Attempted'
  <2>1. ASSUME NEW n \in Req
        PROVE  /\ jobs'[n].status = "none" => jobs'[n] = NoJob
               /\ runs'[n] <= jobs'[n].attempts
               /\ jobs'[n].status \in {"none", "received", "retrying", "running"}
                     => jobs'[n].attempts < MaxAttempts + faults'
    <3>1. jobs[n].attempts \in Nat
      BY <1>2 DEF Job
    <3>2. jobs[n].status \in {"none", "received", "retrying", "running"}
             => jobs[n].attempts <= MaxAttempts + faults
      BY <1>2, <3>1 DEF IInv, Attempted
    <3> QED
      BY <1>2, <3>1, <3>2 DEF IInv, Attempted
  <2> QED
    BY <1>1, <1>2, <2>1, NobodyInHand
<1>6. Posted' /\ SavedWasRun' /\ ToldIsOver' /\ NoneSkipped' /\ EndsAreAnswered'
  BY DEF IInv, Posted, SavedWasRun, ToldIsOver, NoneSkipped, EndsAreAnswered, Answers
<1>7. RunsAreBounded'
  <2>1. \A n \in Req : runs[n] \in Nat /\ runs[n] <= MaxAttempts + faults
    BY Facts DEF IInv, RunsAreBounded
  <2> QED
    BY <1>2, <2>1 DEF RunsAreBounded
<1> QED
  BY <1>3, <1>4, <1>5, <1>6, <1>7 DEF IInv

LEMMA KeptFaults == ASSUME IInv, Crash \/ WriteFailed PROVE IInv'
<1> USE Constants
<1>1. faults \in Nat /\ stranded \subseteq Req
  BY Facts DEF IInv, TypeOK
<1>2. CASE Crash
  <2>1. /\ faults' = faults + 1 /\ faults' <= MaxFaults /\ proc' = Idle("down") /\ stranded' \subseteq Req
        /\ UNCHANGED <<arrived, trusted, thread, wire, cursor, jobs, outbox, runs, told, barred>>
    BY <1>1, <1>2 DEF Crash, db
  <2> QED
    BY <2>1, Fault
<1>3. CASE WriteFailed
  <2>1. /\ faults' = faults + 1 /\ faults < MaxFaults /\ proc' = Idle("poll")
        /\ stranded' = stranded \cup
               {n \in {proc.job} \cap Req : proc.pc = "mark" /\ jobs[n].status = "running"}
        /\ UNCHANGED <<arrived, trusted, thread, wire, cursor, jobs, outbox, runs, told, barred>>
    BY <1>3 DEF WriteFailed, db
  <2>2. stranded' \subseteq Req
    <3> DEFINE S == {n \in {proc.job} \cap Req : proc.pc = "mark" /\ jobs[n].status = "running"}
    <3>1. S \subseteq Req
      OBVIOUS
    <3> HIDE DEF S
    <3>2. stranded' = stranded \cup S
      BY <2>1 DEF S
    <3> QED
      BY <1>1, <3>1, <3>2
  <2>3. faults' <= MaxFaults
    BY <1>1, <2>1, DispatcherAssumption
  <2> QED
    BY <2>1, <2>2, <2>3, Fault
<1> QED
  BY <1>2, <1>3

\* What the process does not do: its place and jobs stay.
LEMMA WorldMoves ==
    ASSUME IInv, UNCHANGED <<cursor, jobs, outbox, proc, runs, told, barred, faults>>,
           TypeOK', Finite', Posted', thread \subseteq thread'
    PROVE  IInv'
<1>1. \A n : Answers(n) \subseteq Answers(n)'
  BY DEF Answers
<1>2. Hands'
  <2>1. proc.pc = "mark" => EndFits'
    BY <1>1 DEF IInv, Hands, EndFits
  <2>2. proc.pc = "follow" => Answers(proc.job)' # {}
    BY <1>1 DEF IInv, Hands
  <2> QED
    BY <2>1, <2>2 DEF IInv, Hands
<1>3. Attempted'
  <2>1. \A n \in Req : InHand(n)' <=> InHand(n)
    BY DEF InHand
  <2> QED
    BY <2>1 DEF IInv, Attempted
<1>4. ToldIsOver'
  BY DEF IInv, ToldIsOver
<1> QED
  BY <1>2, <1>3, <1>4, JobsStay

LEMMA KeptWorld ==
    ASSUME IInv,
           \/ Arrive \/ ChangeTrust
           \/ \E e \in wire : Late(e)
           \/ \E n \in Req : HumanReply(n)
    PROVE  IInv'
<1> USE Constants
<1>1. CASE Arrive \/ ChangeTrust
  <2>1. /\ UNCHANGED <<thread, wire, cursor, jobs, outbox, proc, runs, told, barred, stranded, faults>>
        /\ arrived' \in {0} \cup Req /\ trusted' \in BOOLEAN
    BY <1>1 DEF Arrive, ChangeTrust, db, noted, IInv, TypeOK
  <2>2. TypeOK' /\ Finite' /\ Posted'
    BY <2>1 DEF IInv, TypeOK, Finite, Posted
  <2> QED
    BY <2>1, <2>2, WorldMoves
<1>2. ASSUME NEW e \in wire, Late(e) PROVE IInv'
  <2>1. /\ UNCHANGED <<arrived, trusted, cursor, jobs, outbox, proc, runs, told, barred, stranded, faults>>
        /\ wire' = wire \ {e} /\ (thread' = thread \cup {e} \/ thread' = thread)
    BY <1>2 DEF Late, db, noted
  <2>2. IsFiniteSet(wire') /\ IsFiniteSet(thread')
    <3>1. IsFiniteSet(wire \ {e}) /\ IsFiniteSet(thread \cup {e}) /\ IsFiniteSet(thread)
      BY FS_RemoveElement, FS_AddElement DEF IInv, Finite
    <3> QED
      BY <2>1, <3>1, Zenon
  <2>3. TypeOK' /\ Finite' /\ Posted'
    BY <2>1, <2>2 DEF IInv, TypeOK, Finite, Posted
  <2> QED
    BY <2>1, <2>3, WorldMoves
<1>3. ASSUME NEW n \in Req, HumanReply(n) PROVE IInv'
  <2> DEFINE h == [re |-> n, kind |-> "human", text |-> 0, build |-> 1]
  <2>1. /\ UNCHANGED <<arrived, trusted, wire, cursor, jobs, outbox, proc, runs, told, barred, stranded, faults>>
        /\ thread' = thread \cup {h}
    BY <1>3 DEF HumanReply, db, noted
  <2>2. h \in Envelope /\ h.kind = "human" /\ h.text = 0 /\ h.build = 1
    BY DEF Envelope
  <2> HIDE DEF h
  <2>3. Finite'
    <3>1. IsFiniteSet(thread \cup {h})
      BY FS_AddElement DEF IInv, Finite
    <3> QED
      BY <2>1, <3>1 DEF IInv, Finite
  <2>4. TypeOK' /\ Posted'
    BY <2>1, <2>2 DEF IInv, TypeOK, Posted
  <2> QED
    BY <2>1, <2>3, <2>4, WorldMoves
<1> QED
  BY <1>1, <1>2, <1>3

LEMMA Kept == IInv /\ [Next]_vars => IInv'
<1> SUFFICES ASSUME IInv, [Next]_vars PROVE IInv'
  OBVIOUS
<1>1. CASE Attempt
  BY <1>1, KeptNotTrusted, KeptThreadFailed, KeptReadThread, KeptRunHandler, KeptHandlerFailed,
     KeptSaveResult, KeptPostReply, KeptNoFollowUp, KeptPostFollowUp, KeptPostNotice, KeptMark
     DEF Attempt
<1>2. CASE Start \/ FetchInbox \/ Ingest \/ Select \/ PassDone \/ Take
  BY <1>2, KeptStart, KeptFetchInbox, KeptIngest, KeptSelect, KeptPassDone, KeptTake
<1>3. CASE UNCHANGED vars
  <2>1. /\ UNCHANGED <<arrived, trusted, thread, wire, cursor, jobs, outbox, proc, runs, told>>
        /\ UNCHANGED <<barred, stranded, faults>>
    BY <1>3 DEF vars, db, noted
  <2>2. TypeOK' /\ Finite' /\ Posted'
    BY <2>1 DEF IInv, TypeOK, Finite, Posted
  <2> QED
    BY <2>1, <2>2, WorldMoves
<1> QED
  BY <1>1, <1>2, <1>3, KeptBackoffOver, KeptFaults, KeptWorld DEF Next, Loop

\* The inductive invariant of the dispatcher.
THEOREM DispatcherInvariant == Spec => []IInv
BY InitIInv, Kept, PTL DEF Spec

-----------------------------------------------------------------------------
(* What follows.                                                           *)

\* The types.
THEOREM DispatcherTyped == Spec => []TypeOK
<1>1. IInv => TypeOK
  BY DEF IInv
<1> QED
  BY DispatcherInvariant, <1>1, PTL

\* One reply, one follow-up and one notice at most, whatever is retried, late,
\* or cut short (outbox::reserve, correlated).
THEOREM OneOfEachIsSent == Spec => []OneOfEach
<1>1. IInv => OneOfEach
  <2> SUFFICES ASSUME IInv, NEW d \in thread \cup wire, NEW e \in thread \cup wire,
                      d.re = e.re, d.kind = e.kind
               PROVE  d = e
    BY DEF OneOfEach
  <2>1. d \in Envelope /\ e \in Envelope
    BY DEF IInv, TypeOK
  <2>2. CASE d \in outbox /\ e \in outbox
    <3>1. d.text = e.text
      BY <2>1, <2>2 DEF IInv, Posted, Envelope
    <3> QED
      BY <2>2, <3>1 DEF IInv, Posted
  <2>3. CASE d \notin outbox /\ e \notin outbox
    <3>1. d.text = e.text /\ d.build = e.build
      BY <2>3 DEF IInv, Posted
    <3> QED
      BY <2>1, <3>1 DEF Envelope
  <2>4. CASE (d \in outbox /\ e \notin outbox) \/ (d \notin outbox /\ e \in outbox)
    BY <2>4 DEF IInv, Posted
  <2> QED
    BY <2>2, <2>3, <2>4
<1> QED
  BY DispatcherInvariant, <1>1, PTL

\* What is sent is what is saved (execute).
THEOREM RepliesAreSaved == Spec => []ReplyIsSaved
<1>1. IInv => ReplyIsSaved
  BY DEF IInv, Posted, ReplyIsSaved
<1> QED
  BY DispatcherInvariant, <1>1, PTL

\* A crash never skips a request (ingest).
THEOREM NoneIsSkipped == Spec => []NoneSkipped
<1>1. IInv => NoneSkipped
  BY DEF IInv
<1> QED
  BY DispatcherInvariant, <1>1, PTL

\* A job that ended was answered, or is one of the exceptions (execute,
\* notify_failure).
THEOREM EndedAreAnswered == Spec => []EndsAreAnswered
<1>1. IInv => EndsAreAnswered
  BY DEF IInv
<1> QED
  BY DispatcherInvariant, <1>1, PTL

\* A handler runs at most MaxAttempts times and once more for each fault
\* (process_ready counts the attempt first).
THEOREM RunsStayBounded == Spec => []RunsAreBounded
<1>1. IInv => RunsAreBounded
  BY DEF IInv
<1> QED
  BY DispatcherInvariant, <1>1, PTL

\* No handler runs for a request whose sender was told it failed
\* (process_ready, notify_failure).
THEOREM NoRunsAfterNotice == Spec => NoRunAfterNotice
<1>1. IInv /\ [Next]_vars => [\A n \in told : runs'[n] = runs[n]]_vars
  <2> SUFFICES ASSUME IInv, Next, NEW n \in told PROVE runs'[n] = runs[n]
    OBVIOUS
  <2>1. n \in Req /\ jobs[n].status # "running" /\ runs \in [Req -> Nat]
    BY DEF IInv, TypeOK, ToldIsOver
  <2>2. CASE RunHandler \/ HandlerFailed
    <3>1. /\ proc.pc = "handler" /\ runs' = [runs EXCEPT ![proc.job] = @ + 1]
      BY <2>2 DEF RunHandler, HandlerFailed
    <3>2. proc.job # n
      BY <2>1, <3>1 DEF IInv, Hands, Answering
    <3> QED
      BY <2>1, <3>1, <3>2
  <2>3. CASE ~(RunHandler \/ HandlerFailed)
    <3>1. runs' = runs
      BY <2>3 DEF Next, Loop, Attempt, Start, FetchInbox, Ingest, Select, PassDone, Take,
         NotTrusted, ThreadFailed, ReadThread, SaveResult, PostReply, NoFollowUp, PostFollowUp,
         PostNotice, Mark, BackoffOver, Crash, WriteFailed, Arrive, Late, HumanReply, ChangeTrust
    <3> QED
      BY <3>1
  <2> QED
    BY <2>2, <2>3
<1> QED
  BY DispatcherInvariant, <1>1, PTL DEF Spec, NoRunAfterNotice

-----------------------------------------------------------------------------
(* The dispatcher implements Service.                                      *)

\* What is read is read in order, each request once.
ReadInOrder ==
    /\ cursor <= arrived
    /\ proc.pc = "ingest" => cursor <= proc.until /\ proc.until <= arrived
    /\ \A n \in Req : n > cursor => jobs[n].status = "none"

\* The result about to be saved is the last run's, and the requester is told
\* of a failure only after MaxAttempts.
Concludes ==
    /\ proc.pc = "save" => proc.result.run = runs[proc.job]
    /\ proc.pc = "mark" /\ proc.end = "notify" /\ jobs[proc.job].status = "running"
          => jobs[proc.job].attempts >= MaxAttempts

\* Where a step of an attempt leads.
LEMMA AttemptLeads ==
    ASSUME IInv, Attempt
    PROVE  /\ UNCHANGED <<arrived, cursor, faults>> /\ proc'.pc # "ingest"
           /\ \A n \in Req : jobs[n].status = "none" => jobs'[n].status = "none"
           /\ \/ Mark
              \/ /\ proc'.job = proc.job /\ proc'.pc \in Working
                 /\ \A n \in Req : /\ jobs'[n].status = jobs[n].status
                                   /\ jobs'[n].attempts = jobs[n].attempts
           /\ proc'.pc = "save" =>
                 /\ proc'.job = proc.job /\ proc.job \in Req
                 /\ runs' = [runs EXCEPT ![proc.job] = @ + 1]
                 /\ proc'.result.run = runs[proc.job] + 1
           /\ proc'.pc = "mark" =>
                 /\ proc'.job = proc.job /\ jobs' = jobs
                 /\ proc'.end = OnError(jobs[proc.job]) \/ proc'.end # "notify"
<1> USE Facts DEF Working
<1>1. CASE NotTrusted \/ ThreadFailed \/ HandlerFailed
  <2>1. PICK end \in {"failed", OnError(jobs[proc.job])} : End(end)
    BY <1>1 DEF NotTrusted, ThreadFailed, HandlerFailed
  <2>2. proc'.pc = "mark" /\ proc'.job = proc.job /\ proc'.end = end
    BY <2>1 DEF End, Place
  <2>3. UNCHANGED <<arrived, cursor, jobs, faults>>
    BY <1>1 DEF NotTrusted, ThreadFailed, HandlerFailed, db, noted
  <2> QED
    BY <2>1, <2>2, <2>3
<1>2. CASE ReadThread
  <2>1. UNCHANGED <<arrived, cursor, jobs, faults>>
    BY <1>2 DEF ReadThread, db, noted
  <2>2. /\ proc'.pc \in {"mark", "notify", "follow", "reply", "handler"} /\ proc'.job = proc.job
        /\ proc'.pc = "mark" => proc'.end \in {"failed", "completed"}
    BY <1>2 DEF ReadThread, Place
  <2> QED
    BY <2>1, <2>2
<1>3. CASE RunHandler
  <2>1. /\ UNCHANGED <<arrived, cursor, jobs, faults>> /\ proc.pc \in Working
        /\ runs' = [runs EXCEPT ![proc.job] = @ + 1]
    BY <1>3 DEF RunHandler, db, noted
  <2>2. PICK r \in HandlerResults(runs[proc.job] + 1) :
          proc' = [proc EXCEPT !.pc = "save", !.result = r]
    BY <1>3 DEF RunHandler
  <2>3. proc'.pc = "save" /\ proc'.job = proc.job /\ proc'.result = r
    BY <2>2 DEF Place
  <2>4. r.run = runs[proc.job] + 1
    BY DEF HandlerResults
  <2> QED
    BY <2>1, <2>3, <2>4
<1>4. CASE SaveResult
  <2>1. /\ UNCHANGED <<arrived, cursor, faults>> /\ proc'.pc = "reply" /\ proc'.job = proc.job
        /\ jobs' = [jobs EXCEPT ![proc.job].saved = proc.result]
    BY <1>4 DEF SaveResult, Saved, Step, Place, noted
   <2>2. \A n \in Req : /\ jobs'[n].status = jobs[n].status
                      /\ jobs'[n].attempts = jobs[n].attempts
    BY <2>1 DEF Job
  <2>3. /\ UNCHANGED <<arrived, cursor, faults>> /\ proc'.pc = "reply" /\ proc'.job = proc.job
    BY <2>1
  <2> QED
    BY <2>2, <2>3
<1>5. CASE PostReply \/ NoFollowUp \/ PostFollowUp \/ PostNotice
  <2>1. UNCHANGED <<arrived, cursor, jobs, faults>>
    BY <1>5 DEF PostReply, NoFollowUp, PostFollowUp, PostNotice, db, noted
  <2>2. CASE Step("follow")
    <3>1. proc'.pc = "follow" /\ proc'.job = proc.job
      BY <2>2 DEF Step, Place
    <3> QED
      BY <2>1, <3>1
  <2>3. ASSUME NEW end, End(end), end = OnError(jobs[proc.job]) \/ end # "notify"
        PROVE  /\ proc'.pc = "mark" /\ proc'.job = proc.job
               /\ proc'.end = OnError(jobs[proc.job]) \/ proc'.end # "notify"
    BY <2>3 DEF End, Place
  <2>4. CASE \E end \in {OnError(jobs[proc.job]), "failed", "needs-human", "completed"} : End(end)
    BY <2>1, <2>3, <2>4
  <2>5. Step("follow") \/ \E end \in {OnError(jobs[proc.job]), "failed", "needs-human", "completed"} :
                             End(end)
    BY <1>5 DEF PostReply, NoFollowUp, PostFollowUp, PostNotice, AfterResult, AfterReplyFailed
  <2> QED
    BY <2>2, <2>4, <2>5
<1>6. CASE Mark
  <2>1. /\ UNCHANGED <<arrived, cursor, faults>> /\ proc'.pc = "next" /\ proc.pc = "mark"
    BY <1>6, IdlePlace DEF Mark, Idle, Pc, noted
  <2>2. proc.job \in Req /\ jobs[proc.job].status # "none"
    BY <2>1 DEF IInv, Hands
  <2>3. \A n \in Req \ {proc.job} : jobs'[n] = jobs[n]
    BY <1>6 DEF Mark
  <2> QED
    BY <1>6, <2>1, <2>2, <2>3
<1> QED
  BY <1>1, <1>2, <1>3, <1>4, <1>5, <1>6 DEF Attempt

LEMMA OrderKept == IInv /\ ReadInOrder /\ [Next]_vars => ReadInOrder'
<1> SUFFICES ASSUME IInv, ReadInOrder, [Next]_vars PROVE ReadInOrder'
  OBVIOUS
<1>1. cursor \in Nat /\ arrived \in Nat /\ proc.until \in Nat
  <2>1. cursor \in {0} \cup Req /\ arrived \in {0} \cup Req
    BY DEF IInv, TypeOK
  <2>2. proc.until \in {0} \cup Req
    BY Facts DEF Place
  <2> QED
    BY <2>1, <2>2, DispatcherAssumption DEF Req
<1> USE Facts, Constants
<1>2. CASE Attempt
  BY <1>2, AttemptLeads DEF ReadInOrder
<1>3. CASE Start \/ Select \/ PassDone \/ Crash \/ WriteFailed
  <2>1. PICK pc \in {"poll", "next", "down"} : proc'.pc = pc
    BY <1>3, IdlePlace DEF Start, Select, PassDone, Crash, WriteFailed, Idle, Pc
  <2>2. UNCHANGED <<arrived, cursor>>
    BY <1>3 DEF Start, Select, PassDone, Crash, WriteFailed, db
  <2>3. \A n \in Req : jobs[n].status = "none" => jobs'[n].status = "none"
    BY <1>3 DEF Start, Select, PassDone, Crash, WriteFailed, db, Resumed
  <2> QED
    BY <2>1, <2>2, <2>3 DEF ReadInOrder
<1>4. CASE FetchInbox
  <2>1. UNCHANGED <<arrived, cursor, jobs>>
    BY <1>4 DEF FetchInbox, db
  <2>2. proc'.until = arrived
    BY <1>4 DEF FetchInbox, Idle
  <2> QED
    BY <1>1, <2>1, <2>2 DEF ReadInOrder
<1>5. CASE Ingest
  <2>1. /\ proc'.pc = "select" /\ cursor' = proc.until /\ proc.pc = "ingest" /\ arrived' = arrived
    BY <1>5, IdlePlace DEF Ingest, NextCursor, Pc
  <2>2. \A n \in Req : n > proc.until => jobs'[n] = jobs[n]
    BY <1>1, <1>5 DEF Ingest
  <2> QED
    BY <1>1, <2>1, <2>2 DEF ReadInOrder
<1>6. CASE Take
  <2>1. PICK n \in proc.todo :
          /\ \A m \in Req \ {n} : jobs'[m] = jobs[m]
          /\ proc' = [Idle("thread") EXCEPT !.todo = proc.todo \ {n}, !.job = n, !.result = jobs[n].saved]
    BY <1>6 DEF Take
  <2>2. UNCHANGED <<arrived, cursor>> /\ proc'.pc = "thread"
    BY <1>6, <2>1, IdlePlace DEF Take, Pc, Idle
  <2>3. jobs[n].status # "none"
    BY DEF IInv, Hands, Ready
  <2> QED
    BY <2>1, <2>2, <2>3 DEF ReadInOrder
<1>7. CASE \E n \in Req : BackoffOver(n)
  <2>1. UNCHANGED <<arrived, cursor, proc>>
    BY <1>7 DEF BackoffOver
  <2>2. \A n \in Req : jobs'[n].status = jobs[n].status
    BY <1>7 DEF BackoffOver, Job
  <2> QED
    BY <2>1, <2>2 DEF ReadInOrder
<1>8. CASE Arrive
  BY <1>1, <1>8 DEF Arrive, ReadInOrder, db
<1>9. CASE \/ ChangeTrust \/ UNCHANGED vars
           \/ (\E e \in wire : Late(e)) \/ \E n \in Req : HumanReply(n)
  BY <1>9 DEF ChangeTrust, Late, HumanReply, vars, db, ReadInOrder
<1> QED
  BY <1>2, <1>3, <1>4, <1>5, <1>6, <1>7, <1>8, <1>9 DEF Next, Loop

LEMMA ConcludesKept == IInv /\ Concludes /\ [Next]_vars => Concludes'
<1> SUFFICES ASSUME IInv, Concludes, [Next]_vars PROVE Concludes'
  OBVIOUS
<1> USE Facts, Constants
<1>1. CASE Attempt
  <2>1. proc'.pc = "save" => proc'.result.run = runs'[proc'.job]
    BY <1>1, AttemptLeads
  <2>2. ASSUME proc'.pc = "mark", proc'.end = "notify", jobs'[proc'.job].status = "running"
        PROVE  jobs'[proc'.job].attempts >= MaxAttempts
    <3>1. OnError(jobs[proc.job]) = "notify" /\ jobs[proc.job].status = "running"
          /\ jobs' = jobs /\ proc'.job = proc.job
      BY <1>1, <2>2, AttemptLeads
    <3> QED
      BY <3>1 DEF OnError
  <2> QED
    BY <2>1, <2>2 DEF Concludes
<1>2. CASE Start \/ FetchInbox \/ Ingest \/ Select \/ PassDone \/ Crash \/ WriteFailed
  <2>1. PICK pc \in {"poll", "ingest", "select", "next", "down"} : proc'.pc = pc
    BY <1>2, IdlePlace DEF Start, FetchInbox, Ingest, Select, PassDone, Crash, WriteFailed, Idle, Pc
  <2> QED
    BY <2>1 DEF Concludes
<1>3. CASE Take
  <2>1. proc'.pc = "thread"
    BY <1>3, IdlePlace DEF Take, Pc, Idle
  <2> QED
    BY <2>1 DEF Concludes
<1>4. CASE \E n \in Req : BackoffOver(n)
  <2>1. UNCHANGED <<runs, proc>>
    BY <1>4 DEF BackoffOver
  <2>2. \A n \in Req : jobs'[n].status = jobs[n].status /\ jobs'[n].attempts = jobs[n].attempts
    BY <1>4 DEF BackoffOver, Job
  <2>3. proc.pc \in {"save", "mark"} => proc.job \in Req
    BY DEF Working
  <2> QED
    BY <2>1, <2>2, <2>3 DEF Concludes
<1>5. CASE \/ Arrive \/ ChangeTrust \/ UNCHANGED vars
           \/ (\E e \in wire : Late(e)) \/ \E n \in Req : HumanReply(n)
  BY <1>5 DEF Arrive, ChangeTrust, Late, HumanReply, vars, db, Concludes
<1> QED
  BY <1>1, <1>2, <1>3, <1>4, <1>5 DEF Next, Loop

\* A notice is tried again only while attempts are left, and past them only
\* when a fault cut its last attempt short.
NoticesCounted ==
    /\ \A n \in Req :
          /\ jobs[n].attempts <= 2 * MaxAttempts + faults
          /\ jobs[n].status = "notify" /\ ~InHand(n) => jobs[n].attempts < 2 * MaxAttempts + faults
    /\ proc.pc = "mark" /\ proc.end = "notify" /\ jobs[proc.job].status = "notify"
          => jobs[proc.job].attempts < 2 * MaxAttempts

\* A step that leaves attempts and statuses alone, and puts no notice down
\* but by a fault.
LEMMA NoticesStay ==
    ASSUME NoticesCounted, jobs \in [Req -> Job], faults \in Nat, faults' \in Nat,
           \A n \in Req : jobs'[n].attempts = jobs[n].attempts,
           \A n \in Req : jobs'[n].status = "notify" => jobs[n].status = "notify",
           \/ faults' = faults + 1
           \/ faults' = faults /\ \A n \in Req : InHand(n) => InHand(n)',
           proc'.pc = "mark" /\ proc'.end = "notify" /\ jobs'[proc'.job].status = "notify"
              => jobs'[proc'.job].attempts < 2 * MaxAttempts
    PROVE  NoticesCounted'
<1>1. \A n \in Req : jobs[n].attempts \in Nat
  BY DEF Job
<1>2. ASSUME NEW n \in Req
      PROVE  /\ jobs'[n].attempts <= 2 * MaxAttempts + faults'
             /\ jobs'[n].status = "notify" /\ ~InHand(n)'
                  => jobs'[n].attempts < 2 * MaxAttempts + faults'
  <2>1. /\ jobs[n].attempts <= 2 * MaxAttempts + faults
        /\ jobs[n].status = "notify" /\ ~InHand(n) => jobs[n].attempts < 2 * MaxAttempts + faults
    BY DEF NoticesCounted
  <2>2. 2 * MaxAttempts \in Nat
    BY Constants
  <2> QED
    BY <1>1, <2>1, <2>2
<1> QED
  BY <1>2 DEF NoticesCounted

LEMMA NoticesKept == IInv /\ NoticesCounted /\ [Next]_vars => NoticesCounted'
<1> SUFFICES ASSUME IInv, NoticesCounted, [Next]_vars PROVE NoticesCounted'
  OBVIOUS
<1>0. /\ proc \in Place /\ jobs \in [Req -> Job] /\ faults \in Nat
      /\ proc.pc \in Working => proc.job \in Req
  BY Facts
<1>n. MaxAttempts \in Nat /\ \A n \in Req : jobs[n].attempts \in Nat
  BY <1>0, Constants DEF Job
<1>1. CASE Attempt /\ ~Mark
  <2>1. /\ faults' = faults /\ proc'.job = proc.job /\ proc'.pc \in Working
        /\ \A n \in Req : jobs'[n].status = jobs[n].status /\ jobs'[n].attempts = jobs[n].attempts
        /\ proc'.pc = "mark" => jobs' = jobs /\ (proc'.end = OnError(jobs[proc.job]) \/ proc'.end # "notify")
    BY <1>1, AttemptLeads
  <2>2. \A n \in Req : InHand(n) => InHand(n)'
    BY <2>1 DEF InHand
  <2>3. ASSUME proc'.pc = "mark", proc'.end = "notify", jobs'[proc'.job].status = "notify"
        PROVE  jobs'[proc'.job].attempts < 2 * MaxAttempts
    <3>1. OnError(jobs[proc.job]) = "notify" /\ jobs[proc.job].status = "notify"
      BY <2>1, <2>3
    <3>2. ~(jobs[proc.job].attempts >= 2 * MaxAttempts) /\ proc.job \in Req
      BY <1>0, <1>1, <3>1 DEF OnError, Attempt, NotTrusted, ThreadFailed, ReadThread, RunHandler,
         HandlerFailed, SaveResult, PostReply, NoFollowUp, PostFollowUp, PostNotice, Working
    <3>3. jobs'[proc'.job].attempts = jobs[proc.job].attempts
      BY <2>1, <2>3
    <3> QED
      BY <1>n, <3>2, <3>3
  <2> QED
    BY <1>0, <2>1, <2>2, <2>3, NoticesStay
<1>2. CASE Mark
  <2>1. /\ proc.pc = "mark" /\ proc.job \in Req /\ faults' = faults /\ proc'.pc = "next"
        /\ jobs[proc.job].status \in {"running", "notify"}
    BY <1>0, <1>2, IdlePlace DEF Mark, noted, Idle, Pc, Working, IInv, Hands
  <2>2. /\ jobs'[proc.job].status = proc.end /\ jobs'[proc.job].attempts = jobs[proc.job].attempts
        /\ \A n \in Req \ {proc.job} : jobs'[n] = jobs[n] /\ ~InHand(n)
    BY <1>0, <1>2, <2>1 DEF Mark, Job, InHand
  <2>3. /\ jobs[proc.job].attempts \in Nat
        /\ jobs[proc.job].status = "running" => jobs[proc.job].attempts <= MaxAttempts + faults
    BY <1>0, <2>1 DEF Job, IInv, Attempted
  <2>4. jobs'[proc.job].status = "notify" => jobs[proc.job].attempts < 2 * MaxAttempts + faults
    BY <1>0, <2>1, <2>2, <2>3, Constants DEF NoticesCounted
  <2>5. ASSUME NEW n \in Req
        PROVE  /\ jobs'[n].attempts <= 2 * MaxAttempts + faults'
               /\ jobs'[n].status = "notify" => jobs'[n].attempts < 2 * MaxAttempts + faults'
    BY <2>1, <2>2, <2>4 DEF NoticesCounted
  <2> QED
    BY <2>1, <2>5 DEF NoticesCounted
<1>3. CASE Take
  <2>1. PICK n \in proc.todo :
          /\ jobs' = [jobs EXCEPT ![n].status = IF @ = "notify" THEN "notify" ELSE "running",
                                  ![n].attempts = Counted(jobs[n])]
          /\ proc' = [Idle("thread") EXCEPT !.todo = proc.todo \ {n}, !.job = n,
                                            !.result = jobs[n].saved]
    BY <1>3 DEF Take
  <2>2. /\ n \in Req /\ jobs[n].status \in Ready /\ faults' = faults /\ jobs[n].attempts \in Nat
        /\ proc.pc = "next"
    BY <1>0, <1>3 DEF IInv, Hands, Place, Take, noted, Job
  <2>3. proc'.pc = "thread" /\ proc'.job = n
    BY <1>0, <2>1, IdlePlace DEF Idle, Pc
  <2>4. /\ jobs'[n].attempts = jobs[n].attempts + 1
        /\ \A m \in Req \ {n} : jobs'[m] = jobs[m] /\ ~InHand(m)
    BY <1>0, <2>1, <2>2 DEF Counted, Job, InHand, Working
  <2>5. jobs[n].attempts < 2 * MaxAttempts + faults
    <3>1. jobs[n].status = "notify" => jobs[n].attempts < 2 * MaxAttempts + faults
      BY <2>2 DEF NoticesCounted, InHand, Working
    <3>2. jobs[n].status # "notify" => jobs[n].attempts < MaxAttempts + faults
      BY <2>2 DEF IInv, Attempted, Ready
    <3> QED
      BY <1>0, <2>2, <3>1, <3>2, Constants
  <2>6. ASSUME NEW m \in Req
        PROVE  /\ jobs'[m].attempts <= 2 * MaxAttempts + faults'
               /\ jobs'[m].status = "notify" /\ ~InHand(m)'
                    => jobs'[m].attempts < 2 * MaxAttempts + faults'
    <3>1. CASE m = n
      BY <1>0, <2>2, <2>3, <2>4, <2>5, <3>1, Constants DEF InHand, Working
    <3>2. CASE m # n
      BY <2>2, <2>4, <3>2 DEF NoticesCounted
    <3> QED
      BY <3>1, <3>2
  <2> QED
    BY <2>3, <2>6 DEF NoticesCounted
<1>4. CASE Start \/ FetchInbox \/ Ingest \/ Select \/ PassDone
  <2>1. PICK pc \in {"poll", "ingest", "select", "next"} : proc'.pc = pc
    BY <1>4, IdlePlace DEF Start, FetchInbox, Ingest, Select, PassDone, Idle, Pc
  <2>2. faults' = faults /\ proc.pc \notin Working
    BY <1>4 DEF Start, FetchInbox, Ingest, Select, PassDone, noted, Working
  <2>a. proc'.pc # "mark" /\ faults' \in Nat
    BY <1>0, <2>1, <2>2
  <2>b. \A n \in Req : InHand(n) => InHand(n)'
    BY <2>2 DEF InHand
  <2>3. CASE Ingest
    <3>1. \A n \in Req : jobs[n].status = "none" => jobs[n] = NoJob
      BY DEF IInv, Attempted
    <3>2. \A n \in Req : /\ jobs'[n].attempts = jobs[n].attempts
                         /\ jobs'[n].status = "notify" => jobs[n].status = "notify"
      BY <2>3, <3>1 DEF Ingest, NoJob
    <3>3. /\ \A n \in Req : jobs'[n].attempts = jobs[n].attempts
          /\ \A n \in Req : jobs'[n].status = "notify" => jobs[n].status = "notify"
      BY <3>2
    <3> QED
      BY <1>0, <2>2, <2>a, <2>b, <3>3, NoticesStay
  <2>4. CASE Start \/ FetchInbox \/ Select \/ PassDone
    <3>1. \A job \in Job : /\ Resumed(job).attempts = job.attempts
                           /\ Resumed(job).status = "notify" => job.status = "notify"
      BY DEF Resumed, Job
    <3>2. (jobs' = jobs) \/ jobs' = [n \in Req |-> Resumed(jobs[n])]
      BY <2>4 DEF Start, FetchInbox, Select, PassDone, db
    <3>3. \A n \in Req : /\ jobs'[n].attempts = jobs[n].attempts
                         /\ jobs'[n].status = "notify" => jobs[n].status = "notify"
      BY <1>0, <3>1, <3>2
    <3>4. /\ \A n \in Req : jobs'[n].attempts = jobs[n].attempts
          /\ \A n \in Req : jobs'[n].status = "notify" => jobs[n].status = "notify"
      BY <3>3
    <3> QED
      BY <1>0, <2>2, <2>a, <2>b, <3>4, NoticesStay
  <2> QED
    BY <1>4, <2>3, <2>4
<1>5. CASE Crash \/ WriteFailed
  <2>1. PICK pc \in {"poll", "down"} : proc'.pc = pc
    BY <1>5, IdlePlace DEF Crash, WriteFailed, Idle, Pc
  <2>2. faults' = faults + 1 /\ jobs' = jobs
    BY <1>5 DEF Crash, WriteFailed, db
  <2>3. /\ faults' \in Nat /\ proc'.pc # "mark"
        /\ \A n \in Req : jobs'[n].attempts = jobs[n].attempts
        /\ \A n \in Req : jobs'[n].status = "notify" => jobs[n].status = "notify"
    BY <1>0, <2>1, <2>2
  <2> QED
    BY <1>0, <2>2, <2>3, NoticesStay
<1>6. CASE \E n \in Req : BackoffOver(n)
  <2>1. proc' = proc /\ faults' = faults
    BY <1>6 DEF BackoffOver, noted
  <2>2. \A n \in Req : jobs'[n].status = jobs[n].status /\ jobs'[n].attempts = jobs[n].attempts
    BY <1>0, <1>6 DEF BackoffOver, Job
  <2>3. proc.pc = "mark" => proc.job \in Req
    BY <1>0 DEF Working
  <2> QED
    BY <1>0, <2>1, <2>2, <2>3 DEF NoticesCounted, InHand
<1>7. CASE \/ Arrive \/ ChangeTrust \/ UNCHANGED vars
           \/ (\E e \in wire : Late(e)) \/ \E n \in Req : HumanReply(n)
  BY <1>7 DEF Arrive, ChangeTrust, Late, HumanReply, vars, db, noted, NoticesCounted, InHand
<1> QED
  BY <1>1, <1>2, <1>3, <1>4, <1>5, <1>6, <1>7 DEF Next, Loop

\* The work done for one request is bounded, whatever fails and however often
\* (process_ready, finish, mark).
THEOREM EffortStaysBounded == Spec => []EffortIsBounded
<1>1. Init => NoticesCounted
  <2> SUFFICES ASSUME Init PROVE NoticesCounted
    OBVIOUS
  <2>1. proc.pc = "down"
    BY IdlePlace DEF Init, Pc
  <2>2. \A n \in Req : jobs[n].attempts = 0 /\ jobs[n].status = "none"
    BY DEF Init, NoJob
  <2>3. faults = 0 /\ 2 * MaxAttempts \in Nat
    BY Constants DEF Init
  <2> QED
    BY <2>1, <2>2, <2>3 DEF NoticesCounted
<1>2. IInv /\ NoticesCounted => EffortIsBounded
  BY DEF IInv, NoticesCounted, EffortIsBounded
<1> QED
  BY <1>1, <1>2, DispatcherInvariant, NoticesKept, PTL DEF Spec

\* What is left running is what no process has and what could not be written.
LeftRunning ==
    /\ proc.pc \notin Working => proc.job = 0
    /\ \A n \in Req : jobs[n].status = "running" =>
          n \in stranded \/ n = proc.job \/ proc.pc = "down"
    /\ \A n \in stranded : jobs[n].status = "running" /\ n # proc.job

LEMMA LeftRunningKept == IInv /\ LeftRunning /\ [Next]_vars => LeftRunning'
<1> SUFFICES ASSUME IInv, LeftRunning, [Next]_vars PROVE LeftRunning'
  OBVIOUS
<1>0. /\ proc \in Place /\ jobs \in [Req -> Job] /\ stranded \subseteq Req
      /\ 0 \notin Req /\ \A pc : Idle(pc).job = 0 /\ Idle(pc).pc = pc
  BY Facts DEF IInv, TypeOK, Idle, Req
<1>1. CASE Attempt /\ ~Mark
  <2>1. /\ proc'.job = proc.job /\ proc'.pc \in Working
        /\ \A n \in Req : jobs'[n].status = jobs[n].status
    BY <1>1, AttemptLeads
  <2>2. stranded' = stranded /\ proc.pc # "down"
    BY <1>1 DEF Attempt, NotTrusted, ThreadFailed, ReadThread, RunHandler, HandlerFailed,
       SaveResult, PostReply, NoFollowUp, PostFollowUp, PostNotice, noted
  <2> QED
    BY <1>0, <2>1, <2>2 DEF LeftRunning
<1>2. CASE Mark
  <2>1. /\ proc.pc = "mark" /\ proc.job \in Req /\ stranded' = stranded /\ proc'.job = 0
        /\ proc.end # "running"
    BY <1>0, <1>2, Facts DEF Mark, noted, Idle, IInv, Hands, EndFits, Working
  <2>2. /\ jobs'[proc.job].status = proc.end
        /\ \A n \in Req \ {proc.job} : jobs'[n] = jobs[n]
    BY <1>0, <1>2, <2>1 DEF Mark, Job
  <2>3. proc.pc # "down" /\ \A n \in stranded : n \in Req /\ jobs'[n] = jobs[n] /\ n # 0
    BY <1>0, <2>1, <2>2 DEF LeftRunning
  <2> QED
    BY <1>0, <2>1, <2>2, <2>3 DEF LeftRunning
<1>3. CASE Take
  <2>1. PICK n \in proc.todo :
          /\ jobs' = [jobs EXCEPT ![n].status = IF @ = "notify" THEN "notify" ELSE "running",
                                  ![n].attempts = Counted(jobs[n])]
          /\ proc' = [Idle("thread") EXCEPT !.todo = proc.todo \ {n}, !.job = n,
                                            !.result = jobs[n].saved]
    BY <1>3 DEF Take
  <2>2. /\ n \in Req /\ jobs[n].status \in Ready /\ stranded' = stranded
        /\ proc.pc = "next" /\ proc.job = 0
    BY <1>0, <1>3 DEF IInv, Hands, Place, Take, noted, LeftRunning, Working
  <2>3. proc'.pc = "thread" /\ proc'.job = n
    BY <2>1 DEF Idle
  <2>4. n \notin stranded /\ \A m \in Req \ {n} : jobs'[m] = jobs[m]
    BY <1>0, <2>1, <2>2 DEF LeftRunning, Ready
  <2> QED
    BY <1>0, <2>2, <2>3, <2>4 DEF LeftRunning, Working
<1>4. CASE Start
  <2>1. \A job \in Job : Resumed(job).status # "running"
    BY DEF Resumed, Job
  <2>2. stranded' = {} /\ proc'.job = 0 /\ jobs' = [n \in Req |-> Resumed(jobs[n])]
    BY <1>0, <1>4 DEF Start
  <2> QED
    BY <1>0, <2>1, <2>2 DEF LeftRunning
<1>5. CASE FetchInbox \/ Ingest \/ Select \/ PassDone
  <2>1. proc.pc # "down" /\ proc.job = 0 /\ proc'.job = 0 /\ stranded' = stranded
    BY <1>0, <1>5 DEF FetchInbox, Ingest, Select, PassDone, noted, Idle, LeftRunning, Working
  <2>2. \A n \in Req : jobs'[n].status = "running" <=> jobs[n].status = "running"
    BY <1>5 DEF FetchInbox, Ingest, Select, PassDone, db, NoJob
  <2> QED
    BY <1>0, <2>1, <2>2 DEF LeftRunning
<1>6. CASE Crash
  <2>1. proc'.job = 0 /\ proc'.pc = "down" /\ UNCHANGED <<jobs, stranded>>
    BY <1>0, <1>6 DEF Crash, db
  <2> QED
    BY <1>0, <2>1 DEF LeftRunning
<1>7. CASE WriteFailed
  <2>1. /\ proc'.job = 0 /\ jobs' = jobs /\ proc.pc # "down"
        /\ stranded' = stranded \cup
              {n \in {proc.job} \cap Req : proc.pc = "mark" /\ jobs[n].status = "running"}
    BY <1>0, <1>7 DEF WriteFailed, db
  <2>2. proc.pc # "mark" => proc.job = 0
    BY <1>7 DEF WriteFailed, LeftRunning, Working
  <2> QED
    BY <1>0, <2>1, <2>2 DEF LeftRunning
<1>8. CASE \E n \in Req : BackoffOver(n)
  <2>1. UNCHANGED <<proc, stranded>>
    BY <1>8 DEF BackoffOver, noted
  <2>2. \A n \in Req : jobs'[n].status = jobs[n].status
    BY <1>0, <1>8 DEF BackoffOver, Job
  <2> QED
    BY <1>0, <2>1, <2>2 DEF LeftRunning
<1>9. CASE \/ Arrive \/ ChangeTrust \/ UNCHANGED vars
           \/ (\E e \in wire : Late(e)) \/ \E n \in Req : HumanReply(n)
  BY <1>9 DEF Arrive, ChangeTrust, Late, HumanReply, vars, db, noted, LeftRunning
<1> QED
  BY <1>1, <1>2, <1>3, <1>4, <1>5, <1>6, <1>7, <1>8, <1>9 DEF Next, Loop

\* No request is lost between its arrival and its end: it is never left in a
\* status that no pass selects, but by an outcome that could not be written
\* (ingest, SQLITE_READY, run).
THEOREM NoneIsForgotten == Spec => []NoneForgotten
<1>1. Init => LeftRunning
  <2> SUFFICES ASSUME Init PROVE LeftRunning
    OBVIOUS
  <2>1. proc.job = 0 /\ stranded = {} /\ \A n \in Req : jobs[n].status = "none"
    BY DEF Init, Idle, NoJob
  <2> QED
    BY <2>1 DEF LeftRunning
<1>2. IInv /\ LeftRunning => NoneForgotten
  BY DEF IInv, LeftRunning, NoneForgotten
<1> QED
  BY <1>1, <1>2, DispatcherInvariant, LeftRunningKept, PTL DEF Spec

-----------------------------------------------------------------------------
(* Its requests, stage by stage.                                           *)

\* The requests as Service sees them.
StateNow == [n \in Req |-> Stage(jobs[n].status)]
AttemptsNow == [n \in Req |-> jobs[n].attempts]
ChosenNow == [n \in Req |-> jobs[n].saved.run]

\* One job's change, seen from there.
LEMMA JobMoves ==
    ASSUME NEW n \in Req, \A m \in Req \ {n} : jobs'[m] = jobs[m]
    PROVE  /\ StateNow' = [StateNow EXCEPT ![n] = Stage(jobs'[n].status)]
           /\ AttemptsNow' = [AttemptsNow EXCEPT ![n] = jobs'[n].attempts]
           /\ ChosenNow' = [ChosenNow EXCEPT ![n] = jobs'[n].saved.run]
           /\ Stage(jobs'[n].status) = Stage(jobs[n].status) => StateNow' = StateNow
           /\ jobs'[n].attempts = jobs[n].attempts => AttemptsNow' = AttemptsNow
           /\ jobs'[n].saved.run = jobs[n].saved.run => ChosenNow' = ChosenNow
BY DEF StateNow, AttemptsNow, ChosenNow

\* Nothing that Service sees changes.
Unseen == UNCHANGED <<StateNow, AttemptsNow, runs, ChosenNow, outbox, thread, trusted, barred, cursor>>

LEMMA UnseenStutters == Unseen => UNCHANGED ServiceOf!serviceVars
BY DEF Unseen, ServiceOf!serviceVars, StateNow, AttemptsNow, ChosenNow

LEMMA UnseenJobs ==
    ASSUME UNCHANGED <<jobs, runs, outbox, thread, trusted, barred, cursor>>
    PROVE  Unseen
BY DEF Unseen, StateNow, AttemptsNow, ChosenNow

\* Answered is what the thread shows.
LEMMA AnswersSeen == \A n : ServiceOf!Answered(n) <=> Answers(n) # {}
BY DEF ServiceOf!Answered, Answers

\* Steps that move jobs between statuses of one stage.
LEMMA WaitsUnseen ==
    ASSUME IInv, Start \/ \E n \in Req : BackoffOver(n)
    PROVE  Unseen
<1>1. jobs \in [Req -> Job]
  BY Facts
<1>2. \A n \in Req : /\ Stage(jobs'[n].status) = Stage(jobs[n].status)
                     /\ jobs'[n].attempts = jobs[n].attempts /\ jobs'[n].saved = jobs[n].saved
  <2>1. CASE Start
    <3>1. \A n \in Req : jobs[n] \in Job /\ jobs'[n] = Resumed(jobs[n])
      BY <1>1, <2>1 DEF Start
    <3>2. ASSUME NEW job \in Job
          PROVE  /\ Stage(Resumed(job).status) = Stage(job.status)
                 /\ Resumed(job).attempts = job.attempts /\ Resumed(job).saved = job.saved
      BY DEF Resumed, Stage, Job
    <3> QED
      BY <3>1, <3>2
  <2>2. CASE \E n \in Req : BackoffOver(n)
    BY <1>1, <2>2 DEF BackoffOver, Job
  <2> QED
    BY <2>1, <2>2
<1>3. UNCHANGED <<runs, outbox, thread, trusted, barred, cursor>>
  BY DEF Start, BackoffOver, noted
<1> QED
  BY <1>2, <1>3 DEF Unseen, StateNow, AttemptsNow, ChosenNow

LEMMA IngestReads == IInv /\ ReadInOrder /\ Ingest => ServiceOf!Read
<1> SUFFICES ASSUME IInv, ReadInOrder, Ingest PROVE ServiceOf!Read
  OBVIOUS
<1>1. /\ cursor' = proc.until /\ proc.pc = "ingest"
      /\ UNCHANGED <<outbox, thread, trusted, runs>>
      /\ cursor <= cursor'
  BY DEF Ingest, NextCursor, ReadInOrder
<1>t. cursor' \in Nat
  <2>1. proc.until \in {0} \cup Req
    BY Facts DEF Place
  <2> QED
    BY <1>1, <2>1, DispatcherAssumption DEF Req
<1> DEFINE new == {n \in Req : cursor < n /\ n <= cursor'}
<1>2. \A n \in Req : n \in new <=> n > cursor /\ n <= proc.until
  BY <1>1
<1>3. \A n \in new : jobs[n].status = "none" /\ jobs[n] = NoJob
  BY <1>2 DEF ReadInOrder, IInv, Attempted
<1>4. barred' = IF trusted THEN barred ELSE barred \cup new
  BY <1>1 DEF Ingest
<1>5. \A n \in Req :
        jobs'[n] = IF n \in new /\ trusted
                   THEN [NoJob EXCEPT !.status = IF n \in Sealed THEN "needs-human" ELSE "received"]
                   ELSE jobs[n]
  BY <1>2, <1>3 DEF Ingest
<1> HIDE DEF new
<1>6. \A n \in Req :
        /\ jobs'[n].attempts = jobs[n].attempts /\ jobs'[n].saved = jobs[n].saved
        /\ Stage(jobs'[n].status) = IF n \notin new \/ ~trusted THEN Stage(jobs[n].status)
                                    ELSE IF n \in Sealed THEN "done" ELSE "open"
  <2> SUFFICES ASSUME NEW n \in Req
               PROVE  /\ jobs'[n].attempts = jobs[n].attempts /\ jobs'[n].saved = jobs[n].saved
                      /\ Stage(jobs'[n].status) =
                            IF n \notin new \/ ~trusted THEN Stage(jobs[n].status)
                            ELSE IF n \in Sealed THEN "done" ELSE "open"
    OBVIOUS
  <2>1. CASE n \notin new \/ ~trusted
    BY <1>5, <2>1
  <2>2. CASE n \in new /\ trusted
    <3> DEFINE status == IF n \in Sealed THEN "needs-human" ELSE "received"
    <3>1. jobs'[n] = [NoJob EXCEPT !.status = status]
      BY <1>5, <2>2
    <3>2. /\ jobs'[n].status = status /\ jobs'[n].attempts = NoJob.attempts
          /\ jobs'[n].saved = NoJob.saved
      BY <3>1 DEF NoJob
    <3>3. Stage(status) = IF n \in Sealed THEN "done" ELSE "open"
      BY DEF Stage
    <3> QED
      BY <1>3, <2>2, <3>2, <3>3
  <2> QED
    BY <2>1, <2>2
<1>7. UNCHANGED <<AttemptsNow, ChosenNow>>
  BY <1>6 DEF AttemptsNow, ChosenNow
<1>8. StateNow' = [n \in Req |-> IF n \notin new \/ ~trusted THEN StateNow[n]
                                 ELSE IF n \in Sealed THEN "done" ELSE "open"]
  BY <1>6 DEF StateNow
<1> QED
  BY <1>1, <1>t, <1>4, <1>7, <1>8 DEF ServiceOf!Read, StateNow, AttemptsNow, ChosenNow, new

LEMMA TakeAttempts == IInv /\ Take => ServiceOf!Work
<1> SUFFICES ASSUME IInv, Take PROVE ServiceOf!Work
  OBVIOUS
<1>1. PICK n \in proc.todo :
        jobs' = [jobs EXCEPT ![n].status = IF @ = "notify" THEN "notify" ELSE "running",
                             ![n].attempts = Counted(jobs[n])]
  BY DEF Take
<1>2. n \in Req /\ jobs \in [Req -> Job] /\ jobs[n].status \in Ready
  BY Facts DEF IInv, Hands, Place
<1>3. /\ Stage(jobs'[n].status) = Stage(jobs[n].status) /\ Stage(jobs[n].status) \in {"open", "notify"}
      /\ jobs'[n].attempts = jobs[n].attempts + 1 /\ jobs'[n].saved = jobs[n].saved
      /\ \A m \in Req \ {n} : jobs'[m] = jobs[m]
  BY <1>1, <1>2 DEF Job, Stage, Ready, Counted
<1>4. /\ UNCHANGED <<StateNow, ChosenNow>>
      /\ AttemptsNow' = [AttemptsNow EXCEPT ![n] = AttemptsNow[n] + 1]
      /\ StateNow[n] \in {"open", "notify"}
  BY <1>2, <1>3, JobMoves DEF AttemptsNow, StateNow
<1>5. UNCHANGED <<outbox, thread, trusted, barred, cursor, runs>>
  BY DEF Take, noted
<1>6. ServiceOf!Attempt(n)
  BY <1>4, <1>5 DEF ServiceOf!Attempt, StateNow, AttemptsNow, ChosenNow
<1> QED
  BY <1>2, <1>5, <1>6 DEF ServiceOf!Work

\* A step of an attempt that only the process sees.
LEMMA AttemptUnseen ==
    ASSUME ThreadFailed \/ ReadThread \/ NoFollowUp
    PROVE  Unseen
<1>1. UNCHANGED <<jobs, runs, outbox, thread, trusted, barred, cursor>>
  BY DEF ThreadFailed, ReadThread, NoFollowUp, db, noted
<1> QED
  BY <1>1, UnseenJobs

LEMMA NotTrustedDrops == IInv /\ NotTrusted => Unseen \/ ServiceOf!Drop
<1> SUFFICES ASSUME IInv, NotTrusted PROVE Unseen \/ ServiceOf!Drop
  OBVIOUS
<1>1. /\ UNCHANGED <<jobs, runs, outbox, thread, trusted, cursor>> /\ ~trusted
      /\ proc.pc = "thread" /\ proc.job \in Req
  BY Facts DEF NotTrusted, db
<1>2. CASE jobs[proc.job].status = "notify"
  <2>1. barred' = barred \cup {proc.job} /\ proc.job \in barred'
    BY <1>2 DEF NotTrusted
  <2>2. Stage(jobs[proc.job].status) = "notify"
    BY <1>2 DEF Stage
  <2> QED
    BY <1>1, <2>1, <2>2 DEF ServiceOf!Drop
<1>3. CASE jobs[proc.job].status # "notify"
  <2>1. barred' = barred
    BY <1>3 DEF NotTrusted
  <2> QED
    BY <1>1, <2>1, UnseenJobs
<1> QED
  BY <1>2, <1>3

LEMMA RunTries == IInv /\ (RunHandler \/ HandlerFailed) => ServiceOf!Work
<1> SUFFICES ASSUME IInv, RunHandler \/ HandlerFailed PROVE ServiceOf!Work
  OBVIOUS
<1> DEFINE n == proc.job
<1>1. /\ proc.pc = "handler" /\ runs' = [runs EXCEPT ![n] = @ + 1]
      /\ UNCHANGED <<jobs, outbox, thread, trusted, barred, cursor>>
  BY DEF RunHandler, HandlerFailed, db, noted
<1>2. n \in Req /\ jobs[n].status = "running" /\ jobs[n].saved = NoResult
      /\ runs[n] < jobs[n].attempts
  <2>1. n \in Req /\ jobs[n].status = "running" /\ jobs[n].saved = NoResult /\ InHand(n)
    BY <1>1 DEF IInv, Hands, Working, Answering, InHand
  <2> QED
    BY <1>1, <2>1 DEF IInv, Attempted
<1>3. StateNow[n] = "open" /\ ChosenNow[n] = 0 /\ runs[n] < AttemptsNow[n]
  BY <1>2 DEF StateNow, ChosenNow, AttemptsNow, Stage, NoResult
<1>4. UNCHANGED <<StateNow, ChosenNow, AttemptsNow>>
  BY <1>1 DEF StateNow, ChosenNow, AttemptsNow
<1> HIDE DEF n
<1>5. ServiceOf!Try(n)
  BY <1>1, <1>3, <1>4 DEF ServiceOf!Try, StateNow, ChosenNow, AttemptsNow
<1> QED
  BY <1>1, <1>2, <1>5 DEF ServiceOf!Work

LEMMA SaveChooses == IInv /\ Concludes /\ SaveResult => ServiceOf!Work
<1> SUFFICES ASSUME IInv, Concludes, SaveResult PROVE ServiceOf!Work
  OBVIOUS
<1>n. PICK n \in Req : n = proc.job
  BY Facts DEF SaveResult, Working
<1>1. proc.pc = "save" /\ jobs' = [jobs EXCEPT ![n].saved = proc.result]
  BY <1>n DEF SaveResult, Saved
<1>u. UNCHANGED <<runs, outbox, thread, trusted, barred, cursor>>
  BY DEF SaveResult, noted
<1>2. /\ jobs[n].status = "running" /\ jobs[n].saved = NoResult
      /\ proc.result.run >= 1 /\ proc.result.run = runs[n]
      /\ jobs \in [Req -> Job] /\ runs \in [Req -> Nat]
  BY <1>1, <1>n, Facts DEF IInv, Hands, Working, Answering, Concludes
<1>3. /\ jobs'[n].saved = proc.result /\ jobs'[n].status = jobs[n].status
      /\ jobs'[n].attempts = jobs[n].attempts
      /\ \A m \in Req \ {n} : jobs'[m] = jobs[m]
  BY <1>1, <1>2 DEF Job
<1>b. /\ UNCHANGED <<StateNow, AttemptsNow>>
      /\ ChosenNow' = [ChosenNow EXCEPT ![n] = runs[n]]
  BY <1>2, <1>3, JobMoves
<1>c. StateNow[n] = "open" /\ ChosenNow[n] = 0 /\ runs[n] # 0
  BY <1>2 DEF StateNow, ChosenNow, Stage, NoResult
<1>4. ServiceOf!Choose(n)
  BY <1>u, <1>b, <1>c DEF ServiceOf!Choose, StateNow, ChosenNow, AttemptsNow
<1> QED
  BY <1>u, <1>4 DEF ServiceOf!Work

LEMMA MarkMoves == IInv /\ Concludes /\ Mark => Unseen \/ ServiceOf!Work
<1> SUFFICES ASSUME IInv, Concludes, Mark PROVE Unseen \/ ServiceOf!Work
  OBVIOUS
<1> DEFINE n == proc.job
           job == jobs[n]
<1>1. /\ proc.pc = "mark" /\ UNCHANGED <<runs, outbox, thread, trusted, barred, cursor>>
      /\ n \in Req /\ jobs \in [Req -> Job] /\ job.status \in {"running", "notify"}
      /\ EndFits
  BY Facts DEF Mark, noted, IInv, Hands, Working
<1>2. /\ jobs'[n].status = proc.end /\ jobs'[n].attempts = job.attempts /\ jobs'[n].saved = job.saved
      /\ \A m \in Req \ {n} : jobs'[m] = jobs[m]
  BY <1>1 DEF Mark, Job
<1>3. /\ UNCHANGED <<ChosenNow, AttemptsNow>>
      /\ StateNow' = [StateNow EXCEPT ![n] = Stage(proc.end)]
      /\ Stage(proc.end) = Stage(job.status) => UNCHANGED StateNow
  BY <1>1, <1>2, JobMoves
<1>4. CASE Stage(proc.end) = Stage(job.status)
  BY <1>1, <1>3, <1>4 DEF Unseen
<1>5. CASE Stage(proc.end) # Stage(job.status)
  <2>1. AttemptsNow[n] = job.attempts /\ StateNow[n] = Stage(job.status)
    BY <1>1 DEF AttemptsNow, StateNow
  <2>2. \/ job.status = "running" /\ proc.end \in {"notify", "completed", "needs-human"}
        \/ job.status = "notify" /\ proc.end = "failed"
    BY <1>1, <1>5 DEF EndFits, Stage
  <2>3. CASE job.status = "running" /\ proc.end = "notify"
    <3>1. ServiceOf!GiveUp(n)
      BY <1>1, <1>3, <2>1, <2>3 DEF Concludes, Stage, ServiceOf!GiveUp, ServiceOf!Move,
         StateNow, AttemptsNow, ChosenNow
    <3> QED
      BY <1>1, <3>1 DEF ServiceOf!Work
  <2>4. CASE job.status = "running" /\ proc.end \in {"completed", "needs-human"}
    <3>1. ServiceOf!Answered(n)
      BY <1>1, <2>4, AnswersSeen DEF EndFits, Settled
    <3>2. ServiceOf!Finish(n)
      BY <1>1, <1>3, <2>1, <2>4, <3>1 DEF Stage, ServiceOf!Finish, ServiceOf!Move,
         StateNow, AttemptsNow, ChosenNow
    <3> QED
      BY <1>1, <3>2 DEF ServiceOf!Work
  <2>5. CASE job.status = "notify" /\ proc.end = "failed"
    <3>1. ServiceOf!Answered(n) \/ n \in barred \/ AttemptsNow[n] >= 2 * MaxAttempts
      BY <1>1, <2>1, <2>5, AnswersSeen DEF EndFits, Settled
    <3>2. ServiceOf!Fail(n)
      BY <1>1, <1>3, <2>1, <2>5, <3>1 DEF Stage, ServiceOf!Fail, ServiceOf!Move,
         StateNow, AttemptsNow, ChosenNow
    <3> QED
      BY <1>1, <3>2 DEF ServiceOf!Work
  <2> QED
    BY <2>2, <2>3, <2>4, <2>5
<1> QED
  BY <1>4, <1>5

\* A send makes its envelope, or one made before is sent again.
LEMMA SendMakes ==
    ASSUME IInv, NEW n \in Req, NEW kind \in {"reply", "follow", "notice"}, NEW text \in Nat,
           NEW e \in Prepared(n, kind, text), Sent(e) \/ SendFailed(e),
           UNCHANGED <<jobs, runs, trusted, barred, cursor>>,
           kind = "notice" => text = 0 /\ jobs[n].status = "notify",
           kind \in {"reply", "follow"} =>
               text >= 1 /\ text = jobs[n].saved.run /\ jobs[n].status = "running",
           kind = "follow" => Answers(n) # {}
    PROVE  Unseen \/ ServiceOf!Make
<1>1. /\ e \in Envelope /\ e.re = n /\ e.kind = kind /\ e.text = text
      /\ \A d \in outbox : d.re = n /\ d.kind = kind /\ d.text = text => d = e
  BY PreparedIsEnvelope
<1>2. \A d \in outbox : d.re = e.re /\ d.kind = e.kind => d = e
  <2>1. \A d \in outbox : d.re = e.re /\ d.kind = e.kind => d.text = e.text
    BY <1>1 DEF IInv, Posted
  <2> QED
    BY <1>1, <2>1
<1>3. ServiceOf!Allowed(e)
  <2>1. kind = "notice" => StateNow[n] = "notify"
    BY DEF StateNow, Stage
  <2>2. kind # "notice" => StateNow[n] = "open" /\ ChosenNow[n] = text /\ text # 0
    BY DEF StateNow, ChosenNow, Stage
  <2>3. kind = "follow" => ServiceOf!Answered(n)
    BY AnswersSeen
  <2> QED
    BY <1>1, <2>1, <2>2, <2>3 DEF ServiceOf!Allowed, StateNow, ChosenNow
<1>4. UNCHANGED <<StateNow, AttemptsNow, ChosenNow, runs, trusted, barred, cursor>>
  BY DEF StateNow, AttemptsNow, ChosenNow
<1>5. CASE UNCHANGED <<outbox, thread>>
  BY <1>4, <1>5 DEF Unseen
<1>6. CASE outbox' = outbox \cup {e} /\ (thread' = thread \/ thread' = thread \cup {e})
  BY <1>2, <1>3, <1>4, <1>6 DEF ServiceOf!Make, StateNow, AttemptsNow, ChosenNow
<1> QED
  BY <1>5, <1>6 DEF Sent, SendFailed

LEMMA PostsMake == IInv /\ (PostReply \/ PostFollowUp \/ PostNotice) => Unseen \/ ServiceOf!Make
<1> SUFFICES ASSUME IInv, PostReply \/ PostFollowUp \/ PostNotice PROVE Unseen \/ ServiceOf!Make
  OBVIOUS
<1>n. PICK n \in Req : n = proc.job
  BY Facts DEF PostReply, PostFollowUp, PostNotice, Working
<1>1. UNCHANGED <<jobs, runs, trusted, barred, cursor>>
  BY DEF PostReply, PostFollowUp, PostNotice, noted
<1>2. CASE PostReply \/ PostFollowUp
  <2>1. PICK kind \in {"reply", "follow"} :
          /\ proc.pc = kind
          /\ \E e \in Prepared(n, kind, proc.result.run) : Sent(e) \/ SendFailed(e)
    BY <1>n, <1>2 DEF PostReply, PostFollowUp
  <2>t. PICK text \in Nat : text = proc.result.run
    BY Facts DEF Place, Result
  <2>2. /\ text >= 1 /\ text = jobs[n].saved.run /\ jobs[n].status = "running"
        /\ kind = "follow" => Answers(n) # {}
    BY <1>n, <2>1, <2>t DEF IInv, Hands, Answering
  <2>3. PICK e \in Prepared(n, kind, text) : Sent(e) \/ SendFailed(e)
    BY <2>1, <2>t
  <2> QED
    BY <1>1, <2>2, <2>3, SendMakes
<1>3. CASE PostNotice
  <2>1. proc.pc = "notify" /\ \E e \in Prepared(n, "notice", 0) : Sent(e) \/ SendFailed(e)
    BY <1>n, <1>3 DEF PostNotice
  <2>2. jobs[n].status = "notify"
    BY <1>n, <2>1 DEF IInv, Hands
  <2> QED
    BY <1>1, <2>1, <2>2, SendMakes
<1> QED
  BY <1>2, <1>3

LEMMA WorldShows ==
    ASSUME IInv, (\E e \in wire : Late(e)) \/ (\E n \in Req : HumanReply(n))
    PROVE  Unseen \/ ServiceOf!Show
<1>1. UNCHANGED <<jobs, runs, outbox, trusted, barred, cursor>>
  BY DEF Late, HumanReply, db, noted
<1>2. UNCHANGED <<StateNow, AttemptsNow, ChosenNow>>
  BY <1>1 DEF StateNow, AttemptsNow, ChosenNow
<1>3. thread' = thread \/ \E e \in thread' : (e \in outbox \/ e.kind = "human") /\ thread' = thread \cup {e}
  <2>1. CASE \E e \in wire : Late(e)
    BY <2>1 DEF Late, IInv, Posted
  <2>2. CASE \E n \in Req : HumanReply(n)
    BY <2>2 DEF HumanReply
  <2> QED
    BY <2>1, <2>2
<1>4. CASE thread' = thread
  BY <1>1, <1>2, <1>4 DEF Unseen
<1>5. CASE \E e \in thread' : (e \in outbox \/ e.kind = "human") /\ thread' = thread \cup {e}
  BY <1>1, <1>2, <1>5 DEF ServiceOf!Show, StateNow, AttemptsNow, ChosenNow
<1> QED
  BY <1>3, <1>4, <1>5

\* Every step is one of Service's, or none.
LEMMA StepServes ==
    IInv /\ ReadInOrder /\ Concludes /\ [Next]_vars => [ServiceOf!ServiceNext]_(ServiceOf!serviceVars)
<1> SUFFICES ASSUME IInv, ReadInOrder, Concludes, [Next]_vars
             PROVE  ServiceOf!ServiceNext \/ UNCHANGED ServiceOf!serviceVars
  OBVIOUS
<1>1. Unseen => UNCHANGED ServiceOf!serviceVars
  BY UnseenStutters
<1>2. CASE Attempt
  <2>1. CASE ThreadFailed \/ ReadThread \/ NoFollowUp
    BY <1>1, <2>1, AttemptUnseen
  <2>2. CASE NotTrusted
    BY <1>1, <2>2, NotTrustedDrops DEF ServiceOf!ServiceNext
  <2>3. CASE RunHandler \/ HandlerFailed
    BY <2>3, RunTries DEF ServiceOf!ServiceNext
  <2>4. CASE SaveResult
    BY <2>4, SaveChooses DEF ServiceOf!ServiceNext
  <2>5. CASE PostReply \/ PostFollowUp \/ PostNotice
    BY <1>1, <2>5, PostsMake DEF ServiceOf!ServiceNext
  <2>6. CASE Mark
    BY <1>1, <2>6, MarkMoves DEF ServiceOf!ServiceNext
  <2> QED
    BY <1>2, <2>1, <2>2, <2>3, <2>4, <2>5, <2>6 DEF Attempt
<1>3. CASE Start \/ \E n \in Req : BackoffOver(n)
  BY <1>1, <1>3, WaitsUnseen
<1>4. CASE FetchInbox \/ Select \/ PassDone \/ Crash \/ WriteFailed \/ Arrive \/ UNCHANGED vars
  <2>1. UNCHANGED <<jobs, runs, outbox, thread, trusted, barred, cursor>>
    BY <1>4 DEF FetchInbox, Select, PassDone, Crash, WriteFailed, Arrive, vars, db, noted
  <2> QED
    BY <1>1, <2>1, UnseenJobs
<1>5. CASE Ingest
  BY <1>5, IngestReads DEF ServiceOf!ServiceNext
<1>6. CASE Take
  BY <1>6, TakeAttempts DEF ServiceOf!ServiceNext
<1>7. CASE (\E e \in wire : Late(e)) \/ \E n \in Req : HumanReply(n)
  BY <1>1, <1>7, WorldShows DEF ServiceOf!ServiceNext
<1>8. CASE ChangeTrust
  <2>1. trusted' = ~trusted /\ UNCHANGED <<jobs, runs, outbox, thread, barred, cursor>>
    BY <1>8 DEF ChangeTrust, db, noted
  <2>2. ServiceOf!ChangeTrust
    BY <2>1 DEF ServiceOf!ChangeTrust
  <2> QED
    BY <2>2 DEF ServiceOf!ServiceNext
<1> QED
  BY <1>2, <1>3, <1>4, <1>5, <1>6, <1>7, <1>8 DEF Next, Loop

LEMMA InitServes == Init => ServiceOf!ServiceInit
BY DEF Init, ServiceOf!ServiceInit, Stage, NoJob, NoResult

\* The dispatcher implements Service: crashes and restarts, lost and late
\* answers, repeated passes and waits are no more than steps of it or none
\* (run, ingest, process_ready, execute, notify_failure, outbox::reserve).
THEOREM DispatcherImplementsService == Spec => ImplementsService
<1>1. Init => ReadInOrder /\ Concludes
  <2>1. ASSUME Init PROVE proc.pc = "down"
    BY <2>1, IdlePlace DEF Init, Pc
  <2> QED
    BY <2>1, Constants DEF Init, ReadInOrder, Concludes, NoJob
<1> QED
  BY <1>1, DispatcherInvariant, OrderKept, ConcludesKept, StepServes, InitServes, PTL
     DEF Spec, ImplementsService, ServiceOf!ServiceSpec

-----------------------------------------------------------------------------
(* What Service promises, from its own steps alone.                        *)

\* One step of the work moves one request.
LEMMA WorkMoves ==
    ASSUME ServiceOf!ServiceTypeOK, ServiceOf!Work
    PROVE  /\ UNCHANGED <<outbox, thread, trusted, barred, cursor>>
           /\ \E n \in Req :
                 /\ \A m \in Req \ {n} :
                       /\ StateNow'[m] = StateNow[m] /\ AttemptsNow'[m] = AttemptsNow[m]
                       /\ ChosenNow'[m] = ChosenNow[m] /\ runs'[m] = runs[m]
                 /\ StateNow[n] \in {"open", "notify"}
                 /\ StateNow[n] = "notify" => StateNow'[n] \in {"notify", "failed"}
                 /\ StateNow'[n] \in ServiceOf!State
                 /\ AttemptsNow'[n] \in Nat /\ ChosenNow'[n] \in Nat
                 /\ StateNow[n] = "notify" \/ ChosenNow[n] # 0 => runs'[n] = runs[n]
                 /\ ChosenNow[n] # 0 => ChosenNow'[n] = ChosenNow[n]
           /\ runs' \in [Req -> Nat]
<1>1. PICK n \in Req :
        \/ ServiceOf!Attempt(n) \/ ServiceOf!Try(n) \/ ServiceOf!Choose(n)
        \/ ServiceOf!Finish(n) \/ ServiceOf!GiveUp(n) \/ ServiceOf!Fail(n)
  BY DEF ServiceOf!Work
<1>2. UNCHANGED <<outbox, thread, trusted, barred, cursor>>
  BY DEF ServiceOf!Work
<1>3. /\ StateNow \in [Req -> ServiceOf!State] /\ AttemptsNow \in [Req -> Nat]
      /\ ChosenNow \in [Req -> Nat] /\ runs \in [Req -> Nat]
  BY DEF ServiceOf!ServiceTypeOK, StateNow, AttemptsNow, ChosenNow
<1>4. CASE ServiceOf!Attempt(n)
  <2>1. /\ StateNow[n] \in {"open", "notify"} /\ UNCHANGED <<StateNow, runs, ChosenNow>>
        /\ AttemptsNow' = [AttemptsNow EXCEPT ![n] = @ + 1]
    BY <1>4 DEF ServiceOf!Attempt, StateNow, AttemptsNow, ChosenNow
  <2> QED
    BY <1>2, <1>3, <2>1
<1>5. CASE ServiceOf!Try(n)
  <2>1. /\ StateNow[n] = "open" /\ ChosenNow[n] = 0 /\ UNCHANGED <<StateNow, AttemptsNow, ChosenNow>>
        /\ runs' = [runs EXCEPT ![n] = @ + 1]
    BY <1>5 DEF ServiceOf!Try, StateNow, AttemptsNow, ChosenNow
  <2> QED
    BY <1>2, <1>3, <2>1
<1>6. CASE ServiceOf!Choose(n)
  <2>1. /\ StateNow[n] = "open" /\ ChosenNow[n] = 0 /\ UNCHANGED <<StateNow, AttemptsNow, runs>>
        /\ ChosenNow' = [ChosenNow EXCEPT ![n] = runs[n]]
    BY <1>6 DEF ServiceOf!Choose, StateNow, AttemptsNow, ChosenNow
  <2> QED
    BY <1>2, <1>3, <2>1
<1>7. CASE ServiceOf!Finish(n) \/ ServiceOf!GiveUp(n) \/ ServiceOf!Fail(n)
  <2>1. PICK from \in {"open", "notify"}, to \in {"done", "notify", "failed"} :
          /\ StateNow[n] = from /\ (from = "notify" => to = "failed")
          /\ StateNow' = [StateNow EXCEPT ![n] = to] /\ UNCHANGED <<AttemptsNow, runs, ChosenNow>>
    BY <1>7 DEF ServiceOf!Finish, ServiceOf!GiveUp, ServiceOf!Fail, ServiceOf!Move,
       StateNow, AttemptsNow, ChosenNow
  <2>2. to \in ServiceOf!State
    BY DEF ServiceOf!State
  <2> QED
    BY <1>2, <1>3, <2>1, <2>2
<1> QED
  BY <1>1, <1>4, <1>5, <1>6, <1>7

\* The other steps leave all that is known of a request but its first stage.
LEMMA OthersLeave ==
    ASSUME \/ ServiceOf!Make \/ ServiceOf!Show \/ ServiceOf!ChangeTrust \/ ServiceOf!Drop
           \/ UNCHANGED ServiceOf!serviceVars
    PROVE  UNCHANGED <<StateNow, AttemptsNow, ChosenNow, runs>>
BY DEF ServiceOf!Make, ServiceOf!Show, ServiceOf!ChangeTrust, ServiceOf!Drop,
   ServiceOf!serviceVars, StateNow, AttemptsNow, ChosenNow

LEMMA ReadLooks ==
    ASSUME ServiceOf!Read
    PROVE  /\ UNCHANGED <<outbox, thread, trusted, AttemptsNow, ChosenNow, runs>>
           /\ cursor' \in Nat /\ cursor <= cursor'
           /\ \A n \in Req : StateNow'[n] = StateNow[n]
                             \/ (cursor < n /\ n <= cursor' /\ StateNow'[n] \in {"open", "done"})
<1>1. /\ UNCHANGED <<outbox, thread, trusted, AttemptsNow, ChosenNow, runs>>
      /\ cursor' \in Nat /\ cursor <= cursor'
  BY DEF ServiceOf!Read, AttemptsNow, ChosenNow
<1>2. StateNow' = [n \in Req |->
        IF n \notin {m \in Req : cursor < m /\ m <= cursor'} \/ ~trusted THEN StateNow[n]
        ELSE IF n \in Sealed THEN "done" ELSE "open"]
  BY DEF ServiceOf!Read, StateNow
<1> QED
  BY <1>1, <1>2

LEMMA ServiceTyped ==
    ServiceOf!ServiceTypeOK /\ [ServiceOf!ServiceNext]_(ServiceOf!serviceVars)
        => ServiceOf!ServiceTypeOK'
<1> SUFFICES ASSUME ServiceOf!ServiceTypeOK,
                    ServiceOf!ServiceNext \/ UNCHANGED ServiceOf!serviceVars
             PROVE  ServiceOf!ServiceTypeOK'
  OBVIOUS
<1>1. /\ StateNow \in [Req -> ServiceOf!State] /\ AttemptsNow \in [Req -> Nat]
      /\ ChosenNow \in [Req -> Nat] /\ runs \in [Req -> Nat] /\ cursor \in Nat
  BY DEF ServiceOf!ServiceTypeOK, StateNow, AttemptsNow, ChosenNow
<1>2. /\ runs' \in [Req -> Nat] /\ cursor' \in Nat
      /\ \A n \in Req : /\ StateNow'[n] \in ServiceOf!State
                        /\ AttemptsNow'[n] \in Nat /\ ChosenNow'[n] \in Nat
  <2>1. CASE ServiceOf!Work
    BY <1>1, <2>1, WorkMoves
  <2>2. CASE ServiceOf!Read
    BY <1>1, <2>2, ReadLooks DEF ServiceOf!State
  <2>3. CASE \/ ServiceOf!Make \/ ServiceOf!Show \/ ServiceOf!ChangeTrust \/ ServiceOf!Drop
             \/ UNCHANGED ServiceOf!serviceVars
    <3>1. cursor' = cursor
      BY <2>3 DEF ServiceOf!Make, ServiceOf!Show, ServiceOf!ChangeTrust, ServiceOf!Drop,
         ServiceOf!serviceVars
    <3> QED
      BY <1>1, <2>3, <3>1, OthersLeave
  <2> QED
    BY <2>1, <2>2, <2>3 DEF ServiceOf!ServiceNext
<1> QED
  BY <1>2 DEF ServiceOf!ServiceTypeOK, StateNow, AttemptsNow, ChosenNow

LEMMA UnreadKept ==
    /\ ServiceOf!ServiceTypeOK /\ ServiceOf!UnreadWaits
    /\ [ServiceOf!ServiceNext]_(ServiceOf!serviceVars)
    => ServiceOf!UnreadWaits'
<1> SUFFICES ASSUME ServiceOf!ServiceTypeOK, ServiceOf!UnreadWaits,
                    ServiceOf!ServiceNext \/ UNCHANGED ServiceOf!serviceVars,
                    NEW n \in Req, cursor' < n
             PROVE  StateNow'[n] = "none"
  BY DEF ServiceOf!UnreadWaits, StateNow
<1>1. cursor \in Nat /\ n \in Nat
  BY Constants DEF ServiceOf!ServiceTypeOK
<1>2. cursor < n => StateNow[n] = "none"
  BY DEF ServiceOf!UnreadWaits, StateNow
<1>3. CASE ServiceOf!Work
  BY <1>2, <1>3, WorkMoves
<1>4. CASE ServiceOf!Read
  BY <1>1, <1>2, <1>4, ReadLooks
<1>5. CASE \/ ServiceOf!Make \/ ServiceOf!Show \/ ServiceOf!ChangeTrust \/ ServiceOf!Drop
           \/ UNCHANGED ServiceOf!serviceVars
  <2>1. cursor' = cursor
    BY <1>5 DEF ServiceOf!Make, ServiceOf!Show, ServiceOf!ChangeTrust, ServiceOf!Drop,
       ServiceOf!serviceVars
  <2> QED
    BY <1>2, <1>5, <2>1, OthersLeave
<1> QED
  BY <1>3, <1>4, <1>5 DEF ServiceOf!ServiceNext

LEMMA MadeKept ==
    /\ ServiceOf!ServiceTypeOK /\ ServiceOf!OneIsMade
    /\ [ServiceOf!ServiceNext]_(ServiceOf!serviceVars)
    => ServiceOf!OneIsMade'
<1> SUFFICES ASSUME ServiceOf!ServiceTypeOK, ServiceOf!OneIsMade,
                    ServiceOf!ServiceNext \/ UNCHANGED ServiceOf!serviceVars
             PROVE  ServiceOf!OneIsMade'
  OBVIOUS
<1>1. /\ \A d, e \in outbox : d.re = e.re /\ d.kind = e.kind => d = e
      /\ \A e \in outbox : e.re \in Req
      /\ \A e \in outbox : e.kind # "notice" => e.text = ChosenNow[e.re] /\ ChosenNow[e.re] # 0
      /\ \A e \in thread : e \in outbox \/ e.kind = "human"
  BY DEF ServiceOf!OneIsMade, ChosenNow
<1>2. /\ \A d, e \in outbox' : d.re = e.re /\ d.kind = e.kind => d = e
      /\ \A e \in outbox' : e.re \in Req
      /\ \A e \in outbox' : e.kind # "notice" => e.text = ChosenNow'[e.re] /\ ChosenNow'[e.re] # 0
      /\ \A e \in thread' : e \in outbox' \/ e.kind = "human"
  <2>1. CASE ServiceOf!Work
    <3>1. \A n \in Req : ChosenNow[n] # 0 => ChosenNow'[n] = ChosenNow[n]
      BY <2>1, WorkMoves
    <3> QED
      BY <1>1, <2>1, <3>1, WorkMoves
  <2>2. CASE ServiceOf!Read
    BY <1>1, <2>2, ReadLooks
  <2>3. CASE ServiceOf!Make
    <3>1. PICK e \in outbox' :
            /\ outbox' = outbox \cup {e} /\ e.re \in Req
            /\ \A d \in outbox : d.re = e.re /\ d.kind = e.kind => d = e
            /\ e.kind # "notice" => e.text = ChosenNow[e.re] /\ ChosenNow[e.re] # 0
            /\ thread' \subseteq thread \cup {e}
      BY <2>3 DEF ServiceOf!Make, ServiceOf!Allowed, ChosenNow
    <3>2. ChosenNow' = ChosenNow
      BY <2>3, OthersLeave
    <3> QED
      BY <1>1, <3>1, <3>2
  <2>4. CASE ServiceOf!Show \/ ServiceOf!ChangeTrust \/ ServiceOf!Drop \/ UNCHANGED ServiceOf!serviceVars
    <3>1. /\ outbox' = outbox
          /\ \A e \in thread' : e \in thread \cup outbox \/ e.kind = "human"
      BY <2>4 DEF ServiceOf!Show, ServiceOf!ChangeTrust, ServiceOf!Drop, ServiceOf!serviceVars
    <3>2. ChosenNow' = ChosenNow
      BY <2>4, OthersLeave
    <3> QED
      BY <1>1, <3>1, <3>2
  <2> QED
    BY <2>1, <2>2, <2>3, <2>4 DEF ServiceOf!ServiceNext
<1> QED
  BY <1>2 DEF ServiceOf!OneIsMade, ChosenNow

LEMMA ServiceStarts ==
    ServiceOf!ServiceInit =>
        ServiceOf!ServiceTypeOK /\ ServiceOf!UnreadWaits /\ ServiceOf!OneIsMade
BY DEF ServiceOf!ServiceInit, ServiceOf!ServiceTypeOK, ServiceOf!UnreadWaits, ServiceOf!OneIsMade,
   ServiceOf!State

\* Of Service alone: one envelope of a kind is made for a request, the
\* chosen result in it, and nothing else of the service's is in a thread.
THEOREM ServiceMakesOne == ServiceOf!ServiceSpec => []ServiceOf!OneIsMade
BY ServiceStarts, ServiceTyped, MadeKept, PTL DEF ServiceOf!ServiceSpec

\* What is not worked on does not move.
LEMMA StepsOfOne ==
    ASSUME ServiceOf!ServiceTypeOK, ServiceOf!UnreadWaits,
           ServiceOf!ServiceNext \/ UNCHANGED ServiceOf!serviceVars, NEW n \in Req
    PROVE  /\ ChosenNow[n] # 0 => ChosenNow'[n] = ChosenNow[n] /\ runs'[n] = runs[n]
           /\ StateNow[n] \in ServiceOf!Over =>
                 /\ StateNow'[n] = StateNow[n] /\ AttemptsNow'[n] = AttemptsNow[n]
                 /\ runs'[n] = runs[n]
           /\ StateNow[n] = "notify" =>
                 StateNow'[n] \in {"notify", "failed"} /\ runs'[n] = runs[n]
<1>1. CASE ServiceOf!Work
  BY <1>1, WorkMoves DEF ServiceOf!Over
<1>2. CASE ServiceOf!Read
  <2>1. cursor < n => StateNow[n] = "none"
    BY DEF ServiceOf!UnreadWaits, StateNow
  <2> QED
    BY <1>2, <2>1, ReadLooks DEF ServiceOf!Over
<1>3. CASE \/ ServiceOf!Make \/ ServiceOf!Show \/ ServiceOf!ChangeTrust \/ ServiceOf!Drop
           \/ UNCHANGED ServiceOf!serviceVars
  BY <1>3, OthersLeave
<1> QED
  BY <1>1, <1>2, <1>3 DEF ServiceOf!ServiceNext

\* A result that was saved is never replaced, and no handler runs for its
\* request any more, whatever dies or fails after (execute, save_result).
THEOREM SavedResultsStand == Spec => ServiceOf!ChosenStands
<1>1. ServiceOf!ServiceTypeOK /\ ServiceOf!UnreadWaits
         /\ [ServiceOf!ServiceNext]_(ServiceOf!serviceVars)
      => [ServiceOf!KeepsChosen]_(ServiceOf!serviceVars)
  BY StepsOfOne DEF ServiceOf!KeepsChosen, ChosenNow
<1> QED
  BY <1>1, DispatcherImplementsService, ServiceStarts, ServiceTyped, UnreadKept, PTL
     DEF ImplementsService, ServiceOf!ServiceSpec, ServiceOf!ChosenStands

\* A request that ended, one way or the other, is not attempted again, and
\* one whose requester is to be told of its failure never gets back to the
\* handler (process_ready, SQLITE_READY, run's resumption).
THEOREM EndedRequestsStay == Spec => ServiceOf!OverStays
<1>1. ServiceOf!ServiceTypeOK /\ ServiceOf!UnreadWaits
         /\ [ServiceOf!ServiceNext]_(ServiceOf!serviceVars)
      => [ServiceOf!StaysOver]_(ServiceOf!serviceVars)
  BY StepsOfOne DEF ServiceOf!StaysOver, StateNow, AttemptsNow
<1> QED
  BY <1>1, DispatcherImplementsService, ServiceStarts, ServiceTyped, UnreadKept, PTL
     DEF ImplementsService, ServiceOf!ServiceSpec, ServiceOf!OverStays

====
