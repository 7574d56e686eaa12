---- MODULE Reporting ----
(***************************************************************************)
(* The relay's reports to its operator's service: the queue a new envelope *)
(* is put in by the transaction that stores it (Store::append with         *)
(* `report`), and the reporting thread that delivers it (report_pass in    *)
(* src/relay.rs, reports_due, report_done and report_retry in              *)
(* src/store.rs).                                                          *)
(*                                                                         *)
(* A pass selects a batch, then posts and settles each envelope of it in   *)
(* turn, each in its own step.  Posts, the sweeper and takedowns change    *)
(* the store in between; the service may take a report and its answer be   *)
(* lost; the relay may die between any two steps.                          *)
(***************************************************************************)
EXTENDS Naturals, FiniteSets

CONSTANTS
    Env,            \* envelope ids
    Batch,          \* REPORT_BATCH
    MaxGseq,        \* bound: envelopes ever stored
    MaxFaults       \* bound: deaths of the relay and failed writes

ASSUME ReportingAssumption ==
    /\ Batch \in Nat \ {0}
    /\ MaxGseq \in Nat
    /\ MaxFaults \in Nat

VARIABLES
    on,             \* reporting_url is set
    msgs,           \* table msgs: gseq and id
    lastGseq,       \* its AUTOINCREMENT counter
    reports,        \* table reports: the gseqs queued
    waiting,        \* those of them whose next_at has not come
    batch,          \* the pass: what it selected and has not posted
    current,        \* the report in hand, 0 for none
    answer,         \* what came of posting it
    received,       \* history: gseqs the service got
    tried,          \* history: gseqs ever posted
    accepted,       \* history: gseqs whose post was answered as accepted
    repeats,        \* history: how often a post of one of those was accepted again
    owed,           \* history: gseqs stored with reporting on
    faults          \* bound counter

table == <<msgs, lastGseq, reports, waiting>>
pass == <<batch, current, answer>>
history == <<received, tried, accepted, repeats, owed>>
vars == <<on, table, pass, history, faults>>

Gseq == 1 .. MaxGseq
Stored == {m.gseq : m \in msgs}

TypeOK ==
    /\ on \in BOOLEAN
    /\ msgs \subseteq [gseq : Gseq, id : Env]
    /\ lastGseq \in 0 .. MaxGseq
    /\ reports \subseteq Gseq
    /\ waiting \subseteq Gseq
    /\ batch \subseteq Gseq /\ Cardinality(batch) <= Batch
    /\ current \in {0} \cup Gseq
    /\ answer \in {"none", "accepted", "failed"}
    /\ current = 0 => answer = "none"
    /\ received \subseteq Gseq /\ tried \subseteq Gseq
    /\ accepted \subseteq Gseq /\ owed \subseteq Gseq
    /\ repeats \in Nat
    /\ faults \in 0 .. MaxFaults

Init ==
    /\ on = TRUE
    /\ msgs = {} /\ lastGseq = 0 /\ reports = {} /\ waiting = {}
    /\ batch = {} /\ current = 0 /\ answer = "none"
    /\ received = {} /\ tried = {} /\ owed = {}
    /\ accepted = {} /\ repeats = 0
    /\ faults = 0

-----------------------------------------------------------------------------
(* The store.                                                              *)

\* Mutant of Queued: a resubmission is put in the queue again.
QueuedAgain(e) == {m.gseq : m \in {x \in msgs : x.id = e}}

\* What a resubmission queues: nothing.
Queued(e) == {}

\* Store::append of an envelope that is stored returns the stored copy.
Resubmit(e) ==
    /\ \E m \in msgs : m.id = e
    /\ reports' = reports \cup Queued(e)
    /\ UNCHANGED <<on, msgs, lastGseq, waiting, pass, history, faults>>

\* Store::append of a new one: the row and the report together.
Append(e) ==
    LET g == lastGseq + 1
    IN  /\ \A m \in msgs : m.id # e
        /\ g \in Gseq
        /\ msgs' = msgs \cup {[gseq |-> g, id |-> e]}
        /\ lastGseq' = g
        /\ reports' = IF on THEN reports \cup {g} ELSE reports
        /\ owed' = IF on THEN owed \cup {g} ELSE owed
        /\ UNCHANGED <<on, waiting, pass, received, tried, accepted, repeats,
                       faults>>

\* The sweeper or a takedown: the report stays for the next pass to drop.
Delete(m) ==
    /\ msgs' = msgs \ {m}
    /\ UNCHANGED <<on, lastGseq, reports, waiting, pass, history, faults>>

\* next_at comes.
BackoffOver(g) ==
    /\ waiting' = waiting \ {g}
    /\ UNCHANGED <<on, msgs, lastGseq, reports, pass, history, faults>>

-----------------------------------------------------------------------------
(* report_pass.                                                            *)

\* Mutant of Oldest: the batch is taken without ORDER BY.
AnyOf(set) == IF Cardinality(set) <= Batch THEN set
              ELSE {g \in set : Cardinality({h \in set : h > g}) < Batch}

\* Mutant of Oldest: without LIMIT.
Whole(set) == set

\* ORDER BY gseq LIMIT.
Oldest(set) == {g \in set : Cardinality({h \in set : h < g}) < Batch}

\* reports_due: what was deleted leaves the queue, then the due are read.
SelectDue ==
    LET left == reports \cap Stored
    IN  /\ on /\ batch = {} /\ current = 0
        /\ reports' = left
        /\ waiting' = waiting \cap left
        /\ batch' = Oldest(left \ waiting)
        /\ UNCHANGED <<on, msgs, lastGseq, current, answer, history, faults>>

Receive(g) == received' = received \cup {g}

\* What the service has accepted, and whether it had done so before.
Accepted(g) ==
    /\ accepted' = accepted \cup {g}
    /\ repeats' = IF g \in accepted THEN repeats + 1 ELSE repeats

\* Relay::report: accepted, taken with its answer lost or not the one
\* expected, or not taken at all.
Post ==
    /\ current = 0
    /\ \E g \in batch :
           /\ \A h \in batch : g <= h
           /\ batch' = batch \ {g}
           /\ current' = g
           /\ tried' = tried \cup {g}
           /\ \/ answer' = "accepted" /\ Receive(g) /\ Accepted(g)
              \/ /\ answer' = "failed"
                 /\ Receive(g) \/ UNCHANGED received
                 /\ UNCHANGED <<accepted, repeats>>
    /\ UNCHANGED <<on, table, owed, faults>>

\* Mutant of Acknowledged: an answer is an answer.
AnyAnswer == answer # "none"

Acknowledged == answer = "accepted"

\* report_done or report_retry; neither minds that the row is gone.
Settle ==
    /\ current # 0
    /\ IF Acknowledged
       THEN /\ reports' = reports \ {current}
            /\ waiting' = waiting \ {current}
       ELSE /\ waiting' = waiting \cup ({current} \cap reports)
            /\ UNCHANGED reports
    /\ current' = 0 /\ answer' = "none"
    /\ UNCHANGED <<on, msgs, lastGseq, batch, history, faults>>

\* The store's answer is an error: it is logged, and the report stays as it was.
SettleFailed ==
    /\ current # 0
    /\ faults < MaxFaults
    /\ faults' = faults + 1
    /\ current' = 0 /\ answer' = "none"
    /\ UNCHANGED <<on, table, batch, history>>

\* The relay dies and is started again, with a reporting URL or without.
Restart(url) ==
    /\ faults < MaxFaults
    /\ faults' = faults + 1
    /\ on' = url
    /\ batch' = {} /\ current' = 0 /\ answer' = "none"
    /\ UNCHANGED <<table, history>>

Next ==
    \/ \E e \in Env : Resubmit(e) \/ Append(e)
    \/ \E m \in msgs : Delete(m)
    \/ \E g \in waiting : BackoffOver(g)
    \/ SelectDue \/ Post \/ Settle \/ SettleFailed
    \/ \E url \in BOOLEAN : Restart(url)

Spec == Init /\ [][Next]_vars

Accept(g) == Post /\ current' = g /\ answer' = "accepted"

\* The thread goes on, time passes, and the service accepts in the end what
\* it is offered again and again.
Fairness ==
    /\ WF_vars(SelectDue) /\ WF_vars(Post) /\ WF_vars(Settle)
    /\ \A g \in Gseq : WF_vars(BackoffOver(g) /\ g \in waiting)
    /\ \A g \in Gseq : SF_vars(Accept(g))

FairSpec == Spec /\ Fairness

-----------------------------------------------------------------------------
(* What must hold.                                                         *)

\* An envelope stored while reporting is on was received, or is still queued,
\* or was deleted first: no crash, lost answer or restart without a URL
\* drops it.
NothingIsLost ==
    \A g \in owed : g \in received \/ g \in reports \/ g \notin Stored

\* The service accepts a report once more only for a fault: a death of the
\* relay, or a report_done that failed, between its answer and the row's
\* deletion.  Each costs at most one repeat, however often the pass runs and
\* the envelope is resubmitted.  (A report whose answer was lost is posted
\* again too; the relay never had its acknowledgement.)
RepeatsAreFaults == repeats <= faults

\* Envelopes are first posted in arrival order: a newer one is not tried
\* while an older one that is queued never was.
FirstTriesInOrder ==
    [][Post /\ current' \notin tried =>
           \A g \in reports \cap Stored : g < current' => g \in tried]_vars

\* With reporting on for good, every envelope owed is received or deleted.
EveryReportArrives ==
    \A g \in Gseq : <>[]on => (g \in owed ~> (g \in received \/ g \notin Stored))

====
