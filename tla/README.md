# ecco in TLA+

A verification development kept beside ecco, an inbox-and-thread protocol for
agents: signed envelopes, a relay that stores and orders them, a client with a
home directory, work coordination computed from a thread, and a dispatcher that
turns requests into local handler runs. Paths below are relative to the
repository's `src/` crate directory (`relay.rs` is `src/relay.rs`).

## 1. The system and its parts

| Part | State it keeps | Operations | Hard behaviour |
| --- | --- | --- | --- |
| Store and relay (`store.rs`, `relay.rs`) | tables `msgs`, `msg_to`, `threads`, `participants`, `profiles`, `retention`; an AUTOINCREMENT counter | post an envelope, resubmit one, read a thread or an inbox (long poll), sweep, takedown, limits snapshot | sixteen workers, a sweeper and an operator's command around one mutex that each *store method* takes, so a handler is several critical sections |
| Names (`store.rs`, `relay.rs`, `registration.rs`) | `profiles`, `registrations`, `name_transfers`, `name_transfer_proofs`, `registration_transfers`; in memory, the roots of the members (`--allow-roots`) | publish a profile, reserve, transfer by the registrar, offer and accept by the owner; install a snapshot of the members, let a root in | four requests over five tables in two modes; repeated and replayed requests; a set of members that is fetched at one time, installed later, added to in between, and gone at a restart |
| Report queue (`store.rs`, `relay.rs`) | table `reports` | queue with the append, select due, post, settle or back off | lost answers, deletion under a pass, restart with or without a URL |
| Client home (`main.rs`, `mcp.rs`, `identity.rs`, `agent_surface.rs`, `client.rs`) | `cursor`, `contacts.json` | `inbox`, `watch`, `ecco_inbox`, `trust`, `block`, implied trust of a send, `dispatcher configure` | files without locks, shared by any number of processes that may die |
| Work coordination (`coordination.rs`) | none: the thread itself | `work claim`, `release`, `status` | no lock at all; posts stamped in one order and numbered in another |
| Dispatcher (`dispatcher.rs`, `dispatcher/handler.rs`, `outbox.rs`) | `dispatcher.sqlite` (cursor, jobs), `outbox.sqlite3` | ingest, run a handler, save, reply, follow up, announce failure | crash between any two steps, sends with lost or late answers, retries with backoff |
| Keys, profiles, decisions (`identity.rs`, `main.rs`, `client.rs`, `registration.rs`, `relay.rs`) | `identity.json`; the profile at the relay; inbox and threads | `init`, `deactivate`, `send`, `pending`, `approve`, `reject` | commands without a lock that die or stop waiting while their request goes on; a late profile undoes a deactivation; two decisions at once |
| Envelopes, encryption (`envelope.rs`, `identity.rs`) | none | sign, verify, seal, open | pure functions |
| Local processes, HTTP, CLI (`local.rs`, `wire.rs`, `main.rs`, `mcp.rs`) | a rate limiter's counters | parse, route, limit | I/O |

How they interact: clients, the dispatcher and work commands call the relay over
HTTP; the relay's handlers call the store; the report thread and the sweeper
share the store with the handlers, and the operator's `ecco admin` commands are
processes of their own on the same database; the dispatcher sends through the same
`post_idempotent` and outbox as the CLI; the dispatcher, the CLI and the MCP
server share `contacts.json`, and the last two the saved place.

What makes each part correct:

* *Relay*: numbers on receipts are given out once and in agreement, over all
  that was ever stored; an inbox read from the saved place passes over nothing;
  a thread stays closed to those who were not addressed in it, whatever has
  expired; a finished sweep of the relay's own has deleted what its windows
  covered, and one of the operator's all of that but what a table of windows
  installed meanwhile keeps.
* *Names*: profile and reservation agree; a name changes hands only as its
  holder or its registrar asked, once per request; on a relay with
  `--allow-roots` only members ever hold a name, and the relay's set comes back
  to the team's.
* *Keys and decisions*: a home owns the name it registered; who has the receipt
  of a decision does not decide again; a deactivated agent is not heard until a
  profile lets it speak.
* *Reports*: none lost; none accepted twice but for a fault, once for each; in
  order at first.
* *Client*: nothing behind the saved place was passed over; what is trusted is
  shown; the place moves back only under a reader that another one overtook. A
  block ends by a person's command, as long as no two commands that write the
  contacts overlap; where they do, the code loses it (section 5).
* *Coordination*: never two holders; a release is final; a holder is not
  displaced by others.
* *Dispatcher*: one reply, one follow-up, one notice; no request skipped,
  handled without an answer, failed without a word, or left hanging.

`PROJECT.json` lists the hazards one by one with the property that covers each.

## 2. Modules

| Module | Models | Role |
| --- | --- | --- |
| `Ledger` | what receipts promise | abstract specification |
| `Relay` | posts, reads, sweeps, takedowns | detailed; implements `Ledger` through `LedgerOf` |
| `RelayProofs` | | theorems about `Relay` |
| `Names`, `NamesProofs` | who holds a name | detailed, and its theorems |
| `Admission`, `AdmissionProofs` | who may come in: `Names` with the set of members, the dashboard and the registrar's calls | composition; implements `Names!Spec` |
| `Authority`, `AuthorityProofs` | one identity: its key file, its profile, and what its two keys sign | detailed, and its theorems |
| `Reporting`, `ReportingProofs` | the report queue | detailed, and its theorems |
| `Lease` | what `work claim`, `release` and `status` promise: one lease, and what each identity is told of it | abstract specification |
| `Coordination`, `CoordinationProofs` | work claims over a thread | detailed; implements `Lease` through `LeaseOf`; its theorems |
| `Service` | what the dispatcher promises for each request, without the process | abstract specification |
| `Dispatcher`, `DispatcherProofs` | the dispatcher with its outbox | detailed; implements `Service` through `ServiceOf`; its theorems |
| `Client`, `ClientProofs` | saved place and contacts | detailed, and its theorems |
| `MCRelay`, `MCCoordination`, `MCClient`, `MCAuthority` | | instances for TLC: message tables and symmetry sets |

`Dispatcher`, `Reporting` and `Admission` take numbers and plain sets only, so
their configurations run the modules themselves. `Names` is run as part of
`Admission`, each of whose steps is a step of `Names` or leaves its variables
alone.

### State and actions against the code

**Relay.** A store method is one transaction under `Mutex<Connection>`, hence
one action. `post_msgs` is four: `ReceivePost` (stamp `now`), `CheckSender`
(profile and key), `CheckAccess` (`Store::access`), `AppendPost`
(`Store::append`, with the resubmission early return); other threads run in
between. Long polls are `AskThread` (authorisation at request time) and
`AnswerThread`. A sweep is `StartSweep` (bound computed from the shortest
window, saturating) and `DeleteBatch` until a batch comes back short, or
`AbandonSweep` when a transaction fails or the command is killed. There are two
`Sweeper`s: the relay's retention thread, and `ecco admin sweep`, which is another
process on the same file. `RefreshRetention` replaces the table of windows: the
relay's thread does so before its own sweep and never during it, but it may land
between two batches of the operator's, whose bound was computed before and whose
batches read the table of the moment. `Remove` is the operator's
takedown, `PutProfile` a profile publication, `Restart` drops workers, polls and
the relay's sweep and keeps the tables and the operator's. Time is in days. `ReadInbox` is a client that reads
from its saved place and saves the new one, in one step: what happens when those
two are apart is `Client`'s subject.

**Names.** `Publish`, `Accept` are `register_with_policy`; `Reserve` and
`Transfer` the registrar's requests; `CheckOffer` and `StoreOffer` the two halves
of `post_name_transfer` with the clock running in between; `Restart` changes the
mode, since the registration token is a command-line option.

**Admission.** The roots of the members are the dashboard's (`ChangeMember`). A
pass of the retention thread is `FetchSnapshot` and `InstallSnapshot`, up to fifteen
seconds apart. The registrar's call is `SendCall`, the store's transaction
(`StoreCall`, one of `Reserve`, `Transfer` and the answer from a row), and the
approval of the profile's root in memory (`Approve`); it may be refused or lost
(`LoseCall`). `POST /addr` is the look at the set (`AskAddr`) and then the
transaction (`StoreAddr`). `POST /addr/transfer` does not ask (`Offer`).
`RestartRelay` empties the memory.

**Authority.** A command is a process. `ecco init` takes the saved pair
(`InitAgain`) or makes one (`InitFirst`) and writes it (`SaveKeys`) before it
publishes; `Publish` and `Deactivate` sign a profile with or without a
delegation. `approve` and `reject` read (`Look`) and then sign with the root key
(`Sign`); `send` signs with the agent's. What was signed is in `net` until the
relay takes it, and goes on when its command does not (`Stop`). The relay's
`PutProfile` is `POST /addr`, which replaces the document, or the registrar's
activation, which keeps one that is there. A post is `Authorize` (the profile is
read) and then `StoreEnvelope`. `OtherDecides` is another participant, `Remove` a
sweep or a takedown.

**Reporting.** `Append` queues in the storing transaction when a URL is set;
`Resubmit` finds the row; `SelectDue`, `Post`, `Settle` are a pass; `Accepted` counts
what the service took for a second time; `SettleFailed` is a write that SQLite refuses, which is logged and skipped;
`BackoffOver` is `next_at` arriving; `Delete` is sweep or takedown.

**Coordination.** `Evaluate` is `evaluate` as a fold over the thread. `Claim` and
`Release` read the thread and decide; `Stamp` is the relay worker taking the
post, `StorePost` its append; `Check` reads the thread again and tells the caller;
`GiveUp` is a client that stops waiting while its post is on the way. `Sweep`
leaves what is within its window (`Left`), `Note` is anyone's other message.

**Dispatcher.** `Start`, `FetchInbox`, `Ingest`, `Select`, `Take`, `PassDone` are the
loop; `NotTrusted`, `ReadThread`, `RunHandler`, `HandlerFailed`, `SaveResult`,
`PostReply`, `NoFollowUp`, `PostFollowUp` are `execute`; `ThreadFailed`, `PostNotice`
are `notify_failure`; `Mark` writes the outcome. A send is saved in the outbox
(`Prepared`) and then reaches the relay with an answer, without one, later
(`Late`), or not at all. `Crash` may come anywhere; `WriteFailed` is SQLite refusing
a read or write, after which the loop starts over.

**Client.** Every command is a process with a place to start at, the mark its
fetch ended with, and what it read of the contacts. `Fetch`, `Show`, `Save` come in
the order each reader has them: `ecco_inbox` saves before it answers.
`contacts_set` is `Load` then `Write` of the whole file. `Mark` is the place a fetch
ends with; `crossed` are the readers during whose `Between`, from fetch to save,
another one saved. `Die` may come anywhere.

## 3. Runs

| Run | Checks | Bounds |
| --- | --- | --- |
| `relay_mail` | `TypeOK`, `ReceiptOrder`, `InboxNeverSkips`, `ClosedToLaterPosts`, `PrivateThreads`, `SweepIsComplete`, `ImplementsLedger` | three envelopes of three senders to one anchor, two workers, one reader, the relay's sweep and the operator's, windows of one and of three days around a default of two, batch size one, a clock of three days |
| `relay_closed` | `ClosedThreads` is **violated** | two workers |
| `dispatcher_loop` | `TypeOK`, `OneOfEach`, `NoneForgotten`, `EndsAreAnswered`, `EffortIsBounded`, `NoRunAfterNotice`, `ImplementsService`, `EverySettles` | two requests, one sealed to someone else, two attempts, two crashes or failed writes |
| `dispatcher_silent` | `NeverSilent` is **violated** | one request, no crash |
| `work` | `TypeOK`, `Exclusive`, `ReleaseIsFinal`, `FreshClaimWins`, `ImplementsLease` | two identities, four messages, a retention that ends within the run, one lost answer |
| `work_rounds` | `RoundsGoForward` is **violated** | no retention |
| `work_promoted` | `NeverPromoted` is **violated** | two messages and one sweep |
| `admission` | `AdmissionTypeOK`, `TablesAgree`, `MembersOnly`, `MovesByConsent`, `TransfersOnce`, `ProofsAreSpent`, `SetFollowsTeam` | one name, two roots, two accounts, two transfer ids, two proofs, window one of a clock of two, one change of the team |
| `authority` | `TypeOK`, `HomeOwnsName`, `ReceiptIsFinal`, `AgentStops` | two processes, two pairs of keys, one proposal, four commands, one decision of another, a clock of one with a delegation that ends within it |
| `reporting` | `TypeOK`, `NothingIsLost`, `RepeatsAreFaults`, `FirstTriesInOrder`, `EveryReportArrives` | three envelopes, batches of two, one fault |
| `client_home` | `TypeOK`, `NothingPassedOver`, `NothingHeldBack`, `OnlyOvertakenGoBack` | two processes, three commands, two senders, three messages |
| `client_block` | `OnlyAPersonUnblocks` is **violated** | two processes, two commands, one sender |

Why the bounds are enough: each hazard here is a race of two actors, or a
fault inside a sequence. Two workers or processes give every such race and a
third party (a takedown, a sweep, another sender) runs beside them; three
messages give a first, a middle and a last, so a deleted newest number can be
given again and a batch can end between two rows; two faults let a crash hit the
recovery from another. The window of `admission` is one where the code has 300
seconds: what matters is before, at and past the edge, on both sides. In
`dispatcher_loop` a pass takes one job where the code takes twenty, and never has
more than one to choose from there, since the sealed request waits for a person; that
a pass leaves jobs behind is left to the proofs, which hold for every limit. Batches
of one and two stand for 1000 rows of a sweep and 100 reports: each lets a batch
be full and not full. In `relay_mail` a sweep may find up to three expired rows, so a
batch ends between two of them, and a table may be replaced by one with shorter
or with longer windows between two batches of the operator's.
Constraints keep the larger state spaces small:
in `relay_mail` only ann, who reads and whose mail expires early, is ever without
a key, and only on the first day, and posts and polls rest on the last day and
during the operator's sweep, which then meets the relay's sweep, snapshots,
takedowns and inbox reads (all properties of that run are proved without these
constraints); in `authority` the last of the four commands runs
only while the thread has at most one message, where it is about keys and
profiles (its properties are proved without the constraint, too); in `work` at most
three messages, not four, are made once a client stopped waiting (its properties,
the refinement included, are proved without it).
`SYMMETRY` is used only in runs without liveness.

Every property of a passing run has a mutant of a mapped definition (`mutants` in
`PROJECT.json`; the operators with the comment *Mutant of*) under which TLC
finds it violated: the mutants are what plausible mistakes in the code would be,
such as numbering from the rows that are left, forgetting to keep the
participants of deleted mail, counting an attempt at its end, or taking the
shortest window from the default alone.

`CHECK_DEADLOCK FALSE` stands where the model may really stop: the reporting
thread with an empty queue, and a home (of `Client` or `Authority`) whose commands
are all done.

### Fairness

Safety runs assume none. `Dispatcher!FairSpec` assumes that the process goes on
between its deaths (`WF_vars(Loop)`: the README asks for a service manager, each
HTTP call and each handler run has a timeout) and that backoffs end. It does not
assume that any send succeeds: the attempts run out. `EverySettles` excepts a
job whose outcome could not be written: nothing resumes it until the process is
started again. `Reporting!FairSpec` assumes that the reporting thread's loop goes
on, that backoffs end, and (strong fairness) that the service accepts in the end
what it is offered again and again; `EveryReportArrives` speaks of behaviours in
which reporting stays configured. `FairAdmission` assumes that the retention
thread makes its passes (one when the relay starts, one every five minutes) and
that a pass is not always cut short by a restart, which is the strong fairness of
`InstallSnapshot`: a restart throws away what was fetched.

## 4. Proofs

`RelayProofs`, `NamesProofs`, `AdmissionProofs`, `AuthorityProofs`, `ReportingProofs`,
`ClientProofs`, `CoordinationProofs` and `DispatcherProofs` prove, for every value of the constants:

| Theorem | Statement |
| --- | --- |
| `TypeCorrect`, `NamesTyped` | the type invariants |
| `ReceiptsOrdered` | `ReceiptOrder` |
| `MembersKept` | `ParticipantsOutliveMail` |
| `InboxComplete` | `InboxNeverSkips` |
| `LaterPostsRefused` | `ClosedToLaterPosts` |
| `ThreadsPrivate` | `PrivateThreads` |
| `SweepsAreComplete` | `SweepIsComplete` |
| `RelayImplementsLedger` | `Relay` implements `Ledger` |
| `TablesStayTogether`, `OffersStayTheOwners` | `TablesAgree`, `OffersAreTheOwners` |
| `MovedByConsent`, `TransferredOnce`, `ProofsStaySpent` | the action properties of `Names` |
| `AdmissionTyped`, `OnlyMembersEver` | the type invariant of `Admission`, `MembersOnly` |
| `AdmissionIsNames` | `Admission` implements `Names!Spec` |
| `MembersTablesAgree`, `MembersMoveByConsent`, `MembersTransferOnce`, `MembersProofsAreSpent` | what was proved of `Names` holds of `Admission` |
| `AuthorityTyped`, `HomeKeepsName`, `ReceiptsAreFinal`, `AgentIsStopped` | `TypeOK`, `HomeOwnsName`, `ReceiptIsFinal`, `AgentStops` |
| `ReportingTyped`, `NoReportIsLost`, `RepeatsOnlyByFaults`, `FirstTriesOrdered` | all of `reporting` but its liveness |
| `ClientTyped`, `NothingIsPassedOver`, `NothingIsHeldBack`, `PlaceAdvancesUncrossed` | all of `client_home` |
| `LoneSettersKeepBlocks` | `OnlyAPersonUnblocks`, as long as no two commands are between reading the contacts and writing them |
| `CoordinationTyped`, `OneHolder`, `ReleasesAreFinal`, `FreshClaimsWin` | the safety properties of `work` |
| `CoordinationImplementsLease` | `Coordination` implements `Lease` |
| `OnlyHandedOver` | `HandedOver` |
| `LeaseExcludes`, `LosersStayLosers` | what follows from `Lease`, and that it holds of `Coordination` |
| `DispatcherTyped`, `OneOfEachIsSent`, `NoneIsForgotten`, `EndedAreAnswered`, `EffortStaysBounded`, `NoRunsAfterNotice` | the safety properties of `dispatcher_loop` |
| `DispatcherImplementsService` | `Dispatcher` implements `Service` |
| `RepliesAreSaved`, `NoneIsSkipped`, `RunsStayBounded` | `ReplyIsSaved`, `NoneSkipped`, `RunsAreBounded` |
| `ServiceMakesOne`, `SavedResultsStand`, `EndedRequestsStay` | what follows from `Service`, and that it holds of `Dispatcher` |

They rest on the named assumptions of the modules (`EnvAssumption`,
`BoundAssumption`, `NamesAssumption`, `AdmissionAssumption`, `AuthorityAssumption`,
`ReportingAssumption`, `ClientAssumption`, `CoordinationAssumption`,
`DispatcherAssumption`), which say that the constants have their types and that the
"nothing here" values differ from the values; `CoordinationAssumption` says in
addition what the code's limits give, that no claim outlives a retention window.

*Relay.* `ReceiptOrder` alone is not inductive: a new receipt is after all others
only if the counters are (`CountersBound`), and those must be at or above what was
*ever* given, which is why the history of receipts and not the stored rows is
bounded. `InboxNeverSkips` needs in addition that no saved place is past the
counter, for a new row lies beyond every place. The action properties need what a
worker or a poll learnt to be still true when it acts: `AccessHeld` and `PollHeld`
carry the answer of `Store::access` from the check to the use, and they are
inductive because participants only grow (`MembersGrow`). `StoredOnce` makes the
resubmission branch and the append branch exclusive, which the refinement needs:
an append maps to `Accept`, a deletion to `Erase`, anything else to a stutter.
`IInv` is the conjunction; `StoreNext`, `InboxNext` and `HeldNext` are its three
parts, each by action. `SweepIsComplete` rests on `SweepInv`: the bound a sweep
scans below is at or past the edge of every window it *began* with, so a row those
had expired is within its reach (`ExpiredIsScanned`), whatever table was installed
since; that the relay's own sweep still has the windows it began with is the other
half. The last batch was short, hence all that was left of what the table of the
moment expires (`ShortBatchIsAll`: the first row it left out would have a whole batch
before it); what stays is what that table keeps.

*Names.* `OffersAreTheOwners` is inductive together with `TablesAgree` (a reserved
name leaves its holder by the registrar) and `OffersOnRecord`. `ProofsAreSpent`
needs `SpentIsRemembered`: a proof that made an offer is in the table until the
clock is past its window, even when its own time stamp was ahead of the relay's
clock.

*Admission.* `StepIsNames` shows, action by action, that a step is one of `Names` or
leaves its variables alone; the refinement and the four theorems after it follow
from those about `Names`. `MembersOnly` is not inductive: a root may hold a name
because a worker was let in, a call was approved, or a snapshot was installed,
all some steps ago. `GateFromMembers` says that all these came from the dashboard.

*Authority.* `HomeOwnsName` needs `OnePair`: as long as no first `ecco init`
overwrote another's keys, whatever is past its save or on its way is of the pair
in the file. `AgentStops` compares a message with the number of profiles with a
delegation that took effect: `MuteMeansNone` says that there is none while the
agent is mute, and `MuteSinceThen` carries the number a command started with from
the command to its request, past the relay's check, and into the thread.
`ReceiptIsFinal` needs `DecisionsLooked`, which carries what `Look` found over the
same way; it stays true because a message that is gone stays gone.

*Reporting.* `NothingIsLost` is inductive once a report that is settled is known to
have been received (`InHand`) and what is queued has a number that was given out
(`Numbered`: an append does not collide with a row). `RepeatsAreFaults` is not: what
counts is also what will be repeated. `Spoiled` are the reports that the service
accepted and that are queued all the same, the one about to be settled aside; a
fault spoils at most one, and a repeat uses one up until the next fault, so that
`FaultsPay` (repeats and spoiled reports together are at most the faults) is
inductive. `FirstTriesInOrder` needs `OldestFirst`: what is older
than an untried report of the batch is in the batch as well or was tried. That a
batch stays within its limit is a fact about `ORDER BY ... LIMIT` and is a lemma
(`OldestIsBounded`): everything but the last row of the batch lies below it.

*Client.* A reader saves a mark it fetched earlier, so `Behind` says what each process
holds: the messages up to where it began, and up to where it ends once it has
shown them, have been seen. It is inductive because what was seen only grows
(`SeenGrows`), also when a process dies, for the death of `ecco_inbox` after its
save is counted as the answer that is lost with it. `NothingHeldBack` needs
`Kept`: from the last write of `ecco trust` to its display the contact stays
approved unless someone takes that back. `OnlyOvertakenGoBack` needs `OnTime`: a
reader that nobody has overtaken since its fetch ends at or past the saved place,
because the fetch saw the inbox as it was then, and the place has not moved since
(`CrossedStays`: who was overtaken is known until it saves). `LoneSettersKeepBlocks`
says what a lock around the contacts file would give: under `OneSetter`, that at most
one command has read the contacts and not yet written them, `AllFresh` is inductive,
what it read is what the file says. Without that hypothesis the run `client_block`
shows the failure.

*Dispatcher.* `Hands` says, for each place in an attempt, what the job's row and the
process's locals have in common: the result in hand is the saved one from the
save on, a follow-up is reached with an answer in the thread only, and `EndFits`
relates the status about to be written to the one on disk. `Posted` says that the
outbox has one envelope for one content, and that the content of a reply is the
saved result's: as a job saves a result only while it has none, all replies of a
request are one envelope, and so is everything of them that was lost, late or
repeated. `Attempted` counts: a handler runs at most once for an attempt that is
on disk, and a job is taken beyond `MaxAttempts` only because a fault left it
running. `NoticesCounted` goes on counting in `notify`, where only an attempt cut
short by a fault is tried past twice `MaxAttempts` (`EffortIsBounded`). `ToldIsOver`
says that a job whose notice was posted is in `notify` or `failed`, which no later
step leaves, deaths included. `EverySettles` is out of the prover's reach, but what
makes it true is not: a request is tried only so often (`EffortStaysBounded`), and it
is never left where no pass finds it (`NoneIsForgotten`, by `LeftRunning`), except for
the write that failed, which `EverySettles` excepts as well.

*Service.* `Service` sees of a job its stage (`Stage`: a row that is `received`,
`retrying` or `running` is open), its counted attempts, its handler runs and the
run its saved result came from, and of the rest the outbox, the thread, the
trust and the cursor. It does not see the process, the wire or the backoffs, so
`Start`, `Select`, `Crash` and `WriteFailed` are stutters: what a death may destroy is
not part of the promise, and what is part of it survives. Each action has a lemma
that maps it (`IngestReads`, `TakeAttempts`, `RunTries`, `SaveChooses`, `SendMakes`,
`MarkMoves`, ...), which needs two invariants beyond `IInv`: `ReadInOrder` (beyond the
cursor there are no jobs, and a batch about to be ingested ends at or past it) and
`Concludes` (what is about to be saved came from the last run; a job is given up
only with its attempts used up). From the promise alone follow `OneIsMade`, that a
chosen result stays chosen and costs no further run (`ChosenStands`), and that what
ended is left alone (`OverStays`); the refinement carries all three to `Dispatcher`.
`Service` has no fairness: that requests end is `EverySettles`, which TLC checks.

*Coordination.* `Evaluate` runs over the whole thread, so the lemmas about it are about
its prefixes: `UpTo` is induction up to a number over a set, from the
well-foundedness of `<`. `EvaluateAppend` says that one more message is one more
`Apply`; `WinnerIsFounded` that the winner's claim, round and time stand in stored
messages of its own; `ReleasedStays` that a release after all that opened its claim
is never undone; `LeftLeaves` what a sweep leaves of a thread. `Exclusive` follows
from `HeldFits`: while the thread is whole, who was told that it holds the work is
the winner of the stored thread, and what it is about to post renews that very
claim. It is inductive because a client waits for its post (`Waits`), so a post of
a client that did not give up is the one it knows of, and because a post is stamped
before the deadline its sender relies on. `ReleaseIsFinal` follows from
`ReleasesFit`: what opened a released claim was stored before the release was
posted, since an id is used once (`Used`), and when the release is swept all claims
with its id are older than the window and have run out. `FreshClaimWins` needs
that a round is named by a message before the claim that opened it (`Made`).

*Lease.* `Lease` knows no messages. Its lease is `Evaluate(thread)`, the claims it has
decided are those that were stored at some time (`Decided`), what it told is `held`.
An append is a grant, a loss, an extension, a release or a stutter; the first check
of a command and the second are what an identity is told. Two reservations are in the
promise because they are in the code: a sweep may take away what a lease rests on
(`Forget`, after which `whole` is false), and a client that stopped waiting is not
bound by what it does not know (`Stray`). Where neither happened the promise is
strict: an extension ends no earlier than its holder was told, a release arrives only
when the holder has stopped counting on the work, and who is told yes has it.
`LeaseExcludes` proves from that alone that two identities never count on the work at
once, and `LosersStayLosers` that a claim comes to hold it as it is stored or
never, unless something was swept: the promise that `work_promoted` shows broken holds
up to retention.

Left to TLC: the liveness properties, which the proof system does not reach.

## 5. Where the code and its documents differ

1. **A first post can race into someone else's thread** (`relay_closed`).
   Between `Store::access` and `Store::append` another first post may start the
   thread. The later one is stored, its sender becomes a participant, and may read
   and post from then on. What the code does keep, and what is proved, is
   `ClosedToLaterPosts`.
2. **A request can fail in silence** (`dispatcher_silent`). The notice has attempts
   of its own and the job is `failed` when they run out. `EndsAreAnswered`
   says exactly when.
3. **A round can start from an earlier head** (`work_rounds`): `evaluate` compares
   two heads for difference, not for order.
4. **A losing claim can be promoted** (`work_promoted`), when retention deletes the
   winner's message: the status is computed from what is stored. Until a message is
   deleted it cannot happen (`LosersStayLosers`).
5. **A block can be undone without a person** (`client_block`). `ecco send` reads the
   contacts, finds an unknown address, and writes the whole file with that address
   approved (`main.rs:729-732`, `identity.rs:362`). An `ecco block` that runs to its end
   in between is overwritten, while a comment at that place says "unless blocked" and
   the README that only a person can approve or block a sender. It takes two
   commands that overlap (`LoneSettersKeepBlocks`).

Places where a reader of the documents may expect something else, without a run of
their own:

* The saved place can move back, and old mail is shown again to the next
  `ecco inbox`. Nothing is lost by it (`NothingPassedOver`), and only a reader that was
  overtaken between fetch and save does it (`OnlyOvertakenGoBack`).
* A report is delivered at least once, where a comment (`store.rs:393-395`) says
  "exactly once" and the README that every stored envelope is reported once: it is
  posted again when the
  relay dies, or its `report_done` fails, after the service has accepted it
  (`RepeatsAreFaults` bounds how often), and when the answer was lost.
* An operator's sweep that meets a new table of windows may end and leave a row
  which had expired by the table it began with, and which the new one keeps; what a
  shorter window of the new table expires may be out of its reach and waits for the
  next sweep (`SweepIsComplete`).
* A relay with `--allow-roots` answers 503 until its first snapshot, but the
  registrar's first approval already makes a set of one root (`Approve`), so others
  are refused with 403 until the snapshot arrives.
* On a relay with a registration service `ecco init` after `ecco deactivate` leaves
  the revoked profile in place (`Kept`).

## 6. Not modelled, and why

* Cryptography, canonical JSON, envelope size and kind limits: pure functions;
  envelopes are atoms that verify. A body the reader cannot open is `Sealed`.
* Rate limits, authentication windows, routing: they refuse a request and
  change nothing, which the models allow at any time by not taking the action.
* Delegations of several agents: one agent key, with its end, stands for them.
* An operator's takedown in a work thread: `Coordination` loses messages to
  retention only, the oldest first (`Sweep`). `ecco admin remove` may take any single
  row (`store.rs:584`), a release among them, after which its claim holds again
  until it runs out; `Relay` and `Authority` have the takedown (`Remove`).
* The registration client's loop with the dashboard is one step: the person
  approves, or does not. The other side is not in the repository.
* The outbox drops a prepared envelope after seven days: a retry later than that
  makes another one. The dispatcher's retries end long before.
* A handler's process and pipes: one result or one failure.
* Clock differences between machines: `Coordination` has one clock. Thread context
  size and the numeric limits on follow-ups: a nondeterministic choice.

## 7. Plan

Done, in this order: `Ledger`, `Relay`, `RelayProofs`; `Dispatcher`; `Coordination`;
`Names`, `NamesProofs`; `Reporting`; `Client`; `Admission`, `AdmissionProofs`;
`Authority`, `AuthorityProofs`, `ReportingProofs`,
`ClientProofs`, `DispatcherProofs`, `CoordinationProofs`; `Lease` and `Service` with
the proofs that `Coordination` and `Dispatcher` implement them.

Next:

1. `Names` and `Authority` composed with `Relay`, so that the former keys of a name
   that changed hands are seen by posts and reads.
2. An abstract specification of the report queue, delivery at least once, implemented
   by `Reporting`.
3. A statement of what a whole thread may lose to retention before `NeverPromoted`
   fails: the messages that `Evaluate` can do without.
