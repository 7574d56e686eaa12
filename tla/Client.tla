---- MODULE Client ----
(***************************************************************************)
(* The home directory of one identity and the processes that share it:     *)
(* the saved place in the inbox ($ECCO_HOME/cursor) and the contact policy *)
(* (contacts.json), as ecco inbox, watch, trust, block, send, dispatcher   *)
(* configure and the MCP tools use them (src/main.rs, src/mcp.rs,          *)
(* src/identity.rs, src/agent_surface.rs).                                 *)
(*                                                                         *)
(* No lock is held on either file: a write replaces the file at once       *)
(* (local::write), but what is written was computed from an earlier read.  *)
(* Any number of commands run at the same time, and any may die.           *)
(*                                                                         *)
(* A message of the inbox is its gseq and its sender; what the relay does  *)
(* with them is Relay's business, and it keeps everything here.            *)
(***************************************************************************)
EXTENDS Naturals, Sequences, FiniteSets

CONSTANTS
    Peer,           \* the addresses of others
    Proc,           \* processes that run commands
    MaxMail,        \* bound: messages sent to this identity
    MaxCommands     \* bound: commands run

ASSUME ClientAssumption == MaxMail \in Nat /\ MaxCommands \in Nat

VARIABLES
    mail,           \* the inbox at the relay: the sender of each gseq
    cursor,         \* the saved place
    contacts,       \* contacts.json
    proc,           \* the locals of each process
    commands,       \* bound counter
    taken,          \* history: gseqs a command displayed, held or rejected
    read,           \* history: those whose text was displayed
    waived,         \* history: gseqs passed over by request or by a death
    crossed,        \* history: readers between their fetch and their save that saw
                    \* another one save
    admitted,       \* history: peers whose ecco trust ran to its end
    lapsed          \* history: peers that lost an approval

file == <<cursor, contacts>>
history == <<taken, read, waived, crossed, admitted, lapsed>>
vars == <<mail, file, proc, commands, history>>

Standing == {"unknown", "approved", "blocked"}
Reader == {"inbox", "peek", "watch", "mcp"}
Setter == {"trust", "block", "send", "configure"}

\* from and until: the place an inbox read starts at and ends at; todo: the
\* addresses whose standing is still to be set, at: the one in hand; snap: the
\* contacts as contacts_set loaded them.
Nobody == [a \in Peer |-> "unknown"]
Idle == [pc |-> "idle", cmd |-> "none", from |-> 0, until |-> 0, todo |-> {},
         at |-> {}, snap |-> Nobody]

TypeOK ==
    /\ mail \in Seq(Peer) /\ Len(mail) <= MaxMail
    /\ cursor \in 0 .. Len(mail)
    /\ contacts \in [Peer -> Standing]
    /\ \A p \in Proc :
           /\ proc[p].pc \in {"idle", "fetch", "show", "save", "load", "write", "print"}
           /\ proc[p].cmd \in {"none"} \cup Reader \cup Setter
           /\ proc[p].from \in 0 .. MaxMail /\ proc[p].until \in 0 .. MaxMail
           /\ proc[p].todo \subseteq Peer /\ proc[p].at \subseteq Peer
    /\ taken \subseteq DOMAIN mail /\ read \subseteq DOMAIN mail
    /\ waived \subseteq 1 .. MaxMail /\ crossed \subseteq Proc
    /\ admitted \subseteq Peer /\ lapsed \subseteq Peer
    /\ commands \in 0 .. MaxCommands

Init ==
    /\ mail = <<>> /\ cursor = 0 /\ commands = 0
    /\ contacts = Nobody
    /\ proc = [p \in Proc |-> Idle]
    /\ taken = {} /\ read = {} /\ waived = {} /\ crossed = {}
    /\ admitted = {} /\ lapsed = {}

Begin(p, locals) ==
    /\ proc[p] = Idle /\ commands < MaxCommands
    /\ commands' = commands + 1
    /\ proc' = [proc EXCEPT ![p] = locals]

Goto(p, pc) == proc' = [proc EXCEPT ![p] = IF pc = "idle" THEN Idle ELSE [@ EXCEPT !.pc = pc]]

-----------------------------------------------------------------------------
(* Reading the inbox.                                                      *)

\* ecco inbox, ecco watch and ecco_inbox start at the saved place.
ReadInbox(p, cmd) ==
    /\ Begin(p, [Idle EXCEPT !.pc = "fetch", !.cmd = cmd, !.from = cursor])
    /\ UNCHANGED <<mail, file, history>>

\* With --since they start where they are told; watch still saves.
ReadFrom(p, cmd, since) ==
    /\ Begin(p, [Idle EXCEPT !.pc = "fetch", !.cmd = cmd, !.from = since])
    /\ waived' = IF cmd = "watch" THEN waived \cup 1 .. since ELSE waived
    /\ UNCHANGED <<mail, file, taken, read, crossed, admitted, lapsed>>

\* Mutant of Presents: every reader saves before it shows.
SavesFirst(cmd) == "save"

\* The MCP tool saves the place before it makes its answer.
Presents(cmd) == IF cmd = "mcp" THEN "save" ELSE "show"

\* Mutant of Mark: the first message's gseq, not the last one's.
FirstMark(from) == IF Len(mail) > from THEN from + 1 ELSE from

\* next_cursor: the greatest gseq of what is there past `from`, or `from`.
Mark(from) == IF Len(mail) > from THEN Len(mail) ELSE from

\* client::inbox, and the mark to go on from.
Fetch(p) ==
    LET r == proc[p]
    IN  /\ r.pc = "fetch"
        /\ proc' = [proc EXCEPT ![p].pc = Presents(r.cmd), ![p].until = Mark(r.from)]
        /\ UNCHANGED <<mail, file, commands, history>>

Batch(p) == (proc[p].from + 1 .. proc[p].until) \cap DOMAIN mail

\* Mutant of Moved: watch saves whatever its poll ends with.
MovedAnyway(p) == TRUE

Moved(p) == proc[p].until > proc[p].from

\* partition, by the contacts of this moment: approved senders' text, the
\* others' kinds or ids.
Show(p) ==
    LET r == proc[p]
        next == CASE r.cmd = "inbox" -> "save"
                  [] r.cmd = "watch" -> IF Moved(p) THEN "save" ELSE "fetch"
                  [] OTHER -> "idle"
    IN  /\ r.pc = "show"
        /\ taken' = taken \cup Batch(p)
        /\ read' = read \cup {g \in Batch(p) : contacts[mail[g]] = "approved"}
        /\ Goto(p, next)
        /\ UNCHANGED <<mail, file, commands, waived, crossed, admitted, lapsed>>

\* It has fetched, and its place is not saved yet.
Between(p) ==
    proc[p].pc = "save" \/ (proc[p].pc = "show" /\ proc[p].cmd \in {"inbox", "watch"})

\* save_cursor: an atomic write of the place, with no look at the one saved.
Save(p) ==
    LET r == proc[p]
    IN  /\ r.pc = "save"
        /\ cursor' = r.until
        /\ crossed' = (crossed \cup {q \in Proc : Between(q)}) \ {p}
        /\ proc' = [proc EXCEPT ![p] =
               CASE r.cmd = "mcp" -> [r EXCEPT !.pc = "show"]
                 [] r.cmd = "watch" -> [r EXCEPT !.pc = "fetch", !.from = r.until]
                 [] OTHER -> Idle]
        /\ UNCHANGED <<mail, contacts, commands, taken, read, waived, admitted, lapsed>>

-----------------------------------------------------------------------------
(* Changing contacts.json.                                                 *)

\* Mutant of Strangers: whoever is not approved yet.
NotApproved(to) == {a \in to : contacts[a] # "approved"}

\* Sending to an address implies trusting it, unless it is blocked.
Strangers(to) == {a \in to : contacts[a] = "unknown"}

\* ecco trust, ecco block and dispatcher configure set whom they name, a send
\* (of any tool) the strangers among its recipients.
Decide(p, cmd, who) ==
    LET todo == IF cmd = "send" THEN Strangers(who) ELSE who
    IN  /\ todo # {}
        /\ cmd \in {"trust", "block"} => Cardinality(who) = 1
        /\ Begin(p, [Idle EXCEPT !.pc = "load", !.cmd = cmd, !.todo = todo])
        /\ UNCHANGED <<mail, file, history>>

\* contacts_set, address by address: load the file ...
Load(p) ==
    /\ proc[p].pc = "load"
    /\ \E a \in proc[p].todo :
           proc' = [proc EXCEPT ![p].pc = "write", ![p].at = {a},
                                ![p].todo = @ \ {a}, ![p].snap = contacts]
    /\ UNCHANGED <<mail, file, commands, history>>

\* ... and write it back with one entry changed.
Write(p) ==
    LET r == proc[p]
        next == IF r.todo # {} THEN "load" ELSE IF r.cmd = "trust" THEN "print" ELSE "idle"
    IN  /\ r.pc = "write"
        /\ contacts' = [a \in Peer |->
               IF a \notin r.at THEN r.snap[a]
               ELSE IF r.cmd = "block" THEN "blocked" ELSE "approved"]
        /\ lapsed' = lapsed \cup
               {a \in Peer : contacts[a] = "approved" /\ contacts'[a] # "approved"}
        /\ Goto(p, next)
        /\ UNCHANGED <<mail, cursor, commands, taken, read, waived, crossed, admitted>>

\* Mutant of Earlier: from the saved place on only.
Unread(who) == {g \in DOMAIN mail : g > cursor /\ mail[g] \in who}

\* The whole inbox from the one just trusted.
Earlier(who) == {g \in DOMAIN mail : mail[g] \in who}

\* ecco trust ends by showing it.
ShowEarlier(p) ==
    /\ proc[p].pc = "print"
    /\ read' = read \cup Earlier(proc[p].at)
    /\ admitted' = admitted \cup proc[p].at
    /\ Goto(p, "idle")
    /\ UNCHANGED <<mail, file, commands, taken, waived, crossed, lapsed>>

-----------------------------------------------------------------------------

\* A command fails or is killed between two of its steps.  What ecco_inbox
\* has saved but not answered is passed over.
Die(p) ==
    /\ proc[p] # Idle
    /\ waived' = IF proc[p].cmd = "mcp" /\ proc[p].pc = "show"
                 THEN waived \cup Batch(p) ELSE waived
    /\ crossed' = crossed \ {p}
    /\ Goto(p, "idle")
    /\ UNCHANGED <<mail, file, commands, taken, read, admitted, lapsed>>

Arrive(a) ==
    /\ Len(mail) < MaxMail
    /\ mail' = Append(mail, a)
    /\ UNCHANGED <<file, proc, commands, history>>

Next ==
    \/ \E p \in Proc :
          \/ \E cmd \in Reader \ {"peek"} : ReadInbox(p, cmd)
          \/ \E cmd \in {"peek", "watch"}, since \in 0 .. MaxMail : ReadFrom(p, cmd, since)
          \/ Fetch(p) \/ Show(p) \/ Save(p)
          \/ \E cmd \in Setter, who \in SUBSET Peer : Decide(p, cmd, who)
          \/ Load(p) \/ Write(p) \/ ShowEarlier(p)
          \/ Die(p)
    \/ \E a \in Peer : Arrive(a)

Spec == Init /\ [][Next]_vars

-----------------------------------------------------------------------------
(* What must hold.                                                         *)

\* What an ecco_inbox has saved and is about to answer.
InHand == UNION {Batch(p) : p \in {x \in Proc : proc[x].cmd = "mcp" /\ proc[x].pc = "show"}}

\* However the readers of one home overlap and wherever they die, no message
\* behind the saved place was passed over unless a person asked for it with
\* watch --since, or ecco_inbox died between its save and its answer
\* (Cmd::Inbox, Cmd::Watch, the ecco_inbox tool, next_cursor).
NothingPassedOver == \A g \in 1 .. cursor : g \in taken \cup waived \cup InHand

\* Once ecco trust has run, every message of that sender behind the saved
\* place has been displayed: one that was held before is shown, one that
\* arrives while the command runs is shown either by it or by the
\* reader that fetches it (Cmd::Trust sets the contact first, partition reads
\* the contacts after the fetch).
NothingHeldBack ==
    \A g \in 1 .. cursor : mail[g] \in admitted \ lapsed =>
        g \in read \cup waived \cup InHand

\* The saved place moves back, and mail is fed to the model once more, only
\* where a reader was overtaken: another one saved between its fetch and its
\* save.  A reader that came late, began before that save or was given an
\* older --since does not move it back (next_cursor, save_cursor, Cmd::Watch's
\* test of the mark).
OnlyOvertakenGoBack ==
    [][cursor' < cursor => \E p \in crossed : Save(p)]_vars

\* src/main.rs, post: "Sending to an address implies trusting it (README §4) -
\* unless blocked"; README §4: only a person can approve or block a sender.
\* A block ends by an ecco trust or a dispatcher configure of that address.
OnlyAPersonUnblocks ==
    [][\A a \in Peer : contacts[a] = "blocked" /\ contacts'[a] # "blocked" =>
           \E p \in Proc :
              /\ proc[p].pc = "write" /\ proc'[p] # proc[p]
              /\ a \in proc[p].at /\ proc[p].cmd \in {"trust", "configure"}]_vars

====
