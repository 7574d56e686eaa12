---- MODULE Service ----
(***************************************************************************)
(* What the dispatcher promises, with no word of the process that keeps    *)
(* the promise: how far each request has come, the handler runs it cost,   *)
(* the one run whose result was chosen, and the envelopes made for it.     *)
(* Nothing here knows a crash, a restart, a lost answer or a wait: a step  *)
(* of the loop that is cut short is a step here, or it is none.            *)
(* Dispatcher.tla implements this.                                         *)
(***************************************************************************)
EXTENDS Naturals

CONSTANTS
    Request,        \* numbered in the order of their arrival
    Sealed,         \* those of them that only a person can read
    MaxAttempts     \* attempts before the requester is told of the failure

VARIABLES
    state,          \* how far each request has come
    attempts,       \* attempts counted for it
    tries,          \* handler runs started for it
    chosen,         \* the run whose result stands, 0 while there is none
    made,           \* envelopes made, each of them for good
    there,          \* envelopes in the requests' threads
    trusted,        \* the sender is trusted
    barred,         \* requests dropped for want of trust
    read            \* requests up to here were looked at

serviceVars == <<state, attempts, tries, chosen, made, there, trusted, barred, read>>

\* not looked at or dropped; worked on; the requester is to be told of the
\* failure; ended with and without a result.
State == {"none", "open", "notify", "done", "failed"}

Over == {"done", "failed"}

ServiceTypeOK ==
    /\ state \in [Request -> State]
    /\ attempts \in [Request -> Nat] /\ tries \in [Request -> Nat]
    /\ chosen \in [Request -> Nat] /\ read \in Nat

ServiceInit ==
    /\ state = [n \in Request |-> "none"]
    /\ attempts = [n \in Request |-> 0]
    /\ tries = [n \in Request |-> 0]
    /\ chosen = [n \in Request |-> 0]
    /\ made = {} /\ there = {} /\ barred = {}
    /\ trusted = TRUE /\ read = 0

\* A reply, a person's answer or the notice is in the thread.
Answered(n) == \E e \in there : e.re = n /\ e.kind \in {"reply", "human", "notice"}

-----------------------------------------------------------------------------

\* The requests up to read' are looked at, each of them once.
Read ==
    LET new == {n \in Request : read < n /\ n <= read'}
    IN  /\ UNCHANGED <<made, there, trusted, attempts, tries, chosen>>
        /\ read' \in Nat /\ read <= read'
        /\ barred' = IF trusted THEN barred ELSE barred \cup new
        /\ state' = [n \in Request |->
               IF n \notin new \/ ~trusted THEN state[n]
               ELSE IF n \in Sealed THEN "done" ELSE "open"]

Attempt(n) ==
    /\ state[n] \in {"open", "notify"}
    /\ attempts' = [attempts EXCEPT ![n] = @ + 1]
    /\ UNCHANGED <<state, tries, chosen>>

\* The handler runs only for an attempt that was counted, and never again
\* once a result was chosen.
Try(n) ==
    /\ state[n] = "open" /\ chosen[n] = 0
    /\ tries[n] < attempts[n]
    /\ tries' = [tries EXCEPT ![n] = @ + 1]
    /\ UNCHANGED <<state, attempts, chosen>>

\* The last run's result stands from now on.
Choose(n) ==
    /\ state[n] = "open" /\ chosen[n] = 0 /\ tries[n] # 0
    /\ chosen' = [chosen EXCEPT ![n] = tries[n]]
    /\ UNCHANGED <<state, attempts, tries>>

Move(n, from, to) ==
    /\ state[n] = from /\ state' = [state EXCEPT ![n] = to]
    /\ UNCHANGED <<attempts, tries, chosen>>

Finish(n) == Answered(n) /\ Move(n, "open", "done")

GiveUp(n) == attempts[n] >= MaxAttempts /\ Move(n, "open", "notify")

Fail(n) ==
    /\ Answered(n) \/ n \in barred \/ attempts[n] >= 2 * MaxAttempts
    /\ Move(n, "notify", "failed")

Work ==
    /\ UNCHANGED <<made, there, trusted, barred, read>>
    /\ \E n \in Request :
           Attempt(n) \/ Try(n) \/ Choose(n) \/ Finish(n) \/ GiveUp(n) \/ Fail(n)

\* What an envelope may be made for: the chosen result, its follow-up once the
\* request is answered, or the notice.
Allowed(e) ==
    /\ e.re \in Request
    /\ \/ e.kind = "reply" /\ state[e.re] = "open" /\ e.text = chosen[e.re]
       \/ /\ e.kind = "follow" /\ state[e.re] = "open" /\ e.text = chosen[e.re]
          /\ Answered(e.re)
       \/ e.kind = "notice" /\ state[e.re] = "notify"
    /\ e.kind # "notice" => chosen[e.re] # 0

\* One envelope of a kind is made for a request, whatever becomes of it.
Make ==
    /\ UNCHANGED <<state, attempts, tries, chosen, trusted, barred, read>>
    /\ \E e \in made' :
           /\ made' = made \cup {e}
           /\ \A d \in made : d.re = e.re /\ d.kind = e.kind => d = e
           /\ Allowed(e)
           /\ there' = there \/ there' = there \cup {e}

\* An envelope made before gets there, or a person's answer.
Show ==
    /\ UNCHANGED <<state, attempts, tries, chosen, made, trusted, barred, read>>
    /\ \E e \in there' : (e \in made \/ e.kind = "human") /\ there' = there \cup {e}

\* The sender's trust changes; a request that would be told of its failure is
\* dropped while there is none.
ChangeTrust ==
    /\ trusted' = ~trusted
    /\ UNCHANGED <<state, attempts, tries, chosen, made, there, barred, read>>

Drop ==
    /\ ~trusted
    /\ \E n \in barred' : state[n] = "notify" /\ barred' = barred \cup {n}
    /\ UNCHANGED <<state, attempts, tries, chosen, made, there, trusted, read>>

ServiceNext == Work \/ Make \/ Read \/ Show \/ ChangeTrust \/ Drop

ServiceSpec == ServiceInit /\ [][ServiceNext]_serviceVars

-----------------------------------------------------------------------------
(* What follows from the promise alone.                                    *)

\* What was not looked at waits as it arrived.
UnreadWaits == \A n \in Request : read < n => state[n] = "none"

\* One envelope of a kind for a request, with the chosen result in it, and
\* nothing else of this service's is in a thread.
OneIsMade ==
    /\ \A d, e \in made : d.re = e.re /\ d.kind = e.kind => d = e
    /\ \A e \in made :
          /\ e.re \in Request
          /\ e.kind # "notice" => e.text = chosen[e.re] /\ chosen[e.re] # 0
    /\ \A e \in there : e \in made \/ e.kind = "human"

\* A result that was chosen stands, and its request costs no handler run more.
KeepsChosen ==
    \A n \in Request : chosen[n] # 0 => chosen'[n] = chosen[n] /\ tries'[n] = tries[n]

ChosenStands == [][KeepsChosen]_serviceVars

\* What ended is not worked on again, and from the failure there is no way
\* back to the handler.
StaysOver ==
    \A n \in Request :
        /\ state[n] \in Over =>
              state'[n] = state[n] /\ attempts'[n] = attempts[n] /\ tries'[n] = tries[n]
        /\ state[n] = "notify" => state'[n] \in {"notify", "failed"} /\ tries'[n] = tries[n]

OverStays == [][StaysOver]_serviceVars

====
