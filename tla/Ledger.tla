---- MODULE Ledger ----
(***************************************************************************)
(* What a relay promises about the numbers on its receipts, with no word   *)
(* of how it keeps them: a ledger of receipts that only grows, and the     *)
(* subset of it that is still stored.  A receipt is numbered against       *)
(* everything that was EVER given, not against what happens to be left.    *)
(* Relay.tla implements it with two counters that survive sweeps,          *)
(* takedowns and restarts (README.md section 5, "receipts stay valid, and  *)
(* thread sequence values are not reused").                                *)
(***************************************************************************)
EXTENDS Naturals

CONSTANTS
    About,      \* the anchors
    Env,        \* the envelopes
    EnvAbout,   \* the anchor of each envelope
    Time        \* the values of received_at

VARIABLES
    given,      \* every receipt ever made
    kept        \* the receipts whose envelope is still stored

ledgerVars == <<given, kept>>

LedgerReceipt == [gseq : Nat \ {0}, tseq : Nat \ {0}, id : Env, at : Time]

LedgerTypeOK == given \subseteq LedgerReceipt /\ kept \subseteq given

LedgerInit == given = {} /\ kept = {}

\* r takes the next place of its thread and a place after all others.
NextPlace(r) ==
    LET thread == {s \in given : EnvAbout[s.id] = EnvAbout[r.id]}
    IN  /\ \A s \in given : s.gseq < r.gseq
        /\ \A s \in thread : s.tseq < r.tseq
        /\ r.tseq = 1 \/ \E s \in thread : s.tseq + 1 = r.tseq

\* An envelope that is not stored gets a receipt with the next numbers.
Accept(r) ==
    /\ r \in LedgerReceipt
    /\ \A s \in kept : s.id # r.id
    /\ NextPlace(r)
    /\ given' = given \cup {r}
    /\ kept' = kept \cup {r}

\* Expiry or takedown: any stored envelopes go, what was given stands.
Erase ==
    /\ kept' \subseteq kept
    /\ UNCHANGED given

LedgerNext == Erase \/ \E r \in given' : Accept(r)

LedgerSpec == LedgerInit /\ [][LedgerNext]_ledgerVars

====
