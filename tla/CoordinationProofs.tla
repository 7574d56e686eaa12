---- MODULE CoordinationProofs ----
(***************************************************************************)
(* Who holds the work, for any number of claimants, messages and clients   *)
(* that stop waiting, any times to live and any retention.                 *)
(***************************************************************************)
EXTENDS Coordination, FiniteSetTheorems, SequenceTheorems, WellFoundedInduction,
        NaturalsInduction, TLAPS

\* What is stored, and whatever is stored or will be.
Stored == {thread[i] : i \in DOMAIN thread}
Posts == Stored \cup flight

\* A claim that opens a round, not a renewal of one.
Opens(m) == m.kind = "claim" /\ ~m.renewal

\* Claims and releases are their owners' own.
Fits(m) ==
    /\ m.kind \in {"claim", "release"} =>
           m.claim \in ClaimId /\ m.claim[1] = m.from /\ m.from \in Agent
    /\ m.kind = "note" => m.claim = NoClaim

\* What a work command holds.
Place == {Idle} \cup [pc : {"send", "wait", "check"}, msg : Msg]

Types ==
    /\ clock \in 0 .. MaxClock /\ lastTseq \in 0 .. MaxMsgs
    /\ thread \in Seq(Msg) /\ flight \subseteq Msg /\ client \in [Agent -> Place]
    /\ claims \in [Agent -> 0 .. MaxMsgs]
    /\ held \in [Agent -> [claim : ClaimId \cup {NoClaim}, until : Nat]]
    /\ freed \subseteq ClaimId /\ gaveUp \subseteq Agent
    /\ IsFiniteSet(flight) /\ lastTseq + Cardinality(flight) <= MaxMsgs

\* The thread's numbers go up, and no stamp is of the future.
InOrder ==
    /\ \A i, j \in DOMAIN thread : i < j => thread[i].tseq < thread[j].tseq
    /\ \A m \in Stored : m.tseq \in 1 .. lastTseq
    /\ \A m \in Posts : m.at <= clock
    /\ Len(thread) <= lastTseq

\* Every message, on its way or stored, is as the commands make them.
Made ==
    /\ \A m \in Posts : Fits(m) /\ m.after <= lastTseq
    /\ \A m \in Stored : Opens(m) => m.after < m.tseq
    /\ \A m \in flight : m.kind # "note" /\ m.tseq = 0
    /\ \A a \in Agent : client[a] # Idle =>
          LET m == client[a].msg
          IN  /\ Fits(m) /\ m.from = a /\ m.kind \in {"claim", "release"}
              /\ m.after <= lastTseq
              /\ client[a].pc = "send" /\ Opens(m) => m.claim = <<a, claims[a] + 1>>
              /\ client[a].pc # "check" => m.tseq = 0

\* A post whose client still waits is the one it waits for.
Waits ==
    \A m \in flight : m.from \notin gaveUp =>
        client[m.from].pc = "wait" /\ client[m.from].msg = m

\* A claim's id is used once: until the claim is stored, nothing else has it.
Used ==
    /\ \A m \in Posts : m.kind # "note" => m.claim[2] <= claims[m.from]
    /\ \A c \in freed : c[2] <= claims[c[1]]
    /\ \A a \in Agent : client[a] # Idle /\ ~Opens(client[a].msg)
           => client[a].msg.claim[2] <= claims[a]
    /\ \A m \in flight : Opens(m) =>
          /\ \A x \in Posts : x.claim = m.claim => x = m
          /\ client[m.from] # Idle /\ ~Opens(client[m.from].msg)
                => client[m.from].msg.claim # m.claim
          /\ m.claim \notin freed

\* While nothing was deleted, who was told that it holds the work does, and
\* what it is about to post renews its claim.
HeldFits ==
    lastTseq = Len(thread) =>
        \A a \in Agent \ gaveUp : Holds(a) =>
            LET w == Evaluate(thread)
                m == client[a].msg
            IN  /\ w.from = a /\ w.claim = held[a].claim
                /\ ~w.released /\ held[a].until <= w.until
                /\ client[a] # Idle =>
                      /\ m.kind = "claim" /\ m.renewal
                      /\ m.claim = w.claim /\ m.after = w.round
                      /\ client[a].pc = "send" => held[a].until <= clock + m.ttl
                      /\ client[a].pc = "wait" => held[a].until <= m.at + m.ttl

\* No claim of c was stamped after m, or came to open a round after it.
Last(m) ==
    \A x \in Posts : x.kind = "claim" /\ x.claim = m.claim =>
        /\ x.at <= m.at
        /\ Opens(x) => x \in Stored /\ (m \in Stored => x.tseq < m.tseq)

\* A release on its way and a reported one come after all of their claim; a
\* reported one that was deleted has outlived it.
ReleasesFit ==
    /\ \A a \in Agent : client[a] # Idle /\ client[a].pc # "send"
                        /\ client[a].msg.kind = "release" => Last(client[a].msg)
    /\ \A c \in freed :
          /\ client[c[1]] # Idle => client[c[1]].msg.claim # c
          /\ \/ \E m \in Stored : m.kind = "release" /\ m.claim = c /\ Last(m)
             \/ /\ Retention > 0
                /\ \A x \in Posts : x.kind = "claim" /\ x.claim = c
                                   => x.at + Retention < clock

IInv ==
    /\ Types /\ InOrder /\ Made /\ Waits /\ Used
    /\ HeldFits /\ ReleasesFit
-----------------------------------------------------------------------------
(* Evaluate and Left, message by message.                                  *)

\* Induction up to n, over a set of numbers.
LEMMA UpTo ==
    ASSUME NEW n \in Nat, NEW P, 0 \in P, \A i \in 1 .. n : i - 1 \in P => i \in P
    PROVE  \A i \in 0 .. n : i \in P
<1> SUFFICES ASSUME NEW b \in 0 .. n, b \notin P PROVE FALSE
  OBVIOUS
<1> DEFINE Bad == {i \in Nat : i <= n /\ i \notin P}
<1>1. PICK i \in Bad : \A j \in Bad : ~(<<j, i>> \in OpToRel(<, Nat))
  <2>1. Bad \subseteq Nat /\ Bad # {}
    OBVIOUS
  <2> HIDE DEF Bad
  <2> QED
    BY <2>1, NatLessThanWellFounded, WFMin
<1>2. i # 0 /\ i \in 1 .. n
  <2>1. i \in Nat /\ i <= n /\ i \notin P
    BY <1>1
  <2>2. i # 0
    BY <2>1
  <2> QED
    BY <2>1, <2>2
<1>3. i - 1 \in P
  <2>1. i - 1 \in Nat /\ i - 1 < i /\ i - 1 <= n
    BY <1>2
  <2>2. i - 1 \notin Bad
    BY <1>1, <2>1 DEF OpToRel
  <2> QED
    BY <2>1, <2>2
<1>4. i \in P
  BY <1>2, <1>3
<1> QED
  BY <1>1, <1>4

\* f holds the winner after each message of s.
Runs(f, s) ==
    f = [i \in 0 .. Len(s) |-> IF i = 0 THEN None ELSE Apply(f[i - 1], s[i])]

LEMMA RunsExist ==
    ASSUME NEW s, Len(s) \in Nat
    PROVE  \E f : Runs(f, s)
<1> DEFINE Upto(f, k) ==
               f = [i \in 0 .. k |-> IF i = 0 THEN None ELSE Apply(f[i - 1], s[i])]
           P == {k \in Nat : \E f : Upto(f, k)}
<1>1. 0 \in P
  <2> DEFINE f == [i \in 0 .. 0 |-> None]
  <2>1. Upto(f, 0)
    OBVIOUS
  <2> QED
    BY <2>1
<1>2. ASSUME NEW k \in 1 .. Len(s), k - 1 \in P PROVE k \in P
  <2>1. PICK g : Upto(g, k - 1)
    BY <1>2
  <2> DEFINE f == [i \in 0 .. k |-> IF i = k THEN Apply(g[k - 1], s[k]) ELSE g[i]]
  <2>2. ASSUME NEW i \in 0 .. k
        PROVE  f[i] = IF i = 0 THEN None ELSE Apply(f[i - 1], s[i])
    <3>1. CASE i = 0
      BY <2>1, <3>1
    <3>2. CASE i \in 1 .. k - 1
      <4>1. g[i] = Apply(g[i - 1], s[i])
        BY <2>1, <3>2
      <4>2. f[i] = g[i] /\ f[i - 1] = g[i - 1]
        BY <3>2
      <4> QED
        BY <3>2, <4>1, <4>2
    <3>3. CASE i = k
      <4>1. f[i] = Apply(g[k - 1], s[k]) /\ f[i - 1] = g[k - 1]
        BY <3>3
      <4> QED
        BY <3>3, <4>1
    <3> QED
      BY <3>1, <3>2, <3>3
  <2>3. Upto(f, k)
    <3>1. f = [i \in 0 .. k |-> f[i]]
      OBVIOUS
    <3> HIDE DEF f
    <3> QED
      BY <2>2, <3>1
  <2>4. \E h : Upto(h, k)
    <3> HIDE DEF f, Upto
    <3> QED
      BY <2>3
  <2> HIDE DEF Upto
  <2> QED
    BY <2>4
<1> HIDE DEF P
<1>3. \A k \in 0 .. Len(s) : k \in P
  BY <1>1, <1>2, UpTo
<1> QED
  BY <1>3 DEF P, Runs

LEMMA EvaluateRuns ==
    ASSUME NEW s, Len(s) \in Nat
    PROVE  \E f : /\ Runs(f, s) /\ Evaluate(s) = f[Len(s)]
                  /\ f[0] = None
                  /\ \A i \in 1 .. Len(s) : f[i] = Apply(f[i - 1], s[i])
<1>1. \E f : Runs(f, s) /\ Evaluate(s) = f[Len(s)]
  BY RunsExist DEF Evaluate, Runs
<1>2. PICK f : Runs(f, s) /\ Evaluate(s) = f[Len(s)]
  BY <1>1
<1>3. f[0] = None
  BY <1>2 DEF Runs
<1>4. ASSUME NEW i \in 1 .. Len(s) PROVE f[i] = Apply(f[i - 1], s[i])
  BY <1>2 DEF Runs
<1> QED
  BY <1>2, <1>3, <1>4

LEMMA EvaluateEmpty == Evaluate(<<>>) = None
<1>1. Len(<<>>) = 0
  OBVIOUS
<1> QED
  BY <1>1, EvaluateRuns

\* Evaluating one more message is applying it to the winner so far.
LEMMA EvaluateAppend ==
    ASSUME NEW S, NEW s \in Seq(S), NEW m \in S
    PROVE  Evaluate(Append(s, m)) = Apply(Evaluate(s), m)
<1> DEFINE t == Append(s, m)
<1>1. /\ Len(s) \in Nat /\ Len(t) = Len(s) + 1 /\ t[Len(s) + 1] = m
      /\ \A i \in 1 .. Len(s) : t[i] = s[i]
  BY AppendProperties
<1> HIDE DEF t
<1>2. PICK f : /\ Evaluate(s) = f[Len(s)] /\ f[0] = None
               /\ \A i \in 1 .. Len(s) : f[i] = Apply(f[i - 1], s[i])
  BY <1>1, EvaluateRuns
<1>3. PICK g : /\ Evaluate(t) = g[Len(t)] /\ g[0] = None
               /\ \A i \in 1 .. Len(t) : g[i] = Apply(g[i - 1], t[i])
  <2>1. Len(t) \in Nat
    BY <1>1
  <2> QED
    BY <2>1, EvaluateRuns
<1> DEFINE P == {i \in Nat : g[i] = f[i]}
<1>4. 0 \in P
  BY <1>2, <1>3
<1>5. ASSUME NEW i \in 1 .. Len(s), i - 1 \in P PROVE i \in P
  <2>1. i \in 1 .. Len(t) /\ t[i] = s[i]
    BY <1>1
  <2>2. g[i] = Apply(g[i - 1], t[i]) /\ f[i] = Apply(f[i - 1], s[i])
    BY <1>2, <1>3, <2>1
  <2> QED
    BY <1>5, <2>1, <2>2
<1> HIDE DEF P
<1>6. Len(s) \in P
  <2>1. Len(s) \in 0 .. Len(s)
    BY <1>1
  <2>2. \A i \in 1 .. Len(s) : i - 1 \in P => i \in P
    BY <1>5
  <2>3. \A i \in 0 .. Len(s) : i \in P
    BY <1>1, <1>4, <2>2, UpTo
  <2> QED
    BY <2>1, <2>3
<1>7. g[Len(s) + 1] = Apply(g[Len(s)], m)
  <2>1. Len(s) + 1 \in 1 .. Len(t) /\ Len(s) + 1 - 1 = Len(s)
    BY <1>1
  <2> QED
    BY <1>1, <1>3, <2>1
<1> QED
  BY <1>1, <1>2, <1>3, <1>6, <1>7 DEF t, P


-----------------------------------------------------------------------------
(* Who won, and from which messages.                                       *)

Won == [from : Agent, claim : ClaimId, round : 0 .. MaxMsgs, until : Nat,
        released : BOOLEAN]

\* The winner after the first n messages has its claim and time from them.
Founded(w, s, n) ==
    \/ w = None
    \/ /\ w \in Won /\ w.claim[1] = w.from
       /\ \E x \in 1 .. n : /\ Opens(s[x]) /\ s[x].claim = w.claim
                            /\ s[x].from = w.from /\ s[x].after = w.round
       /\ \E y \in 1 .. n : /\ s[y].kind = "claim" /\ s[y].claim = w.claim
                            /\ w.until = s[y].at + s[y].ttl

LEMMA ClaimIsPair == \A c \in ClaimId : c # NoClaim
<1> SUFFICES ASSUME NEW c \in ClaimId PROVE c # NoClaim
  OBVIOUS
<1>1. PICK a \in Agent, n \in 1 .. MaxMsgs : c = <<a, n>>
  BY DEF ClaimId
<1>2. Len(c) = 2 /\ Len(NoClaim) = 0
  BY <1>1 DEF NoClaim
<1> QED
  BY <1>2

LEMMA WonIsSome == \A w \in Won : w # None
<1> SUFFICES ASSUME NEW w \in Won, w = None PROVE FALSE
  OBVIOUS
<1>1. w.claim \in ClaimId
  BY DEF Won
<1>2. w.claim = NoClaim
  BY DEF None
<1> QED
  BY <1>1, <1>2, ClaimIsPair

LEMMA MsgFields ==
    ASSUME NEW m \in Msg
    PROVE  /\ m.kind \in {"claim", "release", "note"} /\ m.renewal \in BOOLEAN
           /\ m.after \in 0 .. MaxMsgs /\ m.ttl \in Ttl \cup {0} /\ m.ttl \in Nat
           /\ m.at \in 0 .. MaxClock /\ m.at \in Nat
           /\ m.tseq \in 0 .. MaxMsgs /\ m.tseq \in Nat
           /\ m.claim \in ClaimId \cup {NoClaim} /\ m.from \in Agent \cup {Other}
           /\ m.at + m.ttl \in Nat
<1>1. /\ m.kind \in {"claim", "release", "note"} /\ m.renewal \in BOOLEAN
      /\ m.after \in 0 .. MaxMsgs /\ m.ttl \in Ttl \cup {0} /\ m.at \in 0 .. MaxClock
      /\ m.tseq \in 0 .. MaxMsgs
      /\ m.claim \in ClaimId \cup {NoClaim} /\ m.from \in Agent \cup {Other}
  BY DEF Msg
<1>2. m.ttl \in Nat
  <2>1. \A t \in Ttl : t \in Nat
    BY CoordinationAssumption
  <2> QED
    BY <1>1, <2>1
<1>3. m.at \in Nat /\ m.tseq \in Nat
  BY <1>1, CoordinationAssumption
<1> QED
  BY <1>1, <1>2, <1>3

LEMMA ApplyCases ==
    ASSUME NEW w, NEW m
    PROVE  \/ Apply(w, m) = w
           \/ /\ Opens(m) /\ (w = None \/ Succeeds(w, m))
              /\ Apply(w, m) = Winner(m)
           \/ /\ m.kind = "claim" /\ Renews(w, m) /\ w # None
              /\ Apply(w, m) = [w EXCEPT !.until = m.at + m.ttl]
           \/ /\ m.kind = "release" /\ m.from = w.from /\ m.claim = w.claim
              /\ w # None
              /\ Apply(w, m) = [w EXCEPT !.released = TRUE]
<1>1. CASE m.kind = "claim" /\ w = None
  <2>1. Apply(w, m) = IF m.renewal THEN None ELSE Winner(m)
    BY <1>1 DEF Apply
  <2> QED
    BY <1>1, <2>1 DEF Opens
<1>2. CASE m.kind = "claim" /\ w # None
  <2>1. Apply(w, m) = IF Renews(w, m) THEN [w EXCEPT !.until = m.at + m.ttl]
                      ELSE IF Succeeds(w, m) THEN Winner(m) ELSE w
    BY <1>2 DEF Apply
  <2>2. Succeeds(w, m) => ~m.renewal
    BY DEF Succeeds
  <2> QED
    BY <1>2, <2>1, <2>2, Zenon DEF Opens
<1>3. CASE m.kind = "release"
  <2>1. Apply(w, m) = IF w # None /\ m.from = w.from /\ m.claim = w.claim
                      THEN [w EXCEPT !.released = TRUE] ELSE w
    BY <1>3 DEF Apply
  <2> QED
    BY <1>3, <2>1
<1>4. CASE m.kind \notin {"claim", "release"}
  BY <1>4 DEF Apply
<1> QED
  BY <1>1, <1>2, <1>3, <1>4

\* The winner of the first n messages, each as the commands make them.
LEMMA EvaluateFounded ==
    ASSUME NEW s \in Seq(Msg), NEW f, f[0] = None,
           \A i \in 1 .. Len(s) : f[i] = Apply(f[i - 1], s[i]),
           \A i \in 1 .. Len(s) : Fits(s[i])
    PROVE  \A i \in 0 .. Len(s) : Founded(f[i], s, i)
<1> DEFINE P == {i \in Nat : Founded(f[i], s, i)}
<1>1. Len(s) \in Nat
  OBVIOUS
<1>2. 0 \in P
  BY DEF Founded
<1>3. ASSUME NEW i \in 1 .. Len(s), i - 1 \in P PROVE i \in P
  <2> DEFINE w == f[i - 1]
             m == s[i]
  <2>1. m \in Msg /\ Fits(m) /\ f[i] = Apply(w, m) /\ Founded(w, s, i - 1)
    BY <1>3
  <2>2. i - 1 \in Nat /\ 1 .. (i - 1) \subseteq 1 .. i /\ i \in 1 .. i /\ i \in Nat
    OBVIOUS
  <2> HIDE DEF w, m, P
  <2>3. CASE f[i] = w
    <3>1. Founded(w, s, i)
      BY <2>1, <2>2 DEF Founded
    <3> QED
      BY <2>2, <2>3, <3>1 DEF P
  <2>4. CASE Opens(m) /\ f[i] = Winner(m)
    <3>1. /\ m.claim \in ClaimId /\ m.claim[1] = m.from /\ m.from \in Agent
          /\ m.after \in 0 .. MaxMsgs /\ m.at \in Nat /\ m.ttl \in Nat
      BY <2>1, <2>4, MsgFields DEF Fits, Opens
    <3>2. f[i] \in Won /\ f[i].from = m.from /\ f[i].claim = m.claim
          /\ f[i].round = m.after /\ f[i].until = m.at + m.ttl
      BY <2>4, <3>1 DEF Winner, Won
    <3>3. Founded(f[i], s, i)
      BY <2>2, <2>4, <3>1, <3>2 DEF Founded, Opens, m
    <3> QED
      BY <2>2, <3>3 DEF P
  <2>5. CASE /\ m.kind = "claim" /\ Renews(w, m) /\ w # None
             /\ f[i] = [w EXCEPT !.until = m.at + m.ttl]
    <3>1. w \in Won
      BY <2>1, <2>5 DEF Founded
    <3>2. m.at + m.ttl \in Nat
      BY <2>1, MsgFields
    <3>3. /\ f[i] \in Won /\ f[i].from = w.from /\ f[i].claim = w.claim
          /\ f[i].round = w.round /\ f[i].until = m.at + m.ttl
      BY <2>5, <3>1, <3>2 DEF Won
    <3>4. m.claim = w.claim
      BY <2>5 DEF Renews
    <3>5. Founded(f[i], s, i)
      BY <2>1, <2>2, <2>5, <3>3, <3>4 DEF Founded, m
    <3> QED
      BY <2>2, <3>5 DEF P
  <2>6. CASE w # None /\ f[i] = [w EXCEPT !.released = TRUE]
    <3>1. w \in Won
      BY <2>1, <2>6 DEF Founded
    <3>2. /\ f[i] \in Won /\ f[i].from = w.from /\ f[i].claim = w.claim
          /\ f[i].round = w.round /\ f[i].until = w.until
      BY <2>6, <3>1 DEF Won
    <3>3. Founded(f[i], s, i)
      BY <2>1, <2>2, <2>6, <3>2 DEF Founded
    <3> QED
      BY <2>2, <3>3 DEF P
  <2> QED
    BY <2>1, <2>3, <2>4, <2>5, <2>6, ApplyCases
<1> HIDE DEF P
<1>4. \A i \in 1 .. Len(s) : i - 1 \in P => i \in P
  BY <1>3
<1>5. \A i \in 0 .. Len(s) : i \in P
  BY <1>1, <1>2, <1>4, UpTo
<1> QED
  BY <1>5 DEF P

LEMMA WinnerIsFounded ==
    ASSUME NEW s \in Seq(Msg), \A i \in 1 .. Len(s) : Fits(s[i])
    PROVE  Founded(Evaluate(s), s, Len(s))
<1>1. Len(s) \in Nat /\ Len(s) \in 0 .. Len(s)
  OBVIOUS
<1>2. PICK f : /\ Evaluate(s) = f[Len(s)] /\ f[0] = None
               /\ \A i \in 1 .. Len(s) : f[i] = Apply(f[i - 1], s[i])
  BY <1>1, EvaluateRuns
<1>3. \A i \in 0 .. Len(s) : Founded(f[i], s, i)
  BY <1>2, EvaluateFounded
<1> QED
  BY <1>1, <1>2, <1>3

\* A claim that was released after all that opened it stays released.
LEMMA ReleasedStays ==
    ASSUME NEW s \in Seq(Msg), \A i \in 1 .. Len(s) : Fits(s[i]),
           NEW j \in 1 .. Len(s), s[j].kind = "release",
           \A i \in 1 .. Len(s) : Opens(s[i]) /\ s[i].claim = s[j].claim => i < j
    PROVE  Evaluate(s).claim = s[j].claim => Evaluate(s).released
<1> DEFINE c == s[j].claim
<1>1. Len(s) \in Nat /\ Len(s) \in 0 .. Len(s)
  OBVIOUS
<1>2. PICK f : /\ Evaluate(s) = f[Len(s)] /\ f[0] = None
               /\ \A i \in 1 .. Len(s) : f[i] = Apply(f[i - 1], s[i])
  BY <1>1, EvaluateRuns
<1>3. \A i \in 0 .. Len(s) : Founded(f[i], s, i)
  BY <1>2, EvaluateFounded
<1>4. Fits(s[j])
  OBVIOUS
<1>5. c \in ClaimId /\ c[1] = s[j].from
  BY <1>4 DEF Fits
<1>6. None.claim # c
  BY <1>5, ClaimIsPair DEF None
<1> DEFINE P == {i \in Nat : i >= j /\ f[i].claim = c => f[i].released}
<1>7. 0 \in P
  OBVIOUS
<1>8. ASSUME NEW i \in 1 .. Len(s), i - 1 \in P PROVE i \in P
  <2> DEFINE w == f[i - 1]
             m == s[i]
  <2>1. /\ f[i] = Apply(w, m) /\ i \in Nat /\ i - 1 \in 0 .. Len(s)
    BY <1>2
  <2>2. w = None \/ (w \in Won /\ w.claim[1] = w.from)
    BY <1>3, <2>1 DEF Founded
  <2>3. i - 1 >= j /\ w.claim = c => w.released
    BY <1>8
  <2> SUFFICES ASSUME i >= j, f[i].claim = c PROVE f[i].released
    BY <2>1
  <2> HIDE DEF w, P, c
  <2>4. CASE f[i] = w
    <3>1. CASE i = j
      <4>1. m.kind = "release" /\ m.claim = c
        BY <3>1 DEF c
      <4>2. w # None /\ w.claim = c /\ w.from = m.from
        BY <1>5, <1>6, <2>2, <2>4, <3>1 DEF c
      <4>3. f[i] = [w EXCEPT !.released = TRUE]
        BY <2>1, <4>1, <4>2 DEF Apply
      <4> QED
        BY <2>2, <4>2, <4>3 DEF Won
    <3>2. CASE i - 1 >= j
      BY <2>3, <2>4, <3>2
    <3> QED
      BY <3>1, <3>2
  <2>5. CASE Opens(m) /\ f[i] = Winner(m)
    <3>1. m.claim = c
      BY <2>5 DEF Winner
    <3> QED
      BY <2>5, <3>1 DEF c
  <2>6. CASE /\ m.kind = "claim" /\ Renews(w, m) /\ w # None
             /\ f[i] = [w EXCEPT !.until = m.at + m.ttl]
    <3>1. w.claim = c /\ ~w.released
      BY <2>2, <2>6 DEF Won, Renews
    <3>2. i # j
      BY <2>6
    <3> QED
      BY <2>3, <3>1, <3>2
  <2>7. CASE w # None /\ f[i] = [w EXCEPT !.released = TRUE]
    BY <2>2, <2>7 DEF Won
  <2> QED
    BY <2>1, <2>4, <2>5, <2>6, <2>7, ApplyCases
<1> HIDE DEF P, c
<1>9. \A i \in 1 .. Len(s) : i - 1 \in P => i \in P
  BY <1>8
<1>10. \A i \in 0 .. Len(s) : i \in P
  BY <1>1, <1>7, <1>9, UpTo
<1> QED
  BY <1>1, <1>2, <1>10 DEF P, c

-----------------------------------------------------------------------------
(* What a sweep leaves.                                                    *)

Rising(s) == \A i, j \in 1 .. Len(s) : i < j => s[i].tseq < s[j].tseq

\* g holds what is left of the first messages of s.
Leavings(g, s) ==
    g = [i \in 0 .. Len(s) |->
            IF i = 0 THEN <<>>
            ELSE IF Keeps(s[i]) THEN Append(g[i - 1], s[i]) ELSE g[i - 1]]

LEMMA LeavingsExist ==
    ASSUME NEW s, Len(s) \in Nat
    PROVE  \E g : Leavings(g, s)
<1> DEFINE Step(t, i) == IF Keeps(s[i]) THEN Append(t, s[i]) ELSE t
           Upto(g, k) ==
               g = [i \in 0 .. k |-> IF i = 0 THEN <<>> ELSE Step(g[i - 1], i)]
           P == {k \in Nat : \E g : Upto(g, k)}
<1> HIDE DEF Step
<1>1. 0 \in P
  <2> DEFINE g == [i \in 0 .. 0 |-> <<>>]
  <2>1. Upto(g, 0)
    OBVIOUS
  <2> QED
    BY <2>1
<1>2. ASSUME NEW k \in 1 .. Len(s), k - 1 \in P PROVE k \in P
  <2>1. PICK h : Upto(h, k - 1)
    BY <1>2
  <2> DEFINE g == [i \in 0 .. k |-> IF i = k THEN Step(h[k - 1], k) ELSE h[i]]
  <2>2. ASSUME NEW i \in 0 .. k
        PROVE  g[i] = IF i = 0 THEN <<>> ELSE Step(g[i - 1], i)
    <3>1. CASE i = 0
      BY <2>1, <3>1
    <3>2. CASE i \in 1 .. k - 1
      <4>1. h[i] = Step(h[i - 1], i)
        BY <2>1, <3>2
      <4>2. g[i] = h[i] /\ g[i - 1] = h[i - 1]
        BY <3>2
      <4> QED
        BY <3>2, <4>1, <4>2
    <3>3. CASE i = k
      <4>1. g[i] = Step(h[k - 1], k) /\ g[i - 1] = h[k - 1]
        BY <3>3
      <4> QED
        BY <3>3, <4>1
    <3> QED
      BY <3>1, <3>2, <3>3
  <2>3. Upto(g, k)
    <3>1. g = [i \in 0 .. k |-> g[i]]
      OBVIOUS
    <3> HIDE DEF g
    <3> QED
      BY <2>2, <3>1
  <2>4. \E x : Upto(x, k)
    <3> HIDE DEF g, Upto
    <3> QED
      BY <2>3
  <2> HIDE DEF Upto
  <2> QED
    BY <2>4
<1> HIDE DEF P
<1>3. \A k \in 0 .. Len(s) : k \in P
  BY <1>1, <1>2, UpTo
<1>4. \E g : Upto(g, Len(s))
  <2>1. Len(s) \in 0 .. Len(s)
    OBVIOUS
  <2> QED
    BY <1>3, <2>1 DEF P
<1> QED
  BY <1>4 DEF Leavings, Step

\* t is what is left of the first n messages of s.
Leaves(t, s, n) ==
    /\ t \in Seq(Msg) /\ Len(t) <= n /\ Rising(t)
    /\ Len(t) = n => \A j \in 1 .. n : t[j] = s[j]
    /\ \A k \in 1 .. Len(t) : \E j \in 1 .. n : t[k] = s[j]
    /\ \A j \in 1 .. n : Keeps(s[j]) => \E k \in 1 .. Len(t) : t[k] = s[j]

LEMMA LeftLeaves ==
    ASSUME NEW s \in Seq(Msg), Rising(s)
    PROVE  Leaves(Left(s), s, Len(s))
<1>1. Len(s) \in Nat /\ Len(s) \in 0 .. Len(s)
  OBVIOUS
<1>2. \E g : Leavings(g, s) /\ Left(s) = g[Len(s)]
  BY <1>1, LeavingsExist DEF Left, Leavings
<1>3. PICK g : Leavings(g, s) /\ Left(s) = g[Len(s)]
  BY <1>2
<1>4. g[0] = <<>>
  BY <1>1, <1>3 DEF Leavings
<1>5. ASSUME NEW i \in 1 .. Len(s)
      PROVE  g[i] = IF Keeps(s[i]) THEN Append(g[i - 1], s[i]) ELSE g[i - 1]
  <2>1. i \in 0 .. Len(s) /\ i # 0
    BY <1>1
  <2>2. g[i] = IF i = 0 THEN <<>>
               ELSE IF Keeps(s[i]) THEN Append(g[i - 1], s[i]) ELSE g[i - 1]
    BY <1>3, <2>1 DEF Leavings
  <2> QED
    BY <2>1, <2>2
<1> DEFINE P == {i \in Nat : Leaves(g[i], s, i)}
<1>6. 0 \in P
  <2>1. /\ <<>> \in Seq(Msg) /\ Len(<<>>) = 0
    BY EmptySeq
  <2>2. Leaves(<<>>, s, 0)
    BY <2>1 DEF Leaves, Rising
  <2> QED
    BY <1>4, <2>2
<1>7. ASSUME NEW i \in 1 .. Len(s), i - 1 \in P PROVE i \in P
  <2> DEFINE t == g[i - 1]
  <2>1. /\ Leaves(t, s, i - 1) /\ i \in Nat /\ i - 1 \in Nat /\ s[i] \in Msg
        /\ 1 .. (i - 1) \subseteq 1 .. i /\ i \in 1 .. i
    BY <1>7
  <2>2. g[i] = IF Keeps(s[i]) THEN Append(t, s[i]) ELSE t
    BY <1>5
  <2> HIDE DEF t, P
  <2>3. t \in Seq(Msg) /\ Len(t) \in Nat /\ Len(t) <= i - 1
    BY <2>1 DEF Leaves
  <2>4. CASE ~Keeps(s[i])
    <3>1. g[i] = t
      BY <2>2, <2>4
    <3>2. Len(t) # i
      BY <2>1, <2>3
    <3>3. \A k \in 1 .. Len(t) : \E j \in 1 .. i : t[k] = s[j]
      BY <2>1 DEF Leaves
    <3>4. \A j \in 1 .. i : Keeps(s[j]) => \E k \in 1 .. Len(t) : t[k] = s[j]
      <4> SUFFICES ASSUME NEW j \in 1 .. i, Keeps(s[j])
                   PROVE  \E k \in 1 .. Len(t) : t[k] = s[j]
        OBVIOUS
      <4>1. j \in 1 .. (i - 1)
        BY <2>1, <2>4
      <4> QED
        BY <2>1, <4>1 DEF Leaves
    <3>5. Leaves(t, s, i)
      BY <2>1, <2>3, <3>2, <3>3, <3>4 DEF Leaves
    <3> QED
      BY <2>1, <3>1, <3>5 DEF P
  <2>5. CASE Keeps(s[i])
    <3> DEFINE u == Append(t, s[i])
    <3>1. /\ u \in Seq(Msg) /\ Len(u) = Len(t) + 1 /\ u[Len(t) + 1] = s[i]
          /\ \A k \in 1 .. Len(t) : u[k] = t[k]
      BY <2>1, <2>3, AppendProperties
    <3>2. g[i] = u
      BY <2>2, <2>5
    <3> HIDE DEF u
    <3>3. \A k \in 1 .. Len(u) : k \in 1 .. Len(t) \/ k = Len(t) + 1
      BY <2>3, <3>1
    <3>4. 1 .. Len(t) \subseteq 1 .. Len(u) /\ Len(t) + 1 \in 1 .. Len(u)
      BY <2>3, <3>1
    <3>5. Rising(u)
      <4> SUFFICES ASSUME NEW k \in 1 .. Len(u), NEW l \in 1 .. Len(u), k < l
                   PROVE  u[k].tseq < u[l].tseq
        BY DEF Rising
      <4>1. k \in 1 .. Len(t)
        BY <2>3, <3>1
      <4>2. CASE l \in 1 .. Len(t)
        BY <2>1, <3>1, <4>1, <4>2 DEF Leaves, Rising
      <4>3. CASE l = Len(t) + 1
        <5>1. PICK j \in 1 .. (i - 1) : t[k] = s[j]
          BY <2>1, <4>1 DEF Leaves
        <5>2. s[j].tseq < s[i].tseq
          BY <1>1, <2>1, <5>1 DEF Rising
        <5> QED
          BY <3>1, <4>1, <4>3, <5>1, <5>2
      <4> QED
        BY <3>3, <4>2, <4>3
    <3>6. Len(u) <= i
      BY <2>1, <2>3, <3>1
    <3>7. Len(u) = i => \A j \in 1 .. i : u[j] = s[j]
      <4> SUFFICES ASSUME Len(u) = i, NEW j \in 1 .. i PROVE u[j] = s[j]
        OBVIOUS
      <4>1. Len(t) = i - 1
        BY <2>1, <2>3, <3>1
      <4>2. CASE j = i
        BY <2>1, <3>1, <4>1, <4>2
      <4>3. CASE j \in 1 .. (i - 1)
        <5>1. Len(t) = i - 1 => \A k \in 1 .. (i - 1) : t[k] = s[k]
          BY <2>1 DEF Leaves
        <5>2. t[j] = s[j] /\ j \in 1 .. Len(t)
          BY <4>1, <4>3, <5>1
        <5> QED
          BY <3>1, <5>2
      <4> QED
        BY <2>1, <4>2, <4>3
    <3>8. \A k \in 1 .. Len(u) : \E j \in 1 .. i : u[k] = s[j]
      <4> SUFFICES ASSUME NEW k \in 1 .. Len(u) PROVE \E j \in 1 .. i : u[k] = s[j]
        OBVIOUS
      <4>1. CASE k \in 1 .. Len(t)
        <5>1. PICK j \in 1 .. (i - 1) : t[k] = s[j]
          BY <2>1, <4>1 DEF Leaves
        <5> QED
          BY <2>1, <3>1, <4>1, <5>1
      <4>2. CASE k = Len(t) + 1
        BY <2>1, <3>1, <4>2
      <4> QED
        BY <3>3, <4>1, <4>2
    <3>9. \A j \in 1 .. i : Keeps(s[j]) => \E k \in 1 .. Len(u) : u[k] = s[j]
      <4> SUFFICES ASSUME NEW j \in 1 .. i, Keeps(s[j])
                   PROVE  \E k \in 1 .. Len(u) : u[k] = s[j]
        OBVIOUS
      <4>1. CASE j = i
        BY <3>1, <3>4, <4>1
      <4>2. CASE j \in 1 .. (i - 1)
        <5>1. PICK k \in 1 .. Len(t) : t[k] = s[j]
          BY <2>1, <4>2 DEF Leaves
        <5> QED
          BY <3>1, <3>4, <5>1
      <4> QED
        BY <2>1, <4>1, <4>2
    <3>10. Leaves(u, s, i)
      BY <3>1, <3>5, <3>6, <3>7, <3>8, <3>9 DEF Leaves
    <3> QED
      BY <2>1, <3>2, <3>10 DEF P
  <2> QED
    BY <2>4, <2>5
<1> HIDE DEF P
<1>8. \A i \in 1 .. Len(s) : i - 1 \in P => i \in P
  BY <1>7
<1>9. \A i \in 0 .. Len(s) : i \in P
  BY <1>1, <1>6, <1>8, UpTo
<1> QED
  BY <1>1, <1>3, <1>9 DEF P

-----------------------------------------------------------------------------
(* What the invariant says at once.                                        *)

LEMMA Basics ==
    ASSUME IInv
    PROVE  /\ clock \in Nat /\ clock \in 0 .. MaxClock
           /\ lastTseq \in Nat /\ lastTseq \in 0 .. MaxMsgs
           /\ thread \in Seq(Msg) /\ Len(thread) \in Nat
           /\ DOMAIN thread = 1 .. Len(thread) /\ Rising(thread)
           /\ \A i \in 1 .. Len(thread) : thread[i] \in Stored
           /\ Stored \subseteq Msg /\ flight \subseteq Msg /\ Posts \subseteq Msg
           /\ \A m \in Stored : m.tseq \in 1 .. lastTseq /\ m.tseq # 0
           /\ \A m \in flight : /\ m.tseq = 0 /\ m.kind \in {"claim", "release"}
                                /\ m \notin Stored
                                /\ m.from \in Agent /\ m.claim \in ClaimId
                                /\ m.claim[1] = m.from
<1>1. thread \in Seq(Msg) /\ flight \subseteq Msg /\ clock \in 0 .. MaxClock
      /\ lastTseq \in 0 .. MaxMsgs
  BY DEF IInv, Types
<1>2. clock \in Nat /\ lastTseq \in Nat
  BY <1>1, CoordinationAssumption
<1>3. Len(thread) \in Nat /\ DOMAIN thread = 1 .. Len(thread)
  BY <1>1
<1>4. Rising(thread)
  BY <1>3 DEF IInv, InOrder, Rising
<1>5. \A i \in 1 .. Len(thread) : thread[i] \in Stored
  BY <1>3 DEF Stored
<1>6. Stored \subseteq Msg
  BY <1>1, <1>3 DEF Stored
<1>7. Posts \subseteq Msg
  BY <1>1, <1>6 DEF Posts
<1>8. \A m \in Stored : m.tseq \in 1 .. lastTseq /\ m.tseq # 0
  BY <1>2 DEF IInv, InOrder
<1>9. ASSUME NEW m \in flight
      PROVE  /\ m.tseq = 0 /\ m.kind \in {"claim", "release"} /\ m \notin Stored
             /\ m.from \in Agent /\ m.claim \in ClaimId /\ m.claim[1] = m.from
  <2>1. m.tseq = 0 /\ m.kind # "note" /\ Fits(m)
    BY DEF IInv, Made, Posts
  <2>2. m.kind \in {"claim", "release"}
    BY <1>1, <2>1, MsgFields
  <2> QED
    BY <1>8, <2>1, <2>2 DEF Fits
<1> QED
  BY <1>1, <1>2, <1>3, <1>4, <1>5, <1>6, <1>7, <1>8, <1>9

\* Whoever has won has won with its own claim, from a message of the thread.
LEMMA HolderFacts ==
    ASSUME IInv, NEW w, w = Evaluate(thread), w # None
    PROVE  /\ w \in Won /\ w.from \in Agent /\ w.claim \in ClaimId
           /\ w.claim[1] = w.from /\ w.until \in Nat /\ w.round \in 0 .. lastTseq
           /\ \E x \in Stored : /\ Opens(x) /\ x.claim = w.claim
                                /\ x.from = w.from /\ x.after = w.round
           /\ \E y \in Stored : /\ y.kind = "claim" /\ y.claim = w.claim
                                /\ w.until = y.at + y.ttl
<1>1. thread \in Seq(Msg) /\ \A i \in 1 .. Len(thread) : thread[i] \in Stored
  BY Basics
<1>2. \A i \in 1 .. Len(thread) : Fits(thread[i])
  BY <1>1 DEF IInv, Made, Posts
<1>3. Founded(w, thread, Len(thread))
  BY <1>1, <1>2, WinnerIsFounded
<1>4. /\ w \in Won /\ w.claim[1] = w.from
      /\ \E x \in 1 .. Len(thread) :
            /\ Opens(thread[x]) /\ thread[x].claim = w.claim
            /\ thread[x].from = w.from /\ thread[x].after = w.round
      /\ \E y \in 1 .. Len(thread) :
            /\ thread[y].kind = "claim" /\ thread[y].claim = w.claim
            /\ w.until = thread[y].at + thread[y].ttl
  BY <1>3 DEF Founded
<1>5. PICK x \in Stored : /\ Opens(x) /\ x.claim = w.claim
                          /\ x.from = w.from /\ x.after = w.round
  BY <1>1, <1>4
<1>6. \E y \in Stored : /\ y.kind = "claim" /\ y.claim = w.claim
                        /\ w.until = y.at + y.ttl
  BY <1>1, <1>4
<1>7. /\ w.from \in Agent /\ w.claim \in ClaimId /\ w.until \in Nat
      /\ w.round \in 0 .. MaxMsgs
  BY <1>4 DEF Won
<1>8. w.round <= lastTseq
  BY <1>5 DEF IInv, Made, Posts
<1>9. w.round \in 0 .. lastTseq
  BY <1>7, <1>8, Basics
<1> QED
  BY <1>4, <1>5, <1>6, <1>7, <1>9

LEMMA ClientFacts ==
    ASSUME IInv, NEW a \in Agent
    PROVE  /\ client[a].pc = "idle" => client[a] = Idle
           /\ client[a].pc # "idle" =>
                 /\ client[a] # Idle /\ client[a].msg \in Msg
                 /\ client[a].pc \in {"send", "wait", "check"}
                 /\ Fits(client[a].msg) /\ client[a].msg.from = a
                 /\ client[a].msg.kind \in {"claim", "release"}
                 /\ client[a].msg.claim \in ClaimId /\ client[a].msg.claim[1] = a
<1>1. client[a] \in Place
  BY DEF IInv, Types
<1>2. Idle.pc = "idle"
  BY DEF Idle
<1>3. client[a] # Idle => client[a] \in [pc : {"send", "wait", "check"}, msg : Msg]
  BY <1>1 DEF Place
<1>4. client[a] # Idle => /\ client[a].pc \in {"send", "wait", "check"}
                          /\ client[a].msg \in Msg
  BY <1>3
<1>5. client[a] # Idle => /\ Fits(client[a].msg) /\ client[a].msg.from = a
                          /\ client[a].msg.kind \in {"claim", "release"}
  BY DEF IInv, Made
<1> QED
  BY <1>2, <1>4, <1>5 DEF Fits

\* The theorem below: a released claim never holds the work again.
LEMMA ReleasedIsOver == IInv => ReleaseIsFinal
<1> SUFFICES ASSUME IInv, NEW w, w = Evaluate(thread), Active(w, clock),
                    w.claim \in freed
             PROVE  FALSE
  BY DEF ReleaseIsFinal
<1>1. w # None /\ ~w.released /\ w.until > clock
  BY DEF Active
<1>2. PICK y \in Stored : y.kind = "claim" /\ y.claim = w.claim /\ w.until = y.at + y.ttl
  BY <1>1, HolderFacts
<1>3. /\ thread \in Seq(Msg) /\ Len(thread) \in Nat /\ DOMAIN thread = 1 .. Len(thread)
      /\ Rising(thread) /\ Stored \subseteq Msg /\ clock \in Nat /\ Stored \subseteq Posts
      /\ \A i \in 1 .. Len(thread) : thread[i] \in Stored
  BY Basics DEF Posts
<1>4. CASE \E m \in Stored : m.kind = "release" /\ m.claim = w.claim /\ Last(m)
  <2>1. PICK m \in Stored : m.kind = "release" /\ m.claim = w.claim /\ Last(m)
    BY <1>4
  <2>2. PICK j \in 1 .. Len(thread) : thread[j] = m
    BY <1>3 DEF Stored
  <2>3. ASSUME NEW i \in 1 .. Len(thread), Opens(thread[i]),
               thread[i].claim = thread[j].claim
        PROVE  i < j
    <3>1. thread[i] \in Posts /\ thread[i].kind = "claim"
      BY <1>3, <2>3 DEF Opens
    <3>2. thread[i].tseq < m.tseq
      BY <2>1, <2>2, <2>3, <3>1 DEF Last
    <3>3. thread[i].tseq \in Nat /\ m.tseq \in Nat
      BY <1>3, MsgFields
    <3>4. ~(j < i) /\ i # j
      BY <1>3, <2>2, <3>2, <3>3 DEF Rising
    <3> QED
      BY <3>4
  <2>4. \A i \in 1 .. Len(thread) : Fits(thread[i])
    BY <1>3 DEF IInv, Made
  <2>5. w.released
    BY <1>3, <2>1, <2>2, <2>3, <2>4, ReleasedStays
  <2> QED
    BY <1>1, <2>5
<1>5. CASE /\ Retention > 0
           /\ \A x \in Posts : x.kind = "claim" /\ x.claim = w.claim
                            => x.at + Retention < clock
  <2>1. y.at + Retention < clock
    BY <1>2, <1>3, <1>5
  <2>2. y.ttl <= Retention /\ y.ttl \in Nat /\ y.at \in Nat /\ Retention \in Nat
    <3>1. y.ttl \in Ttl \cup {0} /\ y.ttl \in Nat /\ y.at \in Nat
      BY <1>2, <1>3, MsgFields
    <3>2. \A t \in Ttl : t <= Retention
      BY <1>5, CoordinationAssumption
    <3>3. Retention \in Nat
      BY CoordinationAssumption
    <3> QED
      BY <3>1, <3>2, <3>3
  <2> QED
    BY <1>1, <1>2, <1>3, <2>1, <2>2
<1> QED
  BY <1>4, <1>5 DEF IInv, ReleasesFit

\* Whoever was told that it holds the work has won, and its claim runs.
LEMMA HoldersWin ==
    ASSUME IInv, lastTseq = Len(thread), NEW a \in Agent, a \notin gaveUp, Holds(a),
           NEW w, w = Evaluate(thread)
    PROVE  /\ w # None /\ w \in Won /\ w.from = a /\ w.claim = held[a].claim
           /\ ~w.released /\ held[a].until <= w.until /\ Active(w, clock)
           /\ held[a].until \in Nat /\ clock < held[a].until
           /\ client[a] # Idle =>
                 LET m == client[a].msg
                 IN  /\ m.kind = "claim" /\ m.renewal
                     /\ m.claim = w.claim /\ m.after = w.round
                     /\ client[a].pc = "send" => held[a].until <= clock + m.ttl
                     /\ client[a].pc = "wait" => held[a].until <= m.at + m.ttl
<1>1. /\ w.from = a /\ w.claim = held[a].claim
      /\ ~w.released /\ held[a].until <= w.until
      /\ client[a] # Idle =>
            LET m == client[a].msg
            IN  /\ m.kind = "claim" /\ m.renewal
                /\ m.claim = w.claim /\ m.after = w.round
                /\ client[a].pc = "send" => held[a].until <= clock + m.ttl
                /\ client[a].pc = "wait" => held[a].until <= m.at + m.ttl
  BY DEF IInv, HeldFits
<1>2. held[a].claim # NoClaim /\ clock < held[a].until
  BY DEF Holds
<1>3. w # None
  BY <1>1, <1>2 DEF None
<1>4. w \in Won /\ w.until \in Nat
  BY <1>3, HolderFacts
<1>5. held[a].until \in Nat /\ clock \in Nat
  BY Basics DEF IInv, Types
<1>6. Active(w, clock)
  BY <1>1, <1>2, <1>3, <1>4, <1>5 DEF Active
<1> QED
  BY <1>1, <1>2, <1>3, <1>4, <1>5, <1>6

-----------------------------------------------------------------------------
(* The commands read and decide.                                           *)

\* A command that has decided what to post leaves the invariant as it is.
LEMMA SendKeeps ==
    ASSUME IInv, NEW a \in Agent, NEW msg \in Msg,
           client[a].pc = "idle", Send(a, msg),
           Fits(msg), msg.from = a, msg.kind \in {"claim", "release"},
           msg.tseq = 0, msg.after <= lastTseq,
           Opens(msg) => msg.claim = <<a, claims[a] + 1>>,
           ~Opens(msg) => \E x \in Stored : Opens(x) /\ x.claim = msg.claim /\ x.from = a,
           msg.claim \notin freed,
           held' \in [Agent -> [claim : ClaimId \cup {NoClaim}, until : Nat]],
           \A b \in Agent : b # a => held'[b] = held[b],
           lastTseq = Len(thread) /\ a \notin gaveUp /\ Holds(a)' =>
              /\ Holds(a) /\ held'[a].claim = held[a].claim
              /\ held'[a].until <= held[a].until
              /\ msg.kind = "claim" /\ msg.renewal
              /\ msg.claim = Evaluate(thread).claim
              /\ msg.after = Evaluate(thread).round
              /\ held'[a].until <= clock + msg.ttl,
           UNCHANGED <<clock, thread, lastTseq, flight, claims, freed, gaveUp>>
    PROVE  IInv'
<1>1. /\ client[a] = Idle /\ client \in [Agent -> Place] /\ client'[a].msg = msg
      /\ client'[a].pc = "send" /\ client' \in [Agent -> Place]
      /\ \A b \in Agent : b # a => client'[b] = client[b]
  BY ClientFacts DEF Send, IInv, Types, Place
<1>2. Stored' = Stored /\ Posts' = Posts
  BY DEF Stored, Posts
<1>3. Types'
  BY <1>1 DEF IInv, Types
<1>4. InOrder'
  BY <1>2 DEF IInv, InOrder
<1>5. Made'
  <2>1. \A b \in Agent : client'[b] # Idle =>
            /\ Fits(client'[b].msg) /\ client'[b].msg.from = b
            /\ client'[b].msg.kind \in {"claim", "release"}
            /\ client'[b].msg.after <= lastTseq
            /\ client'[b].pc = "send" /\ Opens(client'[b].msg)
                  => client'[b].msg.claim = <<b, claims[b] + 1>>
            /\ client'[b].pc # "check" => client'[b].msg.tseq = 0
    BY <1>1 DEF IInv, Made
  <2> QED
    BY <1>2, <2>1 DEF IInv, Made
<1>6. Waits'
  <2> SUFFICES ASSUME NEW m \in flight, m.from \notin gaveUp
               PROVE  client'[m.from].pc = "wait" /\ client'[m.from].msg = m
    BY DEF Waits
  <2>1. m.from \in Agent /\ client[m.from].pc = "wait" /\ client[m.from].msg = m
    BY Basics DEF IInv, Waits
  <2> QED
    BY <1>1, <2>1
<1>7. Used'
  <2>1. \A m \in Posts' : m.kind # "note" => m.claim[2] <= claims'[m.from]
    BY <1>2 DEF IInv, Used
  <2>2. \A c \in freed' : c[2] <= claims'[c[1]]
    BY DEF IInv, Used
  <2>3. \A b \in Agent : client'[b] # Idle /\ ~Opens(client'[b].msg)
                         => client'[b].msg.claim[2] <= claims'[b]
    <3>1. ~Opens(msg) => msg.claim[2] <= claims[a]
      BY DEF IInv, Used, Posts, Opens
    <3> QED
      BY <1>1, <3>1 DEF IInv, Used
  <2>4. ASSUME NEW m \in flight', Opens(m)
        PROVE  /\ \A x \in Posts' : x.claim = m.claim => x = m
               /\ client'[m.from] # Idle /\ ~Opens(client'[m.from].msg)
                     => client'[m.from].msg.claim # m.claim
               /\ m.claim \notin freed'
    <3>1. m \in flight /\ m \notin Stored /\ m.from \in Agent
      BY Basics
    <3>2. \A x \in Posts : x.claim = m.claim => x = m
      BY <2>4, <3>1 DEF IInv, Used
    <3>3. ~Opens(msg) => msg.claim # m.claim
      BY <3>1, <3>2 DEF Posts
    <3> QED
      BY <1>1, <1>2, <2>4, <3>1, <3>2, <3>3 DEF IInv, Used
  <2> QED
    BY <2>1, <2>2, <2>3, <2>4 DEF Used
<1>8. HeldFits'
  <2> SUFFICES ASSUME lastTseq = Len(thread), NEW b \in Agent, b \notin gaveUp, Holds(b)'
               PROVE  LET w == Evaluate(thread)
                          m == client'[b].msg
                      IN  /\ w.from = b /\ w.claim = held'[b].claim
                          /\ ~w.released /\ held'[b].until <= w.until
                          /\ client'[b] # Idle =>
                                /\ m.kind = "claim" /\ m.renewal
                                /\ m.claim = w.claim /\ m.after = w.round
                                /\ client'[b].pc = "send" => held'[b].until <= clock + m.ttl
                                /\ client'[b].pc = "wait" => held'[b].until <= m.at + m.ttl
    BY DEF HeldFits
  <2> DEFINE w == Evaluate(thread)
  <2> HIDE DEF w
  <2>1. CASE b = a
    <3>1. /\ Holds(a) /\ held'[a].claim = held[a].claim
          /\ held'[a].until <= held[a].until
          /\ msg.kind = "claim" /\ msg.renewal
          /\ msg.claim = w.claim /\ msg.after = w.round
          /\ held'[a].until <= clock + msg.ttl
      BY <2>1 DEF w
    <3>2. /\ w.from = a /\ w.claim = held[a].claim /\ ~w.released
          /\ held[a].until <= w.until /\ w \in Won /\ held[a].until \in Nat
      BY <2>1, <3>1, HoldersWin DEF w
    <3>3. held'[a].until \in Nat /\ w.until \in Nat
      BY <3>2 DEF Won
    <3>4. held'[a].until <= w.until
      BY <3>1, <3>2, <3>3
    <3> QED
      BY <1>1, <2>1, <3>1, <3>2, <3>4 DEF w
  <2>2. CASE b # a
    <3>1. Holds(b) /\ held'[b] = held[b] /\ client'[b] = client[b]
      BY <1>1, <2>2 DEF Holds
    <3> QED
      BY <3>1 DEF IInv, HeldFits
  <2> QED
    BY <2>1, <2>2
<1>9. ReleasesFit'
  <2>1. \A m : Last(m)' <=> Last(m)
    BY <1>2 DEF Last
  <2>2. ASSUME NEW b \in Agent, client'[b] # Idle, client'[b].pc # "send",
               client'[b].msg.kind = "release"
        PROVE  Last(client'[b].msg)
    BY <1>1, <2>2 DEF IInv, ReleasesFit
  <2>3. ASSUME NEW c \in freed
        PROVE  /\ client'[c[1]] # Idle => client'[c[1]].msg.claim # c
               /\ \/ \E m \in Stored : m.kind = "release" /\ m.claim = c /\ Last(m)
                  \/ /\ Retention > 0
                     /\ \A x \in Posts : x.kind = "claim" /\ x.claim = c
                                        => x.at + Retention < clock
    <3>1. c[1] \in Agent
      BY DEF IInv, Types, ClaimId
    <3> QED
      BY <1>1, <3>1 DEF IInv, ReleasesFit
  <2> QED
    BY <1>2, <2>1, <2>2, <2>3 DEF ReleasesFit
<1> QED
  BY <1>3, <1>4, <1>5, <1>6, <1>7, <1>8, <1>9 DEF IInv

\* A command that learns that another holds the work.
LEMMA LoseKeeps ==
    ASSUME IInv, NEW a \in Agent, held' = [held EXCEPT ![a] = Free],
           UNCHANGED <<clock, thread, lastTseq, flight, client, claims, freed, gaveUp>>
    PROVE  IInv'
<1>1. Free \in [claim : ClaimId \cup {NoClaim}, until : Nat]
  BY DEF Free
<1>2. /\ held' \in [Agent -> [claim : ClaimId \cup {NoClaim}, until : Nat]]
      /\ ~Holds(a)' /\ \A b \in Agent : b # a => held'[b] = held[b]
  BY <1>1 DEF IInv, Types, Holds, Free
<1>3. Stored' = Stored /\ Posts' = Posts
  BY DEF Stored, Posts
<1>4. Types'
  BY <1>2 DEF IInv, Types
<1>5. InOrder' /\ Made' /\ Waits' /\ Used'
  BY <1>3 DEF IInv, InOrder, Made, Waits, Used
<1>6. HeldFits'
  <2> SUFFICES ASSUME lastTseq = Len(thread), NEW b \in Agent, b \notin gaveUp, Holds(b)'
               PROVE  LET w == Evaluate(thread)
                          m == client[b].msg
                      IN  /\ w.from = b /\ w.claim = held'[b].claim
                          /\ ~w.released /\ held'[b].until <= w.until
                          /\ client[b] # Idle =>
                                /\ m.kind = "claim" /\ m.renewal
                                /\ m.claim = w.claim /\ m.after = w.round
                                /\ client[b].pc = "send" => held'[b].until <= clock + m.ttl
                                /\ client[b].pc = "wait" => held'[b].until <= m.at + m.ttl
    BY DEF HeldFits
  <2>1. Holds(b) /\ held'[b] = held[b]
    BY <1>2 DEF Holds
  <2> QED
    BY <2>1 DEF IInv, HeldFits
<1>7. ReleasesFit'
  BY <1>3 DEF IInv, ReleasesFit, Last
<1> QED
  BY <1>4, <1>5, <1>6, <1>7 DEF IInv

LEMMA HeadFacts == ASSUME IInv PROVE HeadOf \in 0 .. lastTseq /\ HeadOf \in 0 .. MaxMsgs
<1>1. thread = <<>> \/ Len(thread) \in 1 .. Len(thread)
  BY Basics, EmptySeq
<1>2. CASE thread = <<>>
  BY <1>2, Basics, CoordinationAssumption DEF HeadOf
<1>3. CASE Len(thread) \in 1 .. Len(thread)
  <2>1. thread[Len(thread)].tseq \in 1 .. lastTseq
    BY <1>3, Basics
  <2> QED
    BY <1>2, <2>1, Basics, CoordinationAssumption DEF HeadOf
<1> QED
  BY <1>1, <1>2, <1>3

LEMMA ClaimKeeps ==
    ASSUME IInv, NEW a \in Agent, NEW ttl \in Ttl, Claim(a, ttl)
    PROVE  IInv'
<1> DEFINE w == Evaluate(thread)
<1>1. client[a].pc = "idle"
      /\ UNCHANGED <<clock, thread, lastTseq, flight, claims, freed, gaveUp>>
  BY DEF Claim
<1>2. /\ held \in [Agent -> [claim : ClaimId \cup {NoClaim}, until : Nat]]
      /\ clock \in Nat /\ ttl \in Nat /\ held[a].until \in Nat
      /\ held[a].claim \in ClaimId \cup {NoClaim}
  BY Basics, CoordinationAssumption DEF IInv, Types
<1>3. CASE /\ held' = [held EXCEPT ![a] = Free]
           /\ UNCHANGED client
  BY <1>1, <1>3, LoseKeeps
<1>4. CASE /\ Active(w, clock) /\ w.from = a
           /\ Send(a, Draft("claim", a, w.claim, w.round, ttl, TRUE))
           /\ held' = [held EXCEPT ![a].until = Sooner(@, clock + ttl)]
  <2> DEFINE m == Draft("claim", a, w.claim, w.round, ttl, TRUE)
  <2>1. w # None
    BY <1>4 DEF Active
  <2>2. /\ w \in Won /\ w.claim \in ClaimId /\ w.claim[1] = a /\ w.round \in 0 .. lastTseq
        /\ \E x \in Stored : Opens(x) /\ x.claim = w.claim /\ x.from = a
    BY <1>4, <2>1, HolderFacts
  <2>3. w.round \in 0 .. MaxMsgs /\ w.round <= lastTseq
    BY <2>2, Basics DEF Won
  <2> HIDE DEF w
  <2>4. /\ m \in Msg /\ Fits(m) /\ m.kind = "claim" /\ m.from = a
        /\ m.claim = w.claim /\ m.after = w.round /\ m.ttl = ttl
        /\ m.renewal = TRUE /\ m.tseq = 0
    BY <2>2, <2>3, CoordinationAssumption DEF Draft, Msg, Fits
  <2>5. Send(a, m)
    BY <1>4
  <2>6. w.claim \notin freed
    BY <1>4, ReleasedIsOver DEF ReleaseIsFinal, w
  <2> DEFINE u == Sooner(held[a].until, clock + ttl)
  <2>7. u \in Nat /\ u <= held[a].until /\ u <= clock + ttl
    BY <1>2 DEF Sooner
  <2>8. held' = [held EXCEPT ![a].until = u]
    BY <1>4
  <2> HIDE DEF u, m
  <2>9. /\ held' \in [Agent -> [claim : ClaimId \cup {NoClaim}, until : Nat]]
        /\ held'[a].until = u /\ held'[a].claim = held[a].claim
        /\ \A b \in Agent : b # a => held'[b] = held[b]
    BY <1>2, <2>7, <2>8
  <2>10. Holds(a)' => Holds(a)
    BY <1>1, <1>2, <2>7, <2>9 DEF Holds
  <2>11. ~Opens(m)
    BY <2>4 DEF Opens
  <2> QED
    BY <1>1, <2>2, <2>3, <2>4, <2>5, <2>6, <2>7, <2>9, <2>10, <2>11, SendKeeps DEF w
<1>5. CASE /\ ~Active(w, clock) /\ claims[a] < MaxMsgs
           /\ Send(a, Draft("claim", a, <<a, claims[a] + 1>>, HeadOf, ttl, FALSE))
           /\ UNCHANGED held
  <2> DEFINE c == <<a, claims[a] + 1>>
             m == Draft("claim", a, c, HeadOf, ttl, FALSE)
  <2>1. claims[a] \in 0 .. MaxMsgs /\ MaxMsgs \in Nat
    BY CoordinationAssumption DEF IInv, Types
  <2>2. c \in ClaimId /\ c[1] = a /\ c[2] = claims[a] + 1
    BY <1>5, <2>1 DEF ClaimId
  <2>3. HeadOf \in 0 .. MaxMsgs /\ HeadOf <= lastTseq
    BY HeadFacts, Basics
  <2>4. c \notin freed
    <3>1. \A d \in freed : d[2] <= claims[d[1]]
      BY DEF IInv, Used
    <3>2. ~(c[2] <= claims[c[1]])
      BY <2>1, <2>2
    <3> QED
      BY <3>1, <3>2
  <2> HIDE DEF c
  <2>5. /\ m \in Msg /\ Fits(m) /\ m.kind = "claim" /\ m.from = a
        /\ m.claim = c /\ m.after = HeadOf /\ m.ttl = ttl
        /\ m.renewal = FALSE /\ m.tseq = 0
    BY <2>2, <2>3, CoordinationAssumption DEF Draft, Msg, Fits
  <2>6. Send(a, m)
    BY <1>5 DEF c
  <2>7. Opens(m) /\ m.claim = <<a, claims[a] + 1>>
    BY <2>5 DEF Opens, c
  <2>8. lastTseq = Len(thread) /\ a \notin gaveUp => ~Holds(a)'
    <3>1. Holds(a)' => Holds(a)
      BY <1>1, <1>5 DEF Holds
    <3> QED
      BY <1>5, <3>1, HoldersWin
  <2>9. /\ held' \in [Agent -> [claim : ClaimId \cup {NoClaim}, until : Nat]]
        /\ \A b \in Agent : b # a => held'[b] = held[b]
    BY <1>2, <1>5
  <2> HIDE DEF m, w
  <2> QED
    BY <1>1, <2>3, <2>4, <2>5, <2>6, <2>7, <2>8, <2>9, SendKeeps
<1> QED
  BY <1>3, <1>4, <1>5 DEF Claim

LEMMA ReleaseKeeps ==
    ASSUME IInv, NEW a \in Agent, Release(a)
    PROVE  IInv'
<1> DEFINE w == Evaluate(thread)
           m == Draft("release", a, w.claim, 0, 0, FALSE)
<1>1. /\ client[a].pc = "idle" /\ Active(w, clock) /\ w.from = a
      /\ Send(a, m) /\ held' = [held EXCEPT ![a] = Free]
      /\ UNCHANGED <<clock, thread, lastTseq, flight, claims, freed, gaveUp>>
  BY DEF Release
<1>2. w # None
  BY <1>1 DEF Active
<1>3. /\ w.claim \in ClaimId /\ w.claim[1] = a
      /\ \E x \in Stored : Opens(x) /\ x.claim = w.claim /\ x.from = a
  BY <1>1, <1>2, HolderFacts
<1>4. w.claim \notin freed
  BY <1>1, ReleasedIsOver DEF ReleaseIsFinal
<1>5. 0 \in 0 .. MaxMsgs /\ 0 <= lastTseq
  BY Basics, CoordinationAssumption
<1> HIDE DEF w
<1>6. /\ m \in Msg /\ Fits(m) /\ m.kind = "release" /\ m.from = a
      /\ m.claim = w.claim /\ m.after = 0 /\ m.tseq = 0
  BY <1>3, <1>5, CoordinationAssumption DEF Draft, Msg, Fits
<1> HIDE DEF m
<1>7. ~Opens(m)
  BY <1>6 DEF Opens
<1>8. Free \in [claim : ClaimId \cup {NoClaim}, until : Nat]
  BY DEF Free
<1>9. /\ held' \in [Agent -> [claim : ClaimId \cup {NoClaim}, until : Nat]]
      /\ ~Holds(a)' /\ \A b \in Agent : b # a => held'[b] = held[b]
  BY <1>1, <1>8 DEF IInv, Types, Holds, Free
<1> QED
  BY <1>1, <1>3, <1>4, <1>5, <1>6, <1>7, <1>9, SendKeeps

\* A command that ends in an error.
LEMMA GiveUpKeeps ==
    ASSUME IInv, NEW a \in Agent, GiveUp(a)
    PROVE  IInv'
<1>1. /\ client[a].pc # "idle" /\ client' = [client EXCEPT ![a] = Idle]
      /\ gaveUp' = IF client[a].pc = "wait" THEN gaveUp \cup {a} ELSE gaveUp
      /\ UNCHANGED <<clock, thread, lastTseq, flight, claims, held, freed>>
  BY DEF GiveUp
<1>2. /\ client \in [Agent -> Place] /\ client' \in [Agent -> Place]
      /\ client'[a] = Idle /\ \A b \in Agent : b # a => client'[b] = client[b]
      /\ gaveUp \subseteq gaveUp' /\ gaveUp' \subseteq Agent
  BY <1>1 DEF IInv, Types, Place
<1>3. Stored' = Stored /\ Posts' = Posts
  BY <1>1 DEF Stored, Posts
<1>4. Types'
  BY <1>1, <1>2 DEF IInv, Types
<1>5. InOrder'
  BY <1>1, <1>3 DEF IInv, InOrder
<1>6. Made'
  BY <1>1, <1>2, <1>3 DEF IInv, Made
<1>7. Waits'
  <2> SUFFICES ASSUME NEW m \in flight, m.from \notin gaveUp'
               PROVE  client'[m.from].pc = "wait" /\ client'[m.from].msg = m
    BY <1>1 DEF Waits
  <2>1. m.from \in Agent /\ client[m.from].pc = "wait" /\ client[m.from].msg = m
    BY <1>2, Basics DEF IInv, Waits
  <2> QED
    BY <1>1, <1>2, <2>1
<1>8. Used'
  BY <1>1, <1>2, <1>3, Basics DEF IInv, Used
<1>9. HeldFits'
  <2>1. \A b \in Agent : Holds(b)' <=> Holds(b)
    BY <1>1 DEF Holds
  <2> QED
    BY <1>1, <1>2, <2>1 DEF IInv, HeldFits
<1>10. ReleasesFit'
  <2>1. \A m : Last(m)' <=> Last(m)
    BY <1>3 DEF Last
  <2>2. \A c \in freed : c[1] \in Agent
    BY DEF IInv, Types, ClaimId
  <2> QED
    BY <1>1, <1>2, <1>3, <2>1, <2>2 DEF IInv, ReleasesFit
<1> QED
  BY <1>4, <1>5, <1>6, <1>7, <1>8, <1>9, <1>10 DEF IInv

-----------------------------------------------------------------------------
(* The relay stores.                                                       *)

LEMMA AppendFacts ==
    ASSUME IInv, NEW row \in Msg, thread' = Append(thread, row)
    PROVE  /\ thread' \in Seq(Msg) /\ Len(thread') = Len(thread) + 1
           /\ DOMAIN thread' = 1 .. Len(thread')
           /\ \A i \in 1 .. Len(thread') : i \in 1 .. Len(thread) \/ i = Len(thread) + 1
           /\ \A i \in 1 .. Len(thread) : thread'[i] = thread[i]
           /\ thread'[Len(thread) + 1] = row
           /\ Stored' = Stored \cup {row}
           /\ Evaluate(thread') = Apply(Evaluate(thread), row)
<1>1. thread \in Seq(Msg) /\ Len(thread) \in Nat /\ DOMAIN thread = 1 .. Len(thread)
  BY Basics
<1>2. /\ thread' \in Seq(Msg) /\ Len(thread') = Len(thread) + 1
      /\ \A i \in 1 .. Len(thread) : thread'[i] = thread[i]
      /\ thread'[Len(thread) + 1] = row
  BY <1>1, AppendProperties
<1>3. DOMAIN thread' = 1 .. Len(thread')
  BY <1>2
<1>4. \A i \in 1 .. Len(thread') : i \in 1 .. Len(thread) \/ i = Len(thread) + 1
  BY <1>1, <1>2
<1>5. 1 .. Len(thread) \subseteq 1 .. Len(thread') /\ Len(thread) + 1 \in 1 .. Len(thread')
  BY <1>1, <1>2
<1>6. Stored' = Stored \cup {row}
  BY <1>1, <1>2, <1>3, <1>4, <1>5 DEF Stored
<1>7. Evaluate(thread') = Apply(Evaluate(thread), row)
  BY <1>1, EvaluateAppend
<1> QED
  BY <1>2, <1>3, <1>4, <1>6, <1>7

\* The numbers go on going up.
LEMMA AppendInOrder ==
    ASSUME IInv, NEW row \in Msg, thread' = Append(thread, row),
           lastTseq' = lastTseq + 1, row.tseq = lastTseq + 1, row.at <= clock,
           clock' = clock, flight' \subseteq flight
    PROVE  InOrder'
<1>1. /\ thread' \in Seq(Msg) /\ Len(thread') = Len(thread) + 1
      /\ DOMAIN thread' = 1 .. Len(thread')
      /\ \A i \in 1 .. Len(thread') : i \in 1 .. Len(thread) \/ i = Len(thread) + 1
      /\ \A i \in 1 .. Len(thread) : thread'[i] = thread[i]
      /\ thread'[Len(thread) + 1] = row /\ Stored' = Stored \cup {row}
  BY AppendFacts
<1>2. lastTseq \in Nat /\ Len(thread) \in Nat
  BY Basics
<1>3. ASSUME NEW i \in DOMAIN thread', NEW j \in DOMAIN thread', i < j
      PROVE  thread'[i].tseq < thread'[j].tseq
  <2>1. i \in 1 .. Len(thread)
    BY <1>1, <1>2, <1>3
  <2>2. CASE j \in 1 .. Len(thread)
    BY <1>1, <1>3, <2>1, <2>2, Basics DEF Rising
  <2>3. CASE j = Len(thread) + 1
    <3>1. thread[i].tseq \in 1 .. lastTseq
      BY <2>1, Basics
    <3> QED
      BY <1>1, <1>2, <2>1, <2>3, <3>1
  <2> QED
    BY <1>1, <2>2, <2>3
<1>4. \A m \in Stored' : m.tseq \in 1 .. lastTseq'
  <2>1. \A m \in Stored : m.tseq \in 1 .. lastTseq
    BY Basics
  <2>2. 1 .. lastTseq \subseteq 1 .. (lastTseq + 1) /\ lastTseq + 1 \in 1 .. (lastTseq + 1)
    BY <1>2
  <2> QED
    BY <1>1, <2>1, <2>2
<1>5. \A m \in Posts' : m.at <= clock'
  BY <1>1 DEF Posts, IInv, InOrder
<1>6. Len(thread') <= lastTseq'
  BY <1>1, <1>2 DEF IInv, InOrder
<1> QED
  BY <1>3, <1>4, <1>5, <1>6 DEF InOrder

LEMMA NoteKeeps == IInv /\ Note => IInv'
<1> SUFFICES ASSUME IInv, Note PROVE IInv'
  OBVIOUS
<1> DEFINE row == [kind |-> "note", from |-> Other, claim |-> NoClaim, after |-> 0,
                   ttl |-> 0, renewal |-> FALSE, at |-> clock, tseq |-> lastTseq + 1]
<1>1. /\ lastTseq + Cardinality(flight) < MaxMsgs /\ lastTseq' = lastTseq + 1
      /\ thread' = Append(thread, row)
      /\ UNCHANGED <<clock, flight, client, claims, held, freed, gaveUp>>
  BY DEF Note
<1>2. /\ lastTseq \in Nat /\ Cardinality(flight) \in Nat /\ clock \in 0 .. MaxClock
      /\ MaxMsgs \in Nat
  BY Basics, FS_CardinalityType, CoordinationAssumption DEF IInv, Types
<1>3. lastTseq + 1 \in 0 .. MaxMsgs /\ 0 \in 0 .. MaxMsgs
  BY <1>1, <1>2
<1>4. /\ row \in Msg /\ Fits(row) /\ row.kind = "note" /\ row.tseq = lastTseq + 1
      /\ row.at = clock /\ row.after = 0 /\ row.claim = NoClaim
  BY <1>2, <1>3 DEF Msg, Fits
<1> HIDE DEF row
<1>5. thread' \in Seq(Msg) /\ Len(thread') = Len(thread) + 1 /\ Stored' = Stored \cup {row}
      /\ Evaluate(thread') = Apply(Evaluate(thread), row)
  BY <1>1, <1>4, AppendFacts
<1>6. Posts' = Posts \cup {row} /\ row.kind \notin {"claim", "release"}
  BY <1>1, <1>4, <1>5 DEF Posts
<1>7. Evaluate(thread') = Evaluate(thread)
  BY <1>4, <1>5, <1>6 DEF Apply
<1>8. Types'
  BY <1>1, <1>2, <1>3, <1>5 DEF IInv, Types
<1>9. InOrder'
  <2>1. row.at <= clock
    BY <1>2, <1>4
  <2> QED
    BY <1>1, <1>4, <2>1, AppendInOrder
<1>10. Made'
  <2>1. \A m \in Posts' : Fits(m) /\ m.after <= lastTseq'
    <3>1. \A m \in Posts : Fits(m) /\ m.after <= lastTseq /\ m.after \in Nat
      BY Basics, MsgFields, CoordinationAssumption DEF IInv, Made
    <3> QED
      BY <1>1, <1>2, <1>4, <1>6, <3>1
  <2>2. ~Opens(row)
    BY <1>6 DEF Opens
  <2>3. \A a \in Agent : client[a] # Idle =>
            client[a].msg.after <= lastTseq /\ client[a].msg.after \in Nat
    <3>1. \A a \in Agent : client[a] # Idle => client[a].msg \in Msg
      BY ClientFacts
    <3> QED
      BY <3>1, MsgFields, CoordinationAssumption DEF IInv, Made
  <2>4. \A a \in Agent : client[a] # Idle => client[a].msg.after <= lastTseq'
    BY <1>1, <1>2, <2>3
  <2> QED
    BY <1>1, <1>5, <2>1, <2>2, <2>4 DEF IInv, Made
<1>11. Waits'
  BY <1>1 DEF IInv, Waits
<1>12. Used'
  <2>1. \A m \in flight : row.claim # m.claim
    BY <1>4, ClaimIsPair, Basics
  <2> QED
    BY <1>1, <1>4, <1>6, <2>1 DEF IInv, Used
<1>13. HeldFits'
  <2>1. lastTseq' = Len(thread') => lastTseq = Len(thread)
    BY <1>1, <1>2, <1>5, Basics
  <2>2. \A a \in Agent : Holds(a)' <=> Holds(a)
    BY <1>1 DEF Holds
  <2> QED
    BY <1>1, <1>7, <2>1, <2>2 DEF IInv, HeldFits
<1>14. ReleasesFit'
  <2>1. ASSUME NEW m, Last(m), m \in Stored' => m \in Stored
        PROVE  Last(m)'
    BY <1>5, <1>6, <2>1 DEF Last
  <2>2. \A m \in Stored : m \in Stored' /\ (Last(m) => Last(m)')
    BY <1>5, <2>1
  <2>3. ASSUME NEW a \in Agent, client[a] # Idle, client[a].pc # "send",
               client[a].msg.kind = "release"
        PROVE  Last(client[a].msg)'
    <3>1. client[a].msg # row
      BY <1>4, <2>3
    <3> QED
      BY <1>1, <1>5, <2>1, <2>3, <3>1 DEF IInv, ReleasesFit
  <2>4. ASSUME NEW c \in freed
        PROVE  \/ \E m \in Stored' : m.kind = "release" /\ m.claim = c /\ Last(m)'
               \/ /\ Retention > 0
                  /\ \A x \in Posts' : x.kind = "claim" /\ x.claim = c
                                      => x.at + Retention < clock
    BY <1>6, <2>2 DEF IInv, ReleasesFit
  <2> QED
    BY <1>1, <2>3, <2>4 DEF IInv, ReleasesFit
<1> QED
  BY <1>8, <1>9, <1>10, <1>11, <1>12, <1>13, <1>14 DEF IInv

LEMMA StampKeeps ==
    ASSUME IInv, NEW a \in Agent, Stamp(a)
    PROVE  IInv'
<1> DEFINE m == [client[a].msg EXCEPT !.at = clock]
<1>1. /\ client[a].pc = "send" /\ lastTseq + Cardinality(flight) < MaxMsgs
      /\ m \notin flight /\ flight' = flight \cup {m}
      /\ client' = [client EXCEPT ![a] = [pc |-> "wait", msg |-> m]]
      /\ claims' = IF m.kind = "claim" /\ ~m.renewal
                   THEN [claims EXCEPT ![a] = @ + 1] ELSE claims
      /\ UNCHANGED <<clock, thread, lastTseq, held, freed, gaveUp>>
  BY DEF Stamp
<1>2. /\ client[a].msg \in Msg /\ Fits(client[a].msg) /\ client[a].msg.from = a
      /\ client[a].msg.kind \in {"claim", "release"} /\ client[a] # Idle
      /\ client[a].msg.claim \in ClaimId
  BY <1>1, ClientFacts
<1>3. client[a].msg.after <= lastTseq /\ client[a].msg.tseq = 0
  BY <1>1, <1>2 DEF IInv, Made
<1>4. /\ m \in Msg /\ Fits(m) /\ m.from = a /\ m.kind = client[a].msg.kind
      /\ m.kind \in {"claim", "release"} /\ m.claim = client[a].msg.claim
      /\ m.renewal = client[a].msg.renewal /\ m.after = client[a].msg.after
      /\ m.ttl = client[a].msg.ttl /\ m.after <= lastTseq /\ m.tseq = 0 /\ m.at = clock
  BY <1>2, <1>3, Basics DEF Msg, Fits
<1> HIDE DEF m
<1>5. Opens(m) <=> Opens(client[a].msg)
  BY <1>4 DEF Opens
<1>6. m.claim \in ClaimId /\ m.claim[1] = a
  BY <1>4 DEF Fits
<1>7. /\ client \in [Agent -> Place] /\ client' \in [Agent -> Place]
      /\ client'[a].pc = "wait" /\ client'[a].msg = m
      /\ \A b \in Agent : b # a => client'[b] = client[b]
  BY <1>1, <1>4 DEF IInv, Types, Place
<1>8. Stored' = Stored /\ Posts' = Posts \cup {m} /\ m \notin Stored
  BY <1>1, <1>4, Basics DEF Stored, Posts
<1>9. claims \in [Agent -> 0 .. MaxMsgs] /\ MaxMsgs \in Nat
  BY CoordinationAssumption DEF IInv, Types
<1>10. Opens(m) => m.claim = <<a, claims[a] + 1>> /\ m.claim[2] = claims[a] + 1
  BY <1>1, <1>2, <1>4, <1>5 DEF IInv, Made
<1>11. /\ claims' \in [Agent -> 0 .. MaxMsgs] /\ \A b \in Agent : claims[b] <= claims'[b]
       /\ Opens(m) => claims'[a] = claims[a] + 1
       /\ \A b \in Agent : b # a => claims'[b] = claims[b]
  <2>1. CASE Opens(m)
    <3>1. claims' = [claims EXCEPT ![a] = @ + 1]
      BY <1>1, <2>1 DEF Opens
    <3>2. m.claim[2] \in 1 .. MaxMsgs
      BY <1>6 DEF ClaimId
    <3> QED
      BY <1>9, <1>10, <2>1, <3>1, <3>2
  <2>2. CASE ~Opens(m)
    BY <1>1, <1>9, <2>2 DEF Opens
  <2> QED
    BY <2>1, <2>2
<1>12. Types'
  <2>1. IsFiniteSet(flight') /\ Cardinality(flight') = Cardinality(flight) + 1
    BY <1>1, FS_AddElement DEF IInv, Types
  <2>2. Cardinality(flight) \in Nat /\ lastTseq \in Nat
    BY Basics, FS_CardinalityType DEF IInv, Types
  <2>3. lastTseq + Cardinality(flight') <= MaxMsgs
    BY <1>1, <1>9, <2>1, <2>2
  <2>4. flight' \subseteq Msg
    BY <1>1, <1>4 DEF IInv, Types
  <2> QED
    BY <1>1, <1>7, <1>11, <2>1, <2>3, <2>4 DEF IInv, Types
<1>13. InOrder'
  <2>1. m.at <= clock
    BY <1>4, Basics
  <2> QED
    BY <1>1, <1>8, <2>1 DEF IInv, InOrder
<1>14. Made'
  BY <1>1, <1>4, <1>5, <1>7, <1>8, <1>11, <1>2 DEF IInv, Made
<1>15. Waits'
  BY <1>1, <1>4, <1>7, Basics DEF IInv, Waits
<1>16. Used'
  <2>1. ASSUME NEW x \in Posts, x.kind # "note"
        PROVE  /\ x.from \in Agent /\ x.claim[1] = x.from /\ x.claim \in ClaimId
               /\ x.claim[2] <= claims[x.from] /\ x.claim[2] <= claims'[x.from]
    <3>1. x \in Msg /\ Fits(x)
      BY Basics DEF IInv, Made
    <3>2. x.kind \in {"claim", "release"}
      BY <2>1, <3>1, MsgFields
    <3>3. x.from \in Agent /\ x.claim[1] = x.from /\ x.claim \in ClaimId
      BY <3>1, <3>2 DEF Fits
    <3>4. x.claim[2] <= claims[x.from] /\ x.claim[2] \in Nat
      BY <2>1, <3>3 DEF IInv, Used, ClaimId
    <3>5. claims[x.from] \in Nat /\ claims'[x.from] \in Nat
          /\ claims[x.from] <= claims'[x.from]
      BY <1>9, <1>11, <3>3
    <3> QED
      BY <3>3, <3>4, <3>5
  <2>2. m.claim[2] <= claims'[a]
    <3>1. ~Opens(m) => m.claim[2] <= claims[a]
      BY <1>2, <1>4, <1>5 DEF IInv, Used
    <3>2. claims[a] \in Nat /\ claims'[a] \in Nat /\ claims[a] <= claims'[a]
          /\ m.claim[2] \in Nat
      BY <1>6, <1>9, <1>11 DEF ClaimId
    <3> QED
      BY <1>10, <1>11, <3>1, <3>2
  <2>3. \A x \in Posts' : x.kind # "note" => x.claim[2] <= claims'[x.from]
    BY <1>4, <1>8, <2>1, <2>2
  <2>4. ASSUME NEW c \in freed PROVE c[2] <= claims[c[1]] /\ c[2] <= claims'[c[1]]
    <3>1. c[1] \in Agent /\ c[2] \in Nat
      BY DEF IInv, Types, ClaimId
    <3>2. c[2] <= claims[c[1]]
      BY DEF IInv, Used
    <3>3. claims[c[1]] \in Nat /\ claims'[c[1]] \in Nat /\ claims[c[1]] <= claims'[c[1]]
      BY <1>9, <1>11, <3>1
    <3> QED
      BY <3>1, <3>2, <3>3
  <2>5. \A b \in Agent : client'[b] # Idle /\ ~Opens(client'[b].msg)
                         => client'[b].msg.claim[2] <= claims'[b]
    BY <1>7, <1>11, <2>2 DEF IInv, Used
  <2>6. ASSUME NEW x \in flight', Opens(x)
        PROVE  /\ \A y \in Posts' : y.claim = x.claim => y = x
               /\ client'[x.from] # Idle /\ ~Opens(client'[x.from].msg)
                     => client'[x.from].msg.claim # x.claim
               /\ x.claim \notin freed
    <3>1. Opens(m) => \A y \in Posts : y.claim # m.claim
      <4> SUFFICES ASSUME Opens(m), NEW y \in Posts, y.claim = m.claim PROVE FALSE
        OBVIOUS
      <4>1. y.kind # "note"
        <5>1. m.claim # NoClaim
          BY <1>6, ClaimIsPair
        <5> QED
          BY <5>1 DEF IInv, Made, Fits
      <4>2. y.claim[2] <= claims[a]
        BY <1>6, <2>1, <4>1
      <4>3. claims[a] \in Nat
        BY <1>9
      <4> QED
        BY <1>10, <4>2, <4>3
    <3>2. CASE x = m
      <4>1. \A y \in Posts' : y.claim = x.claim => y = x
        BY <1>8, <2>6, <3>1, <3>2
      <4>2. Opens(client'[x.from].msg)
        BY <1>4, <1>7, <2>6, <3>2
      <4>3. x.claim \notin freed
        <5>1. m.claim \in freed => claims[a] + 1 <= claims[a]
          BY <1>6, <1>10, <2>4, <2>6, <3>2
        <5> QED
          BY <1>9, <3>2, <5>1
      <4> QED
        BY <4>1, <4>2, <4>3
    <3>3. CASE x \in flight
      <4>1. /\ \A y \in Posts : y.claim = x.claim => y = x
            /\ client[x.from] # Idle /\ ~Opens(client[x.from].msg)
                  => client[x.from].msg.claim # x.claim
            /\ x.claim \notin freed /\ x \in Posts /\ x.from \in Agent
            /\ x.claim[1] = x.from
        BY <2>6, <3>3, Basics DEF IInv, Used, Posts
      <4>2. m.claim # x.claim
        BY <1>2, <1>4, <1>5, <1>6, <3>1, <4>1
      <4>3. client'[x.from] # Idle /\ ~Opens(client'[x.from].msg)
                  => client'[x.from].msg.claim # x.claim
        BY <1>7, <4>1, <4>2
      <4> QED
        BY <1>8, <4>1, <4>2, <4>3
    <3> QED
      BY <1>1, <3>2, <3>3
  <2> QED
    BY <1>1, <2>3, <2>4, <2>5, <2>6 DEF Used
<1>17. HeldFits'
  <2> SUFFICES ASSUME lastTseq = Len(thread), NEW b \in Agent, b \notin gaveUp, Holds(b)'
               PROVE  LET w == Evaluate(thread)
                          x == client'[b].msg
                      IN  /\ w.from = b /\ w.claim = held[b].claim
                          /\ ~w.released /\ held[b].until <= w.until
                          /\ client'[b] # Idle =>
                                /\ x.kind = "claim" /\ x.renewal
                                /\ x.claim = w.claim /\ x.after = w.round
                                /\ client'[b].pc = "send" => held[b].until <= clock + x.ttl
                                /\ client'[b].pc = "wait" => held[b].until <= x.at + x.ttl
    BY <1>1 DEF HeldFits
  <2>1. Holds(b)
    BY <1>1 DEF Holds
  <2>2. CASE b = a
    BY <1>1, <1>2, <1>4, <1>7, <2>1, <2>2 DEF IInv, HeldFits
  <2>3. CASE b # a
    BY <1>7, <2>1, <2>3 DEF IInv, HeldFits
  <2> QED
    BY <2>2, <2>3
<1>18. ReleasesFit'
  <2>1. ASSUME NEW x, Last(x), m.claim # x.claim PROVE Last(x)'
    BY <1>8, <2>1 DEF Last
  <2>2. ASSUME NEW b \in Agent, client'[b] # Idle, client'[b].pc # "send",
               client'[b].msg.kind = "release"
        PROVE  Last(client[b].msg)'
    <3>1. CASE b = a
      <4>1. ~Opens(m) /\ m.kind = "release"
        BY <1>7, <2>2, <3>1 DEF Opens
      <4>2. ASSUME NEW x \in Posts', x.kind = "claim", x.claim = m.claim
            PROVE  x.at <= m.at /\ (Opens(x) => x \in Stored)
        <5>1. x \in Posts
          BY <1>8, <4>1, <4>2
        <5>2. x.at <= m.at
          BY <1>4, <5>1 DEF IInv, InOrder
        <5>3. Opens(x) => x \in Stored
          <6> SUFFICES ASSUME Opens(x), x \in flight PROVE FALSE
            BY <5>1 DEF Posts
          <6>1. x.from = a
            BY <1>6, <4>2, Basics
          <6> QED
            BY <1>2, <1>4, <1>5, <4>1, <4>2, <6>1 DEF IInv, Used
        <5> QED
          BY <5>2, <5>3
      <4> QED
        BY <1>1, <1>7, <1>8, <3>1, <4>2 DEF Last
    <3>2. CASE b # a
      <4>1. client'[b] = client[b] /\ client[b].msg.claim[1] = b
        BY <1>7, <2>2, <3>2, ClientFacts DEF Idle
      <4>2. Last(client[b].msg)
        BY <2>2, <4>1 DEF IInv, ReleasesFit
      <4> QED
        BY <1>6, <2>1, <3>2, <4>1, <4>2
    <3> QED
      BY <3>1, <3>2
  <2>3. ASSUME NEW c \in freed
        PROVE  /\ client'[c[1]] # Idle => client'[c[1]].msg.claim # c
               /\ \/ \E x \in Stored : x.kind = "release" /\ x.claim = c /\ Last(x)'
                  \/ /\ Retention > 0
                     /\ \A x \in Posts' : x.kind = "claim" /\ x.claim = c
                                         => x.at + Retention < clock
    <3>1. c[1] \in Agent
      BY DEF IInv, Types, ClaimId
    <3>2. client[c[1]] # Idle => client[c[1]].msg.claim # c
      BY DEF IInv, ReleasesFit
    <3>3. m.claim # c
      BY <1>2, <1>4, <1>6, <3>2
    <3>4. client'[c[1]] # Idle => client'[c[1]].msg.claim # c
      BY <1>7, <3>1, <3>2, <3>3
    <3>5. \/ \E x \in Stored : x.kind = "release" /\ x.claim = c /\ Last(x)
          \/ /\ Retention > 0
             /\ \A x \in Posts : x.kind = "claim" /\ x.claim = c
                                => x.at + Retention < clock
      BY DEF IInv, ReleasesFit
    <3> QED
      BY <1>8, <2>1, <3>3, <3>4, <3>5
  <2> QED
    BY <1>1, <1>8, <2>2, <2>3 DEF ReleasesFit
<1> QED
  BY <1>12, <1>13, <1>14, <1>15, <1>16, <1>17, <1>18 DEF IInv

LEMMA StorePostKeeps ==
    ASSUME IInv, NEW m \in flight, StorePost(m)
    PROVE  IInv'
<1>0. PICK row : row = [m EXCEPT !.tseq = lastTseq + 1]
  OBVIOUS
<1> DEFINE w == Evaluate(thread)
<1>1. /\ flight' = flight \ {m} /\ lastTseq' = lastTseq + 1
      /\ thread' = Append(thread, row)
      /\ client' = [a \in Agent |->
             IF client[a].pc = "wait" /\ client[a].msg = m
             THEN [pc |-> "check", msg |-> row] ELSE client[a]]
      /\ UNCHANGED <<clock, claims, held, freed, gaveUp>>
  <2>1. row.tseq = lastTseq + 1
    BY <1>0, Basics DEF Msg
  <2> QED
    BY <1>0, <2>1 DEF StorePost
<1>2. /\ m \in Msg /\ m.tseq = 0 /\ m.kind \in {"claim", "release"} /\ m \in Posts
      /\ m.from \in Agent /\ m.claim \in ClaimId /\ m.claim[1] = m.from
      /\ Fits(m) /\ m.after <= lastTseq /\ m \notin Stored /\ m.at <= clock
  BY Basics DEF IInv, Made, InOrder, Posts
<1>3. IsFiniteSet(flight') /\ Cardinality(flight') = Cardinality(flight) - 1
      /\ Cardinality(flight) \in Nat
  BY <1>1, FS_RemoveElement, FS_CardinalityType DEF IInv, Types
<1>4. /\ lastTseq \in Nat /\ MaxMsgs \in Nat /\ lastTseq + 1 \in 0 .. MaxMsgs
      /\ lastTseq' + Cardinality(flight') <= MaxMsgs
  <2>1. lastTseq + Cardinality(flight) <= MaxMsgs /\ lastTseq \in Nat /\ MaxMsgs \in Nat
    BY Basics, CoordinationAssumption DEF IInv, Types
  <2>2. Cardinality(flight) >= 1
    BY <1>3, FS_CardinalityType
  <2> QED
    BY <1>1, <1>3, <2>1, <2>2
<1>5. /\ row \in Msg /\ row.tseq = lastTseq + 1 /\ Fits(row) /\ row.kind = m.kind
      /\ row.from = m.from /\ row.claim = m.claim /\ row.renewal = m.renewal
      /\ row.after = m.after /\ row.at = m.at /\ row.ttl = m.ttl
  BY <1>0, <1>2, <1>4 DEF Msg, Fits
<1>6. Opens(row) <=> Opens(m)
  BY <1>5 DEF Opens
<1>7. /\ thread' \in Seq(Msg) /\ Len(thread') = Len(thread) + 1
      /\ Stored' = Stored \cup {row} /\ Evaluate(thread') = Apply(w, row)
  BY <1>1, <1>5, AppendFacts
<1>8. Posts' = (Posts \ {m}) \cup {row}
  BY <1>1, <1>2, <1>7 DEF Posts
<1>9. \A x \in Posts : x # row
  <2>1. ASSUME NEW x \in Stored PROVE x # row
    <3>1. x.tseq \in 1 .. lastTseq
      BY Basics
    <3> QED
      BY <1>4, <1>5, <3>1
  <2>2. ASSUME NEW x \in flight PROVE x # row
    BY <1>4, <1>5, Basics
  <2> QED
    BY <2>1, <2>2 DEF Posts
<1>10. /\ client \in [Agent -> Place] /\ client' \in [Agent -> Place]
       /\ \A a \in Agent : \/ client'[a] = client[a]
                           \/ /\ client[a].pc = "wait" /\ client[a].msg = m
                              /\ client'[a].pc = "check" /\ client'[a].msg = row
                              /\ a = m.from /\ client'[a] # Idle /\ client[a] # Idle
  <2>1. client \in [Agent -> Place] /\ client' \in [Agent -> Place]
    BY <1>1, <1>5 DEF IInv, Types, Place
  <2>2. ASSUME NEW a \in Agent, client[a].pc = "wait", client[a].msg = m
        PROVE  /\ client'[a].pc = "check" /\ client'[a].msg = row
               /\ a = m.from /\ client'[a] # Idle /\ client[a] # Idle
    <3>1. client'[a] = [pc |-> "check", msg |-> row]
      BY <1>1, <2>2
    <3>2. client[a] # Idle /\ m.from = a
      BY <2>2, ClientFacts
    <3> QED
      BY <3>1, <3>2 DEF Idle
  <2> QED
    BY <1>1, <2>1, <2>2
<1> HIDE DEF w
<1>11. Types'
  BY <1>1, <1>3, <1>4, <1>7, <1>10 DEF IInv, Types
<1>12. InOrder'
  BY <1>1, <1>2, <1>5, AppendInOrder
<1>13. Made'
  <2>1. \A x \in Posts' : Fits(x) /\ x.after <= lastTseq'
    <3>1. \A x \in Posts : Fits(x) /\ x.after <= lastTseq /\ x.after \in Nat
      BY Basics, MsgFields, CoordinationAssumption DEF IInv, Made
    <3> QED
      BY <1>1, <1>2, <1>4, <1>5, <1>8, <3>1
  <2>2. \A x \in Stored' : Opens(x) => x.after < x.tseq
    <3>1. row.after < row.tseq
      BY <1>2, <1>4, <1>5, MsgFields
    <3> QED
      BY <1>7, <3>1 DEF IInv, Made
  <2>3. \A x \in flight' : x.kind # "note" /\ x.tseq = 0
    BY <1>1 DEF IInv, Made
  <2>4. ASSUME NEW a \in Agent, client'[a] # Idle
        PROVE  /\ Fits(client'[a].msg) /\ client'[a].msg.from = a
               /\ client'[a].msg.kind \in {"claim", "release"}
               /\ client'[a].msg.after <= lastTseq'
               /\ client'[a].pc = "send" /\ Opens(client'[a].msg)
                     => client'[a].msg.claim = <<a, claims'[a] + 1>>
               /\ client'[a].pc # "check" => client'[a].msg.tseq = 0
    <3>1. CASE client'[a] = client[a]
      <4>1. /\ Fits(client[a].msg) /\ client[a].msg.from = a
            /\ client[a].msg.kind \in {"claim", "release"}
            /\ client[a].msg.after <= lastTseq
            /\ client[a].pc = "send" /\ Opens(client[a].msg)
                  => client[a].msg.claim = <<a, claims[a] + 1>>
            /\ client[a].pc # "check" => client[a].msg.tseq = 0
        BY <2>4, <3>1 DEF IInv, Made
      <4>2. client[a].pc # "idle" => client[a].msg \in Msg
        BY ClientFacts
      <4>3. client[a].pc # "idle"
        BY <2>4, <3>1, ClientFacts
      <4>4. client[a].msg.after \in Nat
        BY <4>2, <4>3, MsgFields, CoordinationAssumption
      <4>5. client[a].msg.after <= lastTseq'
        BY <1>1, <1>4, <4>1, <4>4
      <4> QED
        BY <1>1, <3>1, <4>1, <4>5
    <3>2. CASE client'[a].pc = "check" /\ client'[a].msg = row /\ a = m.from
      <4>1. row.after <= lastTseq'
        BY <1>1, <1>2, <1>4, <1>5, MsgFields
      <4> QED
        BY <1>2, <1>5, <3>2, <4>1
    <3> QED
      BY <1>10, <3>1, <3>2
  <2> QED
    BY <2>1, <2>2, <2>3, <2>4 DEF Made
<1>14. Waits'
  <2> SUFFICES ASSUME NEW x \in flight', x.from \notin gaveUp'
               PROVE  client'[x.from].pc = "wait" /\ client'[x.from].msg = x
    BY DEF Waits
  <2>1. x \in flight /\ x # m /\ x.from \in Agent
    BY <1>1, Basics
  <2>2. client[x.from].pc = "wait" /\ client[x.from].msg = x
    BY <1>1, <2>1 DEF IInv, Waits
  <2> QED
    BY <1>10, <2>1, <2>2
<1>15. Used'
  <2>1. \A x \in Posts' : x.kind # "note" => x.claim[2] <= claims'[x.from]
    BY <1>1, <1>2, <1>5, <1>8 DEF IInv, Used
  <2>2. \A c \in freed' : c[2] <= claims'[c[1]]
    BY <1>1 DEF IInv, Used
  <2>3. \A a \in Agent : client'[a] # Idle /\ ~Opens(client'[a].msg)
                         => client'[a].msg.claim[2] <= claims'[a]
    BY <1>1, <1>5, <1>6, <1>10 DEF IInv, Used
  <2>4. ASSUME NEW x \in flight', Opens(x)
        PROVE  /\ \A y \in Posts' : y.claim = x.claim => y = x
               /\ client'[x.from] # Idle /\ ~Opens(client'[x.from].msg)
                     => client'[x.from].msg.claim # x.claim
               /\ x.claim \notin freed'
    <3>1. x \in flight /\ x # m /\ x.from \in Agent
      BY <1>1, Basics
    <3>2. /\ \A y \in Posts : y.claim = x.claim => y = x
          /\ client[x.from] # Idle /\ ~Opens(client[x.from].msg)
                => client[x.from].msg.claim # x.claim
          /\ x.claim \notin freed
      BY <2>4, <3>1 DEF IInv, Used
    <3>3. row.claim # x.claim
      BY <1>2, <1>5, <3>1, <3>2
    <3> QED
      BY <1>1, <1>5, <1>8, <1>10, <3>1, <3>2, <3>3
  <2> QED
    BY <2>1, <2>2, <2>3, <2>4 DEF Used
<1>16. HeldFits'
  <2> SUFFICES ASSUME lastTseq' = Len(thread'), NEW b \in Agent, b \notin gaveUp, Holds(b)'
               PROVE  LET v == Evaluate(thread')
                          x == client'[b].msg
                      IN  /\ v.from = b /\ v.claim = held[b].claim
                          /\ ~v.released /\ held[b].until <= v.until
                          /\ client'[b] # Idle =>
                                /\ x.kind = "claim" /\ x.renewal
                                /\ x.claim = v.claim /\ x.after = v.round
                                /\ client'[b].pc = "send" => held[b].until <= clock + x.ttl
                                /\ client'[b].pc = "wait" => held[b].until <= x.at + x.ttl
    BY <1>1 DEF HeldFits
  <2>1. lastTseq = Len(thread) /\ Holds(b)
    <3>1. Holds(b)
      BY <1>1 DEF Holds
    <3>2. Len(thread) \in Nat
      BY Basics
    <3>3. lastTseq + 1 = Len(thread) + 1
      BY <1>1, <1>7
    <3>4. lastTseq = Len(thread)
      BY <1>4, <3>2, <3>3
    <3> QED
      BY <3>1, <3>4
  <2>2. /\ w # None /\ w \in Won /\ w.from = b /\ w.claim = held[b].claim
        /\ ~w.released /\ held[b].until <= w.until
        /\ held[b].until \in Nat /\ clock < held[b].until
        /\ client[b] # Idle =>
              /\ client[b].msg.kind = "claim" /\ client[b].msg.renewal
              /\ client[b].msg.claim = w.claim /\ client[b].msg.after = w.round
              /\ client[b].pc = "send" => held[b].until <= clock + client[b].msg.ttl
              /\ client[b].pc = "wait" => held[b].until <= client[b].msg.at + client[b].msg.ttl
    BY <2>1, HoldersWin DEF w
  <2>3. m.at < w.until /\ ~(w.until <= m.at)
    <3>1. m.at \in Nat /\ clock \in Nat /\ w.until \in Nat
      BY <1>2, <2>2, Basics, MsgFields DEF Won
    <3> QED
      BY <1>2, <2>2, <3>1
  <2>4. CASE m.from = b
    <3>1. client[b].pc = "wait" /\ client[b].msg = m
      BY <2>4 DEF IInv, Waits
    <3>2. /\ client[b] # Idle /\ client'[b].pc = "check" /\ client'[b].msg = row
      <4>1. client'[b] = [pc |-> "check", msg |-> row]
        BY <1>1, <3>1
      <4> QED
        BY <3>1, <4>1 DEF Idle
    <3>3. /\ m.kind = "claim" /\ m.renewal /\ m.claim = w.claim /\ m.after = w.round
          /\ held[b].until <= m.at + m.ttl
      BY <2>2, <3>1, <3>2
    <3>4. Renews(w, row)
      BY <1>5, <2>2, <2>3, <2>4, <3>3 DEF Renews
    <3>5. Apply(w, row) = [w EXCEPT !.until = row.at + row.ttl]
      BY <1>5, <2>2, <3>3, <3>4 DEF Apply
    <3>6. /\ Apply(w, row).from = w.from /\ Apply(w, row).claim = w.claim
          /\ Apply(w, row).released = w.released /\ Apply(w, row).round = w.round
          /\ Apply(w, row).until = m.at + m.ttl
      BY <1>5, <2>2, <3>5 DEF Won
    <3> QED
      <4> DEFINE v == Apply(w, row)
      <4>1. /\ v.from = b /\ v.claim = held[b].claim /\ ~v.released
            /\ held[b].until <= v.until /\ v.claim = w.claim /\ v.round = w.round
        BY <2>2, <3>3, <3>6
      <4>2. /\ row.kind = "claim" /\ row.renewal /\ row.claim = w.claim
            /\ row.after = w.round
        BY <1>5, <3>3
      <4> HIDE DEF v
      <4>3. Evaluate(thread') = v
        BY <1>7 DEF v
      <4> QED
        BY <3>2, <4>1, <4>2, <4>3
  <2>5. CASE m.from # b
    <3>1. Apply(w, row) = w
      <4>1. ~Renews(w, row) /\ ~Succeeds(w, row)
        BY <1>5, <2>2, <2>3, <2>5 DEF Renews, Succeeds
      <4>2. row.kind \in {"claim", "release"} /\ row.from # w.from
        BY <1>2, <1>5, <2>2, <2>5
      <4> QED
        BY <2>2, <4>1, <4>2 DEF Apply
    <3>2. client'[b] = client[b]
      BY <1>10, <2>5
    <3> QED
      BY <1>7, <2>2, <3>1, <3>2
  <2> QED
    BY <2>4, <2>5
<1>17. ReleasesFit'
  <2>1. ASSUME NEW x, Last(x), x # row
        PROVE  Last(x)'
    <3> SUFFICES ASSUME NEW y \in Posts', y.kind = "claim", y.claim = x.claim
                 PROVE  /\ y.at <= x.at
                        /\ Opens(y) => y \in Stored' /\ (x \in Stored' => y.tseq < x.tseq)
      BY DEF Last
    <3>1. CASE y = row
      <4>1. m.at <= x.at /\ ~Opens(m)
        BY <1>2, <1>5, <2>1, <3>1 DEF Last
      <4> QED
        BY <1>5, <1>6, <3>1, <4>1
    <3>2. CASE y \in Posts
      BY <1>7, <2>1, <3>2 DEF Last
    <3> QED
      BY <1>8, <3>1, <3>2
  <2>2. ASSUME Last(m) PROVE Last(row)'
    <3> SUFFICES ASSUME NEW y \in Posts', y.kind = "claim", y.claim = row.claim
                 PROVE  /\ y.at <= row.at
                        /\ Opens(y) => y \in Stored' /\ (row \in Stored' => y.tseq < row.tseq)
      BY DEF Last
    <3>1. CASE y = row
      <4>1. ~Opens(m) /\ m.at <= m.at
        BY <1>2, <1>5, <2>2, <3>1 DEF Last
      <4> QED
        BY <1>5, <1>6, <3>1, <4>1
    <3>2. CASE y \in Posts
      <4>1. y.at <= m.at /\ (Opens(y) => y \in Stored)
        BY <1>5, <2>2, <3>2 DEF Last
      <4>2. y \in Stored => y.tseq < row.tseq
        <5>1. y \in Stored => y.tseq \in 1 .. lastTseq
          BY Basics
        <5> QED
          BY <1>4, <1>5, <5>1
      <4> QED
        BY <1>5, <1>7, <4>1, <4>2
    <3> QED
      BY <1>8, <3>1, <3>2
  <2>3. ASSUME NEW b \in Agent, client'[b] # Idle, client'[b].pc # "send",
               client'[b].msg.kind = "release"
        PROVE  Last(client[b].msg)'
    <3>1. CASE client'[b] = client[b]
      <4>1. Last(client[b].msg)
        BY <2>3, <3>1 DEF IInv, ReleasesFit
      <4>2. CASE client[b].msg # row
        BY <2>1, <3>1, <4>1, <4>2
      <4>3. CASE client[b].msg = row
        <5>1. \A y \in Posts : y.kind = "claim" /\ y.claim = row.claim =>
                 y.at <= row.at /\ (Opens(y) => y \in Stored)
          BY <4>1, <4>3 DEF Last
        <5>2. Last(m)
          BY <1>2, <1>5, <5>1 DEF Last
        <5> QED
          BY <2>2, <3>1, <4>3, <5>2
      <4> QED
        BY <4>2, <4>3
    <3>2. CASE client[b].pc = "wait" /\ client[b].msg = m /\ client'[b].msg = row
               /\ client[b] # Idle
      <4>1. m.kind = "release"
        BY <1>5, <2>3, <3>2
      <4>2. Last(m)
        BY <3>2, <4>1 DEF IInv, ReleasesFit
      <4> QED
        BY <2>2, <3>2, <4>2
    <3> QED
      BY <1>10, <3>1, <3>2
  <2>4. ASSUME NEW c \in freed
        PROVE  /\ client'[c[1]] # Idle => client'[c[1]].msg.claim # c
               /\ \/ \E x \in Stored' : x.kind = "release" /\ x.claim = c /\ Last(x)'
                  \/ /\ Retention > 0
                     /\ \A x \in Posts' : x.kind = "claim" /\ x.claim = c
                                         => x.at + Retention < clock
    <3>1. c[1] \in Agent
      BY DEF IInv, Types, ClaimId
    <3>2. client[c[1]] # Idle => client[c[1]].msg.claim # c
      BY DEF IInv, ReleasesFit
    <3>3. client'[c[1]] # Idle => client'[c[1]].msg.claim # c
      BY <1>5, <1>10, <3>1, <3>2
    <3>4. \/ \E x \in Stored : x.kind = "release" /\ x.claim = c /\ Last(x)
          \/ /\ Retention > 0
             /\ \A x \in Posts : x.kind = "claim" /\ x.claim = c
                                => x.at + Retention < clock
      BY DEF IInv, ReleasesFit
    <3>5. CASE \E x \in Stored : x.kind = "release" /\ x.claim = c /\ Last(x)
      <4>1. PICK x \in Stored : x.kind = "release" /\ x.claim = c /\ Last(x)
        BY <3>5
      <4>2. x # row /\ x \in Stored'
        BY <1>7, <1>9 DEF Posts
      <4> QED
        BY <2>1, <3>3, <4>1, <4>2
    <3>6. CASE /\ Retention > 0
               /\ \A x \in Posts : x.kind = "claim" /\ x.claim = c
                                  => x.at + Retention < clock
      BY <1>2, <1>5, <1>8, <3>3, <3>6
    <3> QED
      BY <3>4, <3>5, <3>6
  <2> QED
    BY <1>1, <2>3, <2>4 DEF ReleasesFit
<1> QED
  BY <1>11, <1>12, <1>13, <1>14, <1>15, <1>16, <1>17 DEF IInv

LEMMA CheckKeeps ==
    ASSUME IInv, NEW a \in Agent, Check(a)
    PROVE  IInv'
<1> DEFINE w == Evaluate(thread)
           m == client[a].msg
           bound == \E i \in DOMAIN thread : thread[i] = m
<1>1. /\ client[a].pc = "check" /\ client' = [client EXCEPT ![a] = Idle]
      /\ held' = [held EXCEPT ![a] =
             IF bound /\ m.kind = "claim" /\ Active(w, clock)
                /\ w.claim = m.claim /\ w.from = a
             THEN [claim |-> w.claim, until |-> w.until]
             ELSE IF bound /\ m.kind = "claim" THEN Free ELSE @]
      /\ freed' = IF bound /\ m.kind = "release" THEN freed \cup {m.claim} ELSE freed
      /\ UNCHANGED <<clock, thread, lastTseq, flight, claims, gaveUp>>
  BY DEF Check
<1>2. /\ client[a] # Idle /\ m \in Msg /\ Fits(m) /\ m.from = a
      /\ m.claim \in ClaimId /\ m.claim[1] = a
  BY <1>1, ClientFacts
<1>3. bound => m \in Stored
  BY DEF Stored
<1> HIDE DEF bound
<1>4. /\ client \in [Agent -> Place] /\ client' \in [Agent -> Place] /\ client'[a] = Idle
      /\ \A b \in Agent : b # a => client'[b] = client[b]
  BY <1>1 DEF IInv, Types, Place
<1>5. Stored' = Stored /\ Posts' = Posts
  BY <1>1 DEF Stored, Posts
<1>6. /\ held \in [Agent -> [claim : ClaimId \cup {NoClaim}, until : Nat]]
      /\ Free \in [claim : ClaimId \cup {NoClaim}, until : Nat]
  BY DEF IInv, Types, Free
<1>7. Active(w, clock) => /\ w \in Won /\ ~w.released
                          /\ [claim |-> w.claim, until |-> w.until]
                                \in [claim : ClaimId \cup {NoClaim}, until : Nat]
  <2> SUFFICES ASSUME Active(w, clock)
               PROVE  /\ w \in Won /\ ~w.released
                      /\ w.claim \in ClaimId /\ w.until \in Nat
    OBVIOUS
  <2> QED
    BY HolderFacts DEF Active
<1> HIDE DEF w
<1>8. /\ held' \in [Agent -> [claim : ClaimId \cup {NoClaim}, until : Nat]]
      /\ \A b \in Agent : b # a => held'[b] = held[b]
  BY <1>1, <1>6, <1>7
<1>9. \/ held'[a] = held[a]
      \/ held'[a] = Free
      \/ /\ Active(w, clock) /\ w.from = a
         /\ held'[a] = [claim |-> w.claim, until |-> w.until]
  BY <1>1, <1>6
<1>10. freed \subseteq freed' /\ freed' \subseteq freed \cup {m.claim}
  BY <1>1
<1>11. freed' \subseteq ClaimId /\ freed \subseteq ClaimId
  BY <1>2, <1>10 DEF IInv, Types
<1>12. \A c \in freed' : c \in freed \/ (m \in Stored /\ m.kind = "release" /\ c = m.claim)
  BY <1>1, <1>3
<1> HIDE DEF m
<1>13. Types'
  BY <1>1, <1>4, <1>8, <1>11 DEF IInv, Types
<1>14. InOrder'
  BY <1>1, <1>5 DEF IInv, InOrder
<1>15. Made'
  BY <1>1, <1>4, <1>5 DEF IInv, Made
<1>16. Waits'
  <2> SUFFICES ASSUME NEW x \in flight, x.from \notin gaveUp
               PROVE  client'[x.from].pc = "wait" /\ client'[x.from].msg = x
    BY <1>1 DEF Waits
  <2>1. x.from \in Agent /\ client[x.from].pc = "wait" /\ client[x.from].msg = x
    BY Basics DEF IInv, Waits
  <2> QED
    BY <1>1, <1>4, <2>1
<1>17. Used'
  <2>1. m.kind = "release" => ~Opens(m)
    BY DEF Opens
  <2>2. \A c \in freed' : c[2] <= claims[c[1]]
    BY <1>2, <1>12, <2>1 DEF IInv, Used, m
  <2>3. ASSUME NEW x \in flight, Opens(x) PROVE x.claim \notin freed'
    <3>1. x.claim \notin freed
      BY <2>3 DEF IInv, Used
    <3>2. x.claim = m.claim /\ m \in Stored => FALSE
      BY <2>3, Basics DEF IInv, Used, Posts
    <3> QED
      BY <1>12, <3>1, <3>2
  <2>4. \A x \in flight : x.from \in Agent
    BY Basics
  <2> QED
    BY <1>1, <1>4, <1>5, <2>2, <2>3, <2>4 DEF IInv, Used
<1>18. HeldFits'
  <2> SUFFICES ASSUME lastTseq = Len(thread), NEW b \in Agent, b \notin gaveUp, Holds(b)'
               PROVE  /\ w.from = b /\ w.claim = held'[b].claim
                      /\ ~w.released /\ held'[b].until <= w.until
                      /\ client'[b] # Idle =>
                            LET x == client'[b].msg
                            IN  /\ x.kind = "claim" /\ x.renewal
                                /\ x.claim = w.claim /\ x.after = w.round
                                /\ client'[b].pc = "send" => held'[b].until <= clock + x.ttl
                                /\ client'[b].pc = "wait" => held'[b].until <= x.at + x.ttl
    BY <1>1 DEF HeldFits, w
  <2>1. CASE held'[b] = held[b]
    <3>1. Holds(b)
      BY <1>1, <2>1 DEF Holds
    <3> QED
      BY <1>4, <2>1, <3>1 DEF IInv, HeldFits, w
  <2>2. CASE b = a /\ held'[a] = Free
    <3>1. held'[b].claim = NoClaim
      BY <2>2 DEF Free
    <3> QED
      BY <3>1 DEF Holds
  <2>3. CASE /\ b = a /\ Active(w, clock) /\ w.from = a
             /\ held'[a] = [claim |-> w.claim, until |-> w.until]
    <3>1. w.until \in Nat /\ ~w.released
      BY <1>7, <2>3 DEF Won
    <3> QED
      BY <1>4, <2>3, <3>1
  <2> QED
    BY <1>8, <1>9, <2>1, <2>2, <2>3
<1>19. ReleasesFit'
  <2>1. \A x : Last(x)' <=> Last(x)
    BY <1>5 DEF Last
  <2>2. ASSUME NEW b \in Agent, client'[b] # Idle, client'[b].pc # "send",
               client'[b].msg.kind = "release"
        PROVE  Last(client'[b].msg)
    BY <1>4, <2>2 DEF IInv, ReleasesFit
  <2>3. ASSUME NEW c \in freed'
        PROVE  /\ client'[c[1]] # Idle => client'[c[1]].msg.claim # c
               /\ \/ \E x \in Stored : x.kind = "release" /\ x.claim = c /\ Last(x)
                  \/ /\ Retention > 0
                     /\ \A x \in Posts : x.kind = "claim" /\ x.claim = c
                                        => x.at + Retention < clock
    <3>1. CASE c \in freed
      <4>1. c[1] \in Agent
        BY <1>11, <3>1 DEF ClaimId
      <4> QED
        BY <1>4, <3>1, <4>1 DEF IInv, ReleasesFit
    <3>2. CASE m \in Stored /\ m.kind = "release" /\ c = m.claim
      <4>1. Last(m)
        BY <1>1, <1>2, <3>2 DEF IInv, ReleasesFit, m
      <4>2. client'[c[1]] = Idle
        BY <1>2, <1>4, <3>2
      <4> QED
        BY <3>2, <4>1, <4>2
    <3> QED
      BY <1>12, <3>1, <3>2
  <2> QED
    BY <1>1, <1>5, <2>1, <2>2, <2>3 DEF ReleasesFit
<1> QED
  BY <1>13, <1>14, <1>15, <1>16, <1>17, <1>18, <1>19 DEF IInv

\* A sweep that deletes something leaves fewer messages.
LEMMA SweepShortens ==
    ASSUME IInv, Sweep
    PROVE  Len(thread') \in Nat /\ Len(thread') < Len(thread) /\ lastTseq' # Len(thread')
<1>1. thread' = Left(thread) /\ thread' # thread /\ lastTseq' = lastTseq
  BY DEF Sweep
<1>2. /\ thread \in Seq(Msg) /\ Len(thread) \in Nat /\ lastTseq \in Nat
      /\ Len(thread) <= lastTseq
  BY Basics DEF IInv, InOrder
<1>3. Leaves(thread', thread, Len(thread))
  BY <1>1, Basics, LeftLeaves
<1>4. thread' \in Seq(Msg) /\ Len(thread') \in Nat /\ Len(thread') <= Len(thread)
  BY <1>3 DEF Leaves
<1>5. Len(thread') < Len(thread)
  <2>1. Len(thread') = Len(thread) => \A j \in 1 .. Len(thread) : thread'[j] = thread[j]
    BY <1>3 DEF Leaves
  <2>2. Len(thread') = Len(thread) => thread' = thread
    BY <1>2, <1>4, <2>1, SeqEqual
  <2>3. Len(thread') # Len(thread)
    BY <1>1, <2>2
  <2>4. Len(thread') \in Nat /\ Len(thread) \in Nat /\ Len(thread') <= Len(thread)
    BY <1>2, <1>4
  <2> QED
    BY <2>3, <2>4
<1>6. lastTseq' # Len(thread')
  BY <1>1, <1>2, <1>4, <1>5
<1> QED
  BY <1>4, <1>5, <1>6

LEMMA SweepKeeps == IInv /\ Sweep => IInv'
<1> SUFFICES ASSUME IInv, Sweep PROVE IInv'
  OBVIOUS
<1>1. /\ Retention > 0 /\ thread' = Left(thread) /\ thread' # thread
      /\ UNCHANGED <<clock, lastTseq, flight, client, claims, held, freed, gaveUp>>
  BY DEF Sweep
<1>2. /\ thread \in Seq(Msg) /\ Len(thread) \in Nat /\ DOMAIN thread = 1 .. Len(thread)
      /\ \A i \in 1 .. Len(thread) : thread[i] \in Stored
      /\ lastTseq \in Nat /\ clock \in Nat /\ Retention \in Nat
      /\ Len(thread) <= lastTseq
  BY Basics, CoordinationAssumption DEF IInv, InOrder
<1>3. Leaves(thread', thread, Len(thread))
  BY <1>1, Basics, LeftLeaves
<1>4. /\ thread' \in Seq(Msg) /\ Len(thread') \in Nat /\ Len(thread') <= Len(thread)
      /\ DOMAIN thread' = 1 .. Len(thread')
      /\ \A i, j \in DOMAIN thread' : i < j => thread'[i].tseq < thread'[j].tseq
      /\ \A k \in 1 .. Len(thread') : \E j \in 1 .. Len(thread) : thread'[k] = thread[j]
      /\ \A j \in 1 .. Len(thread) : Keeps(thread[j]) =>
            \E k \in 1 .. Len(thread') : thread'[k] = thread[j]
  BY <1>3 DEF Leaves, Rising
<1>5. Len(thread') < Len(thread) /\ lastTseq' # Len(thread')
  BY SweepShortens
<1>6. Stored' \subseteq Stored
  BY <1>2, <1>4 DEF Stored
<1>7. \A m \in Stored : Keeps(m) => m \in Stored'
  <2> SUFFICES ASSUME NEW m \in Stored, Keeps(m) PROVE m \in Stored'
    OBVIOUS
  <2>1. PICK j \in 1 .. Len(thread) : thread[j] = m
    BY <1>2 DEF Stored
  <2>2. PICK k \in 1 .. Len(thread') : thread'[k] = thread[j]
    BY <1>4, <2>1
  <2>3. k \in DOMAIN thread'
    BY <1>4
  <2> QED
    BY <2>1, <2>2, <2>3 DEF Stored
<1>8. Posts' \subseteq Posts /\ flight \subseteq Posts'
  BY <1>1, <1>6 DEF Posts
<1>9. Types'
  BY <1>1, <1>4 DEF IInv, Types
<1>10. InOrder'
  BY <1>1, <1>2, <1>4, <1>6, <1>8 DEF IInv, InOrder
<1>11. Made'
  BY <1>1, <1>6, <1>8 DEF IInv, Made
<1>12. Waits'
  BY <1>1 DEF IInv, Waits
<1>13. Used'
  BY <1>1, <1>8 DEF IInv, Used
<1>14. HeldFits'
  BY <1>5 DEF HeldFits
<1>15. ReleasesFit'
  <2>1. ASSUME NEW m, Last(m) PROVE Last(m)'
    <3> SUFFICES ASSUME NEW x \in Posts', x.kind = "claim", x.claim = m.claim
                 PROVE  /\ x.at <= m.at
                        /\ Opens(x) => x \in Stored' /\ (m \in Stored' => x.tseq < m.tseq)
      BY DEF Last
    <3>1. /\ x.at <= m.at
          /\ Opens(x) => x \in Stored /\ (m \in Stored => x.tseq < m.tseq)
      BY <1>8, <2>1 DEF Last
    <3>2. x \in Stored => x \in Stored'
      BY <1>1, Basics DEF Posts
    <3> QED
      BY <1>6, <3>1, <3>2
  <2>2. ASSUME NEW a \in Agent, client[a] # Idle, client[a].pc # "send",
               client[a].msg.kind = "release"
        PROVE  Last(client[a].msg)'
    BY <1>1, <2>1, <2>2 DEF IInv, ReleasesFit
  <2>3. ASSUME NEW c \in freed
        PROVE  \/ \E m \in Stored' : m.kind = "release" /\ m.claim = c /\ Last(m)'
               \/ /\ Retention > 0
                  /\ \A x \in Posts' : x.kind = "claim" /\ x.claim = c
                                      => x.at + Retention < clock
    <3>1. CASE \E m \in Stored : m.kind = "release" /\ m.claim = c /\ Last(m)
      <4>1. PICK m \in Stored : m.kind = "release" /\ m.claim = c /\ Last(m)
        BY <3>1
      <4>2. CASE Keeps(m)
        BY <1>7, <2>1, <4>1, <4>2
      <4>3. CASE ~Keeps(m)
        <5>1. m.at \in Nat /\ ~(m.at + Retention >= clock)
          BY <4>1, <4>3, Basics, MsgFields DEF Keeps
        <5>2. ASSUME NEW x \in Posts', x.kind = "claim", x.claim = c
              PROVE  x.at + Retention < clock
          <6>1. x \in Posts /\ x.at <= m.at
            BY <1>8, <4>1, <5>2 DEF Last
          <6>2. x.at \in Nat
            BY <6>1, Basics, MsgFields
          <6> QED
            BY <1>2, <5>1, <6>1, <6>2
        <5> QED
          BY <1>1, <5>2
      <4> QED
        BY <4>2, <4>3
    <3>2. CASE /\ Retention > 0
               /\ \A x \in Posts : x.kind = "claim" /\ x.claim = c
                                  => x.at + Retention < clock
      BY <1>8, <3>2
    <3> QED
      BY <3>1, <3>2 DEF IInv, ReleasesFit
  <2> QED
    BY <1>1, <2>2, <2>3 DEF IInv, ReleasesFit
<1> QED
  BY <1>9, <1>10, <1>11, <1>12, <1>13, <1>14, <1>15 DEF IInv

LEMMA TickKeeps == IInv /\ Tick => IInv'
<1> SUFFICES ASSUME IInv, Tick PROVE IInv'
  OBVIOUS
<1>1. /\ clock < MaxClock /\ clock' = clock + 1
      /\ held' = [a \in Agent |-> IF held[a].until <= clock' THEN Free ELSE held[a]]
      /\ UNCHANGED <<thread, lastTseq, flight, client, claims, freed, gaveUp>>
  BY DEF Tick
<1>2. clock \in Nat /\ MaxClock \in Nat /\ Retention \in Nat
      /\ clock' \in 0 .. MaxClock /\ clock < clock'
  BY <1>1, Basics, CoordinationAssumption
<1>3. Stored' = Stored /\ Posts' = Posts
  BY <1>1 DEF Stored, Posts
<1>4. \A m \in Posts : m.at \in Nat
  BY Basics, MsgFields
<1>5. Types'
  <2>1. Free \in [claim : ClaimId \cup {NoClaim}, until : Nat]
    BY DEF Free
  <2> QED
    BY <1>1, <1>2, <2>1 DEF IInv, Types
<1>6. InOrder'
  BY <1>1, <1>2, <1>3, <1>4 DEF IInv, InOrder
<1>7. Made' /\ Waits' /\ Used'
  BY <1>1, <1>3 DEF IInv, Made, Waits, Used
<1>8. HeldFits'
  <2> SUFFICES ASSUME lastTseq = Len(thread), NEW a \in Agent, a \notin gaveUp, Holds(a)'
               PROVE  LET w == Evaluate(thread)
                          m == client[a].msg
                      IN  /\ w.from = a /\ w.claim = held'[a].claim
                          /\ ~w.released /\ held'[a].until <= w.until
                          /\ client[a] # Idle =>
                                /\ m.kind = "claim" /\ m.renewal
                                /\ m.claim = w.claim /\ m.after = w.round
                                /\ client[a].pc = "send" => held'[a].until <= clock' + m.ttl
                                /\ client[a].pc = "wait" => held'[a].until <= m.at + m.ttl
    BY <1>1 DEF HeldFits
  <2>1. held'[a] = held[a] /\ held[a].until \in Nat
    <3>1. held'[a] # Free
      BY DEF Holds, Free
    <3> QED
      BY <1>1, <3>1 DEF IInv, Types
  <2>2. Holds(a)
    BY <1>2, <2>1 DEF Holds
  <2>3. client[a] # Idle => client[a].msg.ttl \in Nat
    BY ClientFacts, MsgFields
  <2>4. client[a] # Idle /\ client[a].pc = "send" => held[a].until <= clock + client[a].msg.ttl
    BY <2>2 DEF IInv, HeldFits
  <2>5. client[a] # Idle /\ client[a].pc = "send" => held[a].until <= clock' + client[a].msg.ttl
    BY <1>1, <1>2, <2>1, <2>3, <2>4
  <2> QED
    BY <2>1, <2>2, <2>5 DEF IInv, HeldFits
<1>9. ReleasesFit'
  <2>1. \A m : Last(m)' <=> Last(m)
    BY <1>3 DEF Last
  <2>2. \A x \in Posts : x.at + Retention < clock => x.at + Retention < clock'
    BY <1>1, <1>2, <1>4
  <2> QED
    BY <1>1, <1>3, <2>1, <2>2 DEF IInv, ReleasesFit
<1> QED
  BY <1>5, <1>6, <1>7, <1>8, <1>9 DEF IInv

-----------------------------------------------------------------------------
(* The theorems.                                                           *)

LEMMA IInvInit == Init => IInv
<1> SUFFICES ASSUME Init PROVE IInv
  OBVIOUS
<1>1. /\ thread = <<>> /\ <<>> \in Seq(Msg) /\ Len(<<>>) = 0 /\ DOMAIN <<>> = {}
      /\ flight = {} /\ clock = 0 /\ lastTseq = 0 /\ freed = {} /\ gaveUp = {}
      /\ client = [a \in Agent |-> Idle] /\ claims = [a \in Agent |-> 0]
      /\ held = [a \in Agent |-> Free]
  BY DEF Init
<1>2. Stored = {} /\ Posts = {}
  BY <1>1 DEF Stored, Posts
<1>3. Types
  <2>1. IsFiniteSet({}) /\ Cardinality({}) = 0
    BY FS_EmptySet
  <2>2. 0 \in 0 .. MaxClock /\ 0 \in 0 .. MaxMsgs /\ 0 + 0 <= MaxMsgs
    BY CoordinationAssumption
  <2>3. Free \in [claim : ClaimId \cup {NoClaim}, until : Nat]
    BY DEF Free
  <2> QED
    BY <1>1, <2>1, <2>2, <2>3 DEF Types, Place
<1>4. InOrder /\ Made /\ Waits /\ Used
  BY <1>1, <1>2 DEF InOrder, Made, Waits, Used
<1>5. HeldFits
  <2>1. \A a \in Agent : ~Holds(a)
    BY <1>1 DEF Holds, Free
  <2> QED
    BY <2>1 DEF HeldFits
<1>6. ReleasesFit
  BY <1>1 DEF ReleasesFit
<1> QED
  BY <1>3, <1>4, <1>5, <1>6 DEF IInv

LEMMA IInvNext == IInv /\ [Next]_vars => IInv'
<1> SUFFICES ASSUME IInv, [Next]_vars PROVE IInv'
  OBVIOUS
<1>1. ASSUME NEW a \in Agent, NEW ttl \in Ttl, Claim(a, ttl) PROVE IInv'
  BY <1>1, ClaimKeeps
<1>2. ASSUME NEW a \in Agent, Release(a) PROVE IInv'
  BY <1>2, ReleaseKeeps
<1>3. ASSUME NEW a \in Agent, Stamp(a) PROVE IInv'
  BY <1>3, StampKeeps
<1>4. ASSUME NEW a \in Agent, Check(a) PROVE IInv'
  BY <1>4, CheckKeeps
<1>5. ASSUME NEW a \in Agent, GiveUp(a) PROVE IInv'
  BY <1>5, GiveUpKeeps
<1>6. ASSUME NEW m \in flight, StorePost(m) PROVE IInv'
  BY <1>6, StorePostKeeps
<1>7. Note => IInv'
  BY NoteKeeps
<1>8. Sweep => IInv'
  BY SweepKeeps
<1>9. Tick => IInv'
  BY TickKeeps
<1>10. CASE UNCHANGED vars
  BY <1>10 DEF vars, IInv, Types, InOrder, Made, Waits, Used, HeldFits, Holds,
               ReleasesFit, Last, Posts, Stored
<1> QED
  BY <1>1, <1>2, <1>3, <1>4, <1>5, <1>6, <1>7, <1>8, <1>9, <1>10 DEF Next

\* The invariant of work coordination: claims and releases are their owners'
\* own, ids are used once, whoever was told that it holds the work has won, and
\* a reported release comes after all of its claim (send_claim, release).
THEOREM CoordinationInvariant == Spec => []IInv
<1> QED
  BY IInvInit, IInvNext, PTL DEF Spec

\* The thread, the commands and the histories keep their types, and the
\* thread's numbers go up (Store::append).
THEOREM CoordinationTyped == Spec => []TypeOK
<1>1. IInv => TypeOK
  <2> SUFFICES ASSUME IInv PROVE TypeOK
    OBVIOUS
  <2>1. \A i \in DOMAIN thread : thread[i] \in Msg
    BY Basics
  <2>2. \A m \in flight : m \in Msg /\ m.at <= clock
    BY Basics DEF IInv, InOrder, Posts
  <2>3. \A a \in Agent : client[a].pc # "idle" => client[a].msg \in Msg
    BY ClientFacts
  <2> QED
    BY <2>1, <2>2, <2>3 DEF TypeOK, IInv, Types, InOrder
<1> QED
  BY <1>1, CoordinationInvariant, PTL

\* For any number of claimants, two are never both told that they hold the work
\* while both claims run (claim, send_claim).
THEOREM OneHolder == Spec => []Exclusive
<1>1. IInv => Exclusive
  <2> SUFFICES ASSUME IInv, lastTseq = Len(thread),
                      NEW a \in Agent \ gaveUp, NEW b \in Agent \ gaveUp,
                      Holds(a), Holds(b)
               PROVE  a = b
    BY DEF Exclusive
  <2>1. Evaluate(thread).from = a /\ Evaluate(thread).from = b
    BY HoldersWin
  <2> QED
    BY <2>1
<1> QED
  BY <1>1, CoordinationInvariant, PTL

\* A claim whose release was reported never holds the work again, whatever is
\* late, reordered or swept (release, evaluate).
THEOREM ReleasesAreFinal == Spec => []ReleaseIsFinal
<1> QED
  BY ReleasedIsOver, CoordinationInvariant, PTL

\* A claim made against the present head of a thread whose work is free wins
\* its round (claim's `after`, evaluate).
THEOREM FreshClaimsWin == Spec => FreshClaimWins
<1>1. ASSUME IInv, NEW m \in flight, StorePost(m), m.kind = "claim", ~m.renewal,
             m.after = HeadOf, ~Active(Evaluate(thread), m.at)
      PROVE  Evaluate(thread').claim = m.claim
  <2>1. PICK row : row = [m EXCEPT !.tseq = lastTseq + 1]
    OBVIOUS
  <2> DEFINE w == Evaluate(thread)
  <2>2. m \in Msg /\ m.tseq = 0 /\ m.claim \in ClaimId
    BY <1>1, Basics
  <2>3. lastTseq + 1 \in 0 .. MaxMsgs
    <3>1. Cardinality(flight) \in Nat /\ Cardinality(flight) >= 1
      BY <1>1, FS_CardinalityType, FS_EmptySet DEF IInv, Types
    <3>2. lastTseq + Cardinality(flight) <= MaxMsgs /\ lastTseq \in Nat /\ MaxMsgs \in Nat
      BY <1>1, Basics, CoordinationAssumption DEF IInv, Types
    <3> QED
      BY <3>1, <3>2
  <2>4. /\ row \in Msg /\ row.kind = "claim" /\ ~row.renewal /\ row.claim = m.claim
        /\ row.after = HeadOf /\ row.at = m.at
    BY <1>1, <2>1, <2>2, <2>3 DEF Msg
  <2>5. thread' = Append(thread, row)
    <3>1. row.tseq = lastTseq + 1
      BY <2>1, <2>2 DEF Msg
    <3> QED
      BY <1>1, <2>1, <3>1 DEF StorePost
  <2>6. Evaluate(thread') = Apply(w, row)
    BY <1>1, <2>4, <2>5, AppendFacts
  <2>7. Apply(w, row) = Winner(row)
    <3>1. CASE w = None
      BY <2>4, <3>1 DEF Apply
    <3>2. CASE w # None
      <4> HIDE DEF w
      <4>1. w.until \in Nat /\ row.at \in Nat /\ w.round \in Nat
        BY <1>1, <2>4, <3>2, HolderFacts, MsgFields DEF w
      <4>2. w.released \/ w.until <= row.at
        BY <1>1, <2>4, <3>2, <4>1 DEF Active, w
      <4>3. PICK x \in Stored : Opens(x) /\ x.after = w.round
        BY <1>1, <3>2, HolderFacts DEF w
      <4>4. x.after < x.tseq /\ x.tseq \in Nat /\ x.after \in Nat
        BY <1>1, <4>1, <4>3, Basics, MsgFields DEF IInv, Made
      <4>5. PICK i \in 1 .. Len(thread) : thread[i] = x
        BY <1>1, Basics DEF Stored
      <4>6. thread # <<>> /\ Len(thread) \in 1 .. Len(thread) /\ Len(thread) \in Nat
        BY <1>1, <4>5, Basics, EmptySeq
      <4>7. HeadOf = thread[Len(thread)].tseq /\ HeadOf \in Nat
        <5>1. thread[Len(thread)] \in Msg
          BY <1>1, <4>6, Basics
        <5> QED
          BY <4>6, <5>1, MsgFields DEF HeadOf
      <4>8. x.tseq <= HeadOf
        <5>1. CASE i = Len(thread)
          BY <4>4, <4>5, <4>7, <5>1
        <5>2. CASE i < Len(thread)
          <6>1. x.tseq < HeadOf
            BY <1>1, <4>5, <4>6, <4>7, <5>2, Basics DEF Rising
          <6> QED
            BY <4>4, <4>7, <6>1
        <5> QED
          BY <4>6, <5>1, <5>2
      <4>9. row.after # w.round
        BY <2>4, <4>3, <4>4, <4>7, <4>8
      <4>10. ~Renews(w, row) /\ Succeeds(w, row)
        BY <2>4, <4>2, <4>9 DEF Renews, Succeeds
      <4> QED
        BY <2>4, <3>2, <4>10 DEF Apply
    <3> QED
      BY <3>1, <3>2
  <2> QED
    BY <2>4, <2>6, <2>7 DEF Winner
<1>2. IInv => (\A m \in flight :
                  /\ StorePost(m) /\ m.kind = "claim" /\ ~m.renewal
                  /\ m.after = HeadOf /\ ~Active(Evaluate(thread), m.at)
                  => Evaluate(thread').claim = m.claim)
  BY <1>1
<1> QED
  BY <1>2, CoordinationInvariant, PTL DEF FreshClaimWins

\* No message of another's ends or changes a running claim (evaluate).
THEOREM OnlyHandedOver == Spec => HandedOver
<1>1. ASSUME IInv, NEW m \in flight, NEW w, w = Evaluate(thread), StorePost(m),
             Active(w, m.at), m.from # w.from
      PROVE  Evaluate(thread') = w
  <2>1. PICK row : row = [m EXCEPT !.tseq = lastTseq + 1]
    OBVIOUS
  <2>2. m \in Msg /\ m.tseq = 0 /\ m.kind \in {"claim", "release"}
    BY <1>1, Basics
  <2>3. lastTseq + 1 \in 0 .. MaxMsgs
    <3>1. Cardinality(flight) \in Nat /\ Cardinality(flight) >= 1
      BY <1>1, FS_CardinalityType, FS_EmptySet DEF IInv, Types
    <3>2. lastTseq + Cardinality(flight) <= MaxMsgs /\ lastTseq \in Nat /\ MaxMsgs \in Nat
      BY <1>1, Basics, CoordinationAssumption DEF IInv, Types
    <3> QED
      BY <3>1, <3>2
  <2>4. /\ row \in Msg /\ row.kind \in {"claim", "release"} /\ row.from # w.from
        /\ row.at = m.at
    BY <1>1, <2>1, <2>2, <2>3 DEF Msg
  <2>5. thread' = Append(thread, row)
    <3>1. row.tseq = lastTseq + 1
      BY <2>1, <2>2 DEF Msg
    <3> QED
      BY <1>1, <2>1, <3>1 DEF StorePost
  <2>6. Evaluate(thread') = Apply(w, row)
    BY <1>1, <2>4, <2>5, AppendFacts
  <2>7. w # None /\ ~w.released /\ w.until > m.at
    BY <1>1 DEF Active
  <2>8. w.until \in Nat /\ m.at \in Nat
    BY <1>1, <2>2, <2>7, HolderFacts, MsgFields
  <2>9. ~Renews(w, row) /\ ~Succeeds(w, row)
    BY <2>4, <2>7, <2>8 DEF Renews, Succeeds
  <2>10. Apply(w, row) = w
    BY <2>4, <2>7, <2>9 DEF Apply
  <2> QED
    BY <2>6, <2>10
<1>2. IInv => (\A m \in flight :
                  LET w == Evaluate(thread)
                      v == Evaluate(thread')
                  IN  /\ StorePost(m) /\ Active(w, m.at) /\ m.from # w.from
                      => v = w)
  BY <1>1
<1> QED
  BY <1>2, CoordinationInvariant, PTL DEF HandedOver

-----------------------------------------------------------------------------
(* A lease.                                                                *)

\* The lease that runs is a claim whose release was not reported.
LEMMA RunsIsFinal == IInv => (LeaseOf!Runs => Evaluate(thread).claim \notin freed)
<1> SUFFICES ASSUME IInv, LeaseOf!Runs PROVE Evaluate(thread).claim \notin freed
  OBVIOUS
<1>1. PICK w : w = Evaluate(thread)
  OBVIOUS
<1>2. w # None /\ ~w.released /\ clock < w.until
  BY <1>1 DEF LeaseOf!Runs
<1>3. w.until \in Nat /\ clock \in Nat
  BY <1>1, <1>2, HolderFacts, Basics
<1>4. Active(w, clock)
  BY <1>2, <1>3 DEF Active
<1> QED
  BY <1>1, <1>4, ReleasedIsOver DEF ReleaseIsFinal

LEMMA WonIsHolding == Won \subseteq LeaseOf!Holding
<1>1. 0 .. MaxMsgs \subseteq Nat
  BY CoordinationAssumption
<1> QED
  BY <1>1 DEF Won, LeaseOf!Holding

\* The lease belongs to a claim that was decided.
LEMMA WinnerIsDecided ==
    IInv => \/ Evaluate(thread) = None
            \/ /\ Evaluate(thread) \in LeaseOf!Holding
               /\ Evaluate(thread).claim \in Decided
<1> SUFFICES ASSUME IInv, NEW w, w = Evaluate(thread), w # None
             PROVE  w \in LeaseOf!Holding /\ w.claim \in Decided
  OBVIOUS
<1>1. w.claim \in ClaimId /\ w.claim[1] = w.from
  BY HolderFacts
<1>2. PICK x \in Stored : Opens(x) /\ x.claim = w.claim /\ x.from = w.from
  BY HolderFacts
<1>3. w.claim[2] <= claims[w.claim[1]]
  BY <1>1, <1>2 DEF IInv, Used, Posts, Opens
<1>4. ASSUME NEW y \in flight, Opens(y) PROVE y.claim # w.claim
  <2>1. y.claim = x.claim => x = y
    BY <1>4 DEF IInv, Used, Posts
  <2> QED
    BY <1>2, <2>1, Basics
<1>5. w \in LeaseOf!Holding
  BY HolderFacts, WonIsHolding
<1> QED
  BY <1>1, <1>3, <1>4, <1>5 DEF Decided, Opens

\* The commands that only read, or draft a post, tell their callers.
LEMMA ClaimTells ==
    ASSUME IInv, NEW a \in Agent, NEW ttl \in Ttl, Claim(a, ttl)
    PROVE  LeaseOf!Tell \/ UNCHANGED LeaseOf!leaseVars
<1>1. UNCHANGED <<clock, thread, lastTseq, flight, claims, freed, gaveUp>>
  BY DEF Claim
<1>2. Decided' = Decided
  BY <1>1 DEF Decided
<1>3. CASE held' = [held EXCEPT ![a] = Free]
  <2>1. LeaseOf!TellNo(a)
    BY <1>3 DEF LeaseOf!TellNo, LeaseOf!Nothing, Free
  <2> QED
    BY <1>1, <1>2, <2>1 DEF LeaseOf!Tell
<1>4. CASE held' = [held EXCEPT ![a].until = Sooner(@, clock + ttl)]
  <2>1. held \in [Agent -> [claim : ClaimId \cup {NoClaim}, until : Nat]]
    BY DEF IInv, Types
  <2>2. clock + ttl \in Nat /\ held[a].until \in Nat
    BY <2>1, Basics, CoordinationAssumption
  <2>3. held'[a].until = Sooner(held[a].until, clock + ttl)
    BY <1>4, <2>1
  <2>4. held'[a].until \in 0 .. held[a].until
    BY <2>2, <2>3 DEF Sooner
  <2>5. held' = [held EXCEPT ![a].until = held'[a].until]
    BY <1>4, <2>3
  <2>6. LeaseOf!CountOnLess(a)
    BY <2>4, <2>5 DEF LeaseOf!CountOnLess
  <2> QED
    BY <1>1, <1>2, <2>6 DEF LeaseOf!Tell
<1>5. CASE UNCHANGED held
  BY <1>1, <1>2, <1>5 DEF LeaseOf!leaseVars
<1> QED
  BY <1>3, <1>4, <1>5 DEF Claim

LEMMA ReleaseTells ==
    ASSUME NEW a \in Agent, Release(a)
    PROVE  LeaseOf!Tell
<1>1. UNCHANGED <<clock, thread, lastTseq, flight, claims, freed, gaveUp>>
  BY DEF Release
<1>2. Decided' = Decided
  BY <1>1 DEF Decided
<1>3. LeaseOf!TellNo(a)
  BY DEF Release, LeaseOf!TellNo, LeaseOf!Nothing, Free
<1> QED
  BY <1>1, <1>2, <1>3 DEF LeaseOf!Tell

\* A claim is told to hold the work only as the winner.
LEMMA CheckTells ==
    ASSUME IInv, IInv', NEW a \in Agent, Check(a)
    PROVE  LeaseOf!Tell \/ LeaseOf!Report \/ UNCHANGED LeaseOf!leaseVars
<1> DEFINE w == Evaluate(thread)
           m == client[a].msg
           bound == \E i \in DOMAIN thread : thread[i] = m
<1>1. /\ UNCHANGED <<clock, thread, lastTseq, flight, claims, gaveUp>>
      /\ client[a].pc = "check"
      /\ held' = [held EXCEPT ![a] =
               IF bound /\ m.kind = "claim" /\ Active(w, clock)
                  /\ w.claim = m.claim /\ w.from = a
               THEN [claim |-> w.claim, until |-> w.until]
               ELSE IF bound /\ m.kind = "claim" THEN Free ELSE @]
      /\ freed' = IF bound /\ m.kind = "release" THEN freed \cup {m.claim} ELSE freed
  BY DEF Check
<1>2. Decided' = Decided
  BY <1>1 DEF Decided
<1>3. held \in [Agent -> [claim : ClaimId \cup {NoClaim}, until : Nat]]
  BY DEF IInv, Types
<1> HIDE DEF bound, w
<1>4. CASE bound /\ m.kind = "claim"
  <2>1. freed' = freed
    BY <1>1, <1>4
  <2>2. CASE Active(w, clock) /\ w.claim = m.claim /\ w.from = a
    <3>1. held' = [held EXCEPT ![a] = [claim |-> w.claim, until |-> w.until]]
      BY <1>1, <1>4, <2>2
    <3>2. w # None /\ ~w.released /\ w.until > clock
      BY <2>2 DEF Active
    <3>3. w.until \in Nat /\ clock \in Nat
      BY <3>2, HolderFacts, Basics DEF w
    <3>4. clock < w.until
      BY <3>2, <3>3
    <3>5. LeaseOf!TellYes(a)
      BY <2>2, <3>1, <3>2, <3>4 DEF LeaseOf!TellYes, LeaseOf!Runs, w
    <3> QED
      BY <1>1, <1>2, <2>1, <3>5 DEF LeaseOf!Tell
  <2>3. CASE ~(Active(w, clock) /\ w.claim = m.claim /\ w.from = a)
    <3>1. held' = [held EXCEPT ![a] = Free]
      BY <1>1, <1>4, <2>3
    <3>2. LeaseOf!TellNo(a)
      BY <3>1 DEF LeaseOf!TellNo, LeaseOf!Nothing, Free
    <3> QED
      BY <1>1, <1>2, <2>1, <3>2 DEF LeaseOf!Tell
  <2> QED
    BY <2>2, <2>3
<1>5. CASE ~(bound /\ m.kind = "claim")
  <2>1. held' = held
    BY <1>1, <1>3, <1>5
  <2>2. CASE freed' = freed
    BY <1>1, <1>2, <2>1, <2>2 DEF LeaseOf!leaseVars
  <2>3. CASE freed' # freed
    <3>1. bound /\ m.kind = "release" /\ freed' = freed \cup {m.claim}
          /\ m.claim \in freed' \ freed
      BY <1>1, <2>3
    <3>2. client[a] # Idle /\ m.claim \in ClaimId /\ m.claim[1] = a /\ ~Opens(m)
      BY <1>1, <3>1, ClientFacts DEF Opens
    <3>3. m.claim[2] <= claims[a]
      BY <3>2 DEF IInv, Used
    <3>4. ASSUME NEW x \in flight, Opens(x) PROVE x.claim # m.claim
      <4>1. client[x.from] # Idle /\ ~Opens(client[x.from].msg)
               => client[x.from].msg.claim # x.claim
        BY <3>4 DEF IInv, Used
      <4>2. x.claim[1] = x.from
        BY Basics
      <4> QED
        BY <3>2, <4>1, <4>2
    <3>5. m.claim \in Decided
      BY <3>2, <3>3, <3>4 DEF Decided, Opens
    <3>6. ~(LeaseOf!Runs /\ w.claim = m.claim)
      <4>1. (LeaseOf!Runs => w.claim \notin freed)'
        BY RunsIsFinal, PTL DEF w
      <4>2. LeaseOf!Runs' = LeaseOf!Runs /\ w' = w
        BY <1>1 DEF LeaseOf!Runs, w
      <4> QED
        BY <3>1, <4>1, <4>2
    <3>7. LeaseOf!Report
      BY <1>1, <1>2, <2>1, <3>1, <3>5, <3>6 DEF LeaseOf!Report, w
    <3> QED
      BY <3>7
  <2> QED
    BY <2>2, <2>3
<1> QED
  BY <1>4, <1>5

\* A stamped claim is neither won nor lost.
LEMMA StampDecides ==
    ASSUME IInv, NEW a \in Agent, Stamp(a)
    PROVE  UNCHANGED LeaseOf!leaseVars
<1>1. PICK m : m = [client[a].msg EXCEPT !.at = clock]
  OBVIOUS
<1>2. /\ client[a].pc = "send" /\ flight' = flight \cup {m} /\ m \notin flight
      /\ claims' = IF m.kind = "claim" /\ ~m.renewal
                   THEN [claims EXCEPT ![a] = @ + 1] ELSE claims
      /\ UNCHANGED <<clock, thread, lastTseq, held, freed, gaveUp>>
  BY <1>1 DEF Stamp
<1>3. client[a] # Idle /\ client[a].msg \in Msg
  BY <1>2, ClientFacts
<1>4. /\ m.kind = client[a].msg.kind /\ m.renewal = client[a].msg.renewal
      /\ m.claim = client[a].msg.claim
  BY <1>1, <1>3 DEF Msg
<1>5. claims \in [Agent -> 0 .. MaxMsgs]
  BY DEF IInv, Types
<1>6. Decided' = Decided
  <2>1. CASE Opens(m)
    <3>1. m.claim = <<a, claims[a] + 1>>
      BY <1>2, <1>3, <1>4, <2>1 DEF IInv, Made, Opens
    <3>2. claims' = [claims EXCEPT ![a] = claims[a] + 1]
      BY <1>2, <2>1 DEF Opens
    <3>3. ASSUME NEW c \in ClaimId
          PROVE  c[2] <= claims'[c[1]] /\ c # m.claim <=> c[2] <= claims[c[1]]
      <4>1. PICK b \in Agent, n \in 1 .. MaxMsgs : c = <<b, n>>
        BY DEF ClaimId
      <4>2. n \in Nat /\ claims[b] \in Nat /\ claims[a] \in Nat /\ c[1] = b /\ c[2] = n
        BY <1>5, <4>1, CoordinationAssumption
      <4>3. CASE b = a
        <5>1. claims'[b] = claims[a] + 1
          BY <1>5, <3>2, <4>3
        <5>2. c # m.claim <=> n # claims[a] + 1
          BY <3>1, <4>1, <4>3
        <5> QED
          BY <4>2, <4>3, <5>1, <5>2
      <4>4. CASE b # a
        <5>1. claims'[b] = claims[b]
          BY <1>5, <3>2, <4>4
        <5>2. c # m.claim
          BY <3>1, <4>1, <4>4
        <5> QED
          BY <4>2, <5>1, <5>2
      <4> QED
        BY <4>3, <4>4
    <3>4. {x.claim : x \in {y \in flight' : y.kind = "claim" /\ ~y.renewal}}
          = {x.claim : x \in {y \in flight : y.kind = "claim" /\ ~y.renewal}} \cup {m.claim}
      BY <1>2, <2>1 DEF Opens
    <3> QED
      BY <3>3, <3>4 DEF Decided
  <2>2. CASE ~Opens(m)
    <3>1. claims' = claims
      BY <1>2, <2>2 DEF Opens
    <3>2. {x \in flight' : x.kind = "claim" /\ ~x.renewal}
          = {x \in flight : x.kind = "claim" /\ ~x.renewal}
      BY <1>2, <2>2 DEF Opens
    <3> QED
      BY <3>1, <3>2 DEF Decided
  <2> QED
    BY <2>1, <2>2
<1> QED
  BY <1>2, <1>6 DEF LeaseOf!leaseVars

\* What an append does to the claims that were decided.
LEMMA StoreDecides ==
    ASSUME IInv, NEW m \in flight, flight' = flight \ {m}, claims' = claims
    PROVE  /\ Opens(m) => Decided' = Decided \cup {m.claim} /\ m.claim \notin Decided
           /\ ~Opens(m) => Decided' = Decided
<1>1. CASE Opens(m)
  <2> DEFINE Coming(F) == {x.claim : x \in {y \in F : y.kind = "claim" /\ ~y.renewal}}
  <2>1. m.claim \in Coming(flight)
    BY <1>1 DEF Opens
  <2>2. \A x \in flight : x.claim = m.claim => x = m
    BY <1>1 DEF IInv, Used, Posts
  <2>3. Coming(flight') = Coming(flight) \ {m.claim}
    BY <2>2
  <2>4. m.claim \in ClaimId /\ m.claim[1] = m.from
    BY Basics
  <2>5. m.claim[2] <= claims[m.claim[1]]
    BY <2>4, Basics DEF IInv, Used, Posts
  <2>6. Decided = {c \in ClaimId : c[2] <= claims[c[1]]} \ Coming(flight)
    BY DEF Decided
  <2>7. Decided' = {c \in ClaimId : c[2] <= claims[c[1]]} \ Coming(flight')
    BY DEF Decided
  <2> HIDE DEF Coming
  <2> QED
    BY <1>1, <2>1, <2>3, <2>4, <2>5, <2>6, <2>7
<1>2. CASE ~Opens(m)
  <2>1. {x \in flight' : x.kind = "claim" /\ ~x.renewal}
        = {x \in flight : x.kind = "claim" /\ ~x.renewal}
    BY <1>2 DEF Opens
  <2> QED
    BY <1>2, <2>1 DEF Decided
<1> QED
  BY <1>1, <1>2

\* A post that is stored is a claim that wins or loses, an extension, a return
\* of the lease, or nothing to it.
LEMMA StoreArrives ==
    ASSUME IInv, IInv', NEW m \in flight, StorePost(m)
    PROVE  LeaseOf!Arrive \/ UNCHANGED LeaseOf!leaseVars
<1>1. PICK row : row = [m EXCEPT !.tseq = lastTseq + 1]
  OBVIOUS
<1>2. m \in Msg /\ m.tseq = 0 /\ m.kind \in {"claim", "release"}
      /\ m.from \in Agent /\ m.claim \in ClaimId
  BY Basics
<1>3. lastTseq + 1 \in 0 .. MaxMsgs
  <2>1. Cardinality(flight) \in Nat /\ Cardinality(flight) >= 1
    BY FS_CardinalityType, FS_EmptySet DEF IInv, Types
  <2>2. lastTseq + Cardinality(flight) <= MaxMsgs /\ lastTseq \in Nat /\ MaxMsgs \in Nat
    BY Basics, CoordinationAssumption DEF IInv, Types
  <2> QED
    BY <2>1, <2>2
<1>4. /\ row \in Msg /\ row.kind = m.kind /\ row.from = m.from /\ row.claim = m.claim
      /\ row.at = m.at /\ row.ttl = m.ttl /\ row.renewal = m.renewal
      /\ row.after = m.after /\ row.tseq = lastTseq + 1
  BY <1>1, <1>2, <1>3 DEF Msg
<1>5. /\ thread' = Append(thread, row) /\ lastTseq' = lastTseq + 1
      /\ flight' = flight \ {m}
      /\ UNCHANGED <<clock, claims, held, freed, gaveUp>>
  BY <1>1, <1>4 DEF StorePost
<1>6. Evaluate(thread') = Apply(Evaluate(thread), row)
  BY <1>4, <1>5, AppendFacts
<1>7. (lastTseq = Len(thread))' = (lastTseq = Len(thread))
  <2>1. Len(thread') = Len(thread) + 1 /\ Len(thread) \in Nat /\ lastTseq \in Nat
    BY <1>4, <1>5, Basics, AppendFacts
  <2> QED
    BY <1>5, <2>1
<1>8. /\ Opens(m) => Decided' = Decided \cup {m.claim} /\ m.claim \notin Decided
      /\ ~Opens(m) => Decided' = Decided
  BY <1>5, StoreDecides
<1>9. m.at \in Nat /\ m.ttl \in Nat /\ clock \in Nat /\ m.at <= clock
  BY <1>2, Basics, MsgFields DEF IInv, InOrder, Posts
<1>10. m.at \in 0 .. clock /\ m.at <= m.at + m.ttl /\ m.at + m.ttl \in Nat
  BY <1>9
<1>11. PICK w : w = Evaluate(thread)
  OBVIOUS
<1>12. w # None => w \in Won /\ w.from \in Agent /\ w.until \in Nat
  BY <1>11, HolderFacts
<1>13. CASE Opens(m)
  <2>1. m.claim \in Decided' \ Decided
    BY <1>8, <1>13
  <2>2. CASE w = None \/ (~Renews(w, row) /\ Succeeds(w, row))
    <3>1. Evaluate(thread') = Winner(row)
      BY <1>4, <1>6, <1>11, <1>13, <2>2 DEF Apply, Opens
    <3>2. /\ Evaluate(thread').from = m.from /\ Evaluate(thread').claim = m.claim
          /\ Evaluate(thread').until = m.at + m.ttl /\ ~Evaluate(thread').released
      BY <1>4, <3>1 DEF Winner
    <3>3. Evaluate(thread') \in LeaseOf!Holding
      <4>1. row.after \in 0 .. MaxMsgs /\ row.at + row.ttl \in Nat
        BY <1>4, MsgFields
      <4>2. Winner(row) \in Won
        BY <1>2, <1>4, <4>1 DEF Winner, Won
      <4> QED
        BY <3>1, <4>2, WonIsHolding
    <3>4. /\ w = None \/ w.released \/ w.until <= m.at
          /\ w # None => Evaluate(thread').round # w.round
      BY <1>4, <2>2, <3>1 DEF Succeeds, Winner
    <3>5. LeaseOf!Grant(m.claim)
      BY <1>2, <1>8, <1>10, <1>11, <1>13, <3>2, <3>3, <3>4 DEF LeaseOf!Grant
    <3> QED
      BY <1>5, <1>7, <2>1, <3>5 DEF LeaseOf!Arrive
  <2>3. CASE w # None /\ ~(~Renews(w, row) /\ Succeeds(w, row))
    <3>1. ~Renews(w, row)
      BY <1>4, <1>13 DEF Renews, Opens
    <3>2. Evaluate(thread') = w
      BY <1>4, <1>6, <1>11, <1>13, <2>3, <3>1 DEF Apply, Opens
    <3>3. LeaseOf!Lose(m.claim)
      BY <1>2, <1>8, <1>11, <1>13, <2>3, <3>2 DEF LeaseOf!Lose
    <3> QED
      BY <1>5, <1>7, <2>1, <3>3 DEF LeaseOf!Arrive
  <2> QED
    BY <2>2, <2>3
<1>14. CASE m.kind = "claim" /\ ~Opens(m) /\ w # None /\ Renews(w, row)
  <2>1. Evaluate(thread') = [w EXCEPT !.until = m.at + m.ttl]
    BY <1>4, <1>6, <1>11, <1>14 DEF Apply
  <2>2. /\ Evaluate(thread').until = m.at + m.ttl
        /\ Evaluate(thread').claim = w.claim /\ Evaluate(thread').released = w.released
    BY <1>12, <1>14, <2>1 DEF Won
  <2>3. ~w.released /\ m.at < w.until /\ m.from = w.from /\ m.claim = w.claim
    BY <1>4, <1>14 DEF Renews
  <2>4. ASSUME LeaseOf!Bound(w.from), LeaseOf!Counts(w.from)
        PROVE  held[w.from].until <= m.at + m.ttl
    <3>1. lastTseq = Len(thread) /\ w.from \notin gaveUp /\ Holds(w.from)
      BY <2>4 DEF LeaseOf!Bound, LeaseOf!Counts, Holds
    <3>2. client[w.from].pc = "wait" /\ client[w.from].msg = m
      BY <2>3, <3>1 DEF IInv, Waits
    <3>3. client[w.from] # Idle
      BY <3>2 DEF Idle
    <3> QED
      BY <1>11, <1>12, <1>14, <3>1, <3>2, <3>3, HoldersWin
  <2>5. clock < m.at + m.ttl => w.claim \notin freed
    <3>1. (LeaseOf!Runs => Evaluate(thread).claim \notin freed)'
      BY RunsIsFinal, PTL
    <3>2. Evaluate(thread') # None
      <4>1. w.claim \in ClaimId
        BY <1>12, <1>14 DEF Won
      <4> QED
        BY <2>2, <4>1, ClaimIsPair DEF None
    <3>3. clock < m.at + m.ttl => LeaseOf!Runs'
      BY <1>5, <2>2, <2>3, <3>2 DEF LeaseOf!Runs
    <3> QED
      BY <1>5, <2>2, <3>1, <3>3
  <2>6. LeaseOf!Extend
    BY <1>8, <1>10, <1>11, <1>14, <2>1, <2>2, <2>3, <2>4, <2>5 DEF LeaseOf!Extend
  <2> QED
    BY <1>5, <1>7, <2>6 DEF LeaseOf!Arrive
<1>15. CASE m.kind = "release" /\ w # None /\ m.from = w.from /\ m.claim = w.claim
  <2>1. Evaluate(thread') = [w EXCEPT !.released = TRUE]
    BY <1>4, <1>6, <1>11, <1>15 DEF Apply
  <2>2. LeaseOf!Bound(w.from) => ~LeaseOf!Counts(w.from)
    <3> SUFFICES ASSUME LeaseOf!Bound(w.from), LeaseOf!Counts(w.from) PROVE FALSE
      OBVIOUS
    <3>1. lastTseq = Len(thread) /\ w.from \notin gaveUp /\ Holds(w.from)
      BY DEF LeaseOf!Bound, LeaseOf!Counts, Holds
    <3>2. client[w.from].pc = "wait" /\ client[w.from].msg = m
      BY <1>15, <3>1 DEF IInv, Waits
    <3>3. client[w.from] # Idle
      BY <3>2 DEF Idle
    <3> QED
      BY <1>11, <1>12, <1>15, <3>1, <3>2, <3>3, HoldersWin
  <2>3. ~Opens(m)
    BY <1>15 DEF Opens
  <2>4. LeaseOf!GiveBack
    BY <1>8, <1>11, <1>15, <2>1, <2>2, <2>3 DEF LeaseOf!GiveBack
  <2> QED
    BY <1>5, <1>7, <2>4 DEF LeaseOf!Arrive
<1>16. CASE /\ ~Opens(m)
            /\ ~(m.kind = "claim" /\ w # None /\ Renews(w, row))
            /\ ~(m.kind = "release" /\ w # None /\ m.from = w.from /\ m.claim = w.claim)
  <2>1. m.kind = "claim" => m.renewal /\ ~Succeeds(w, row)
    BY <1>4, <1>16 DEF Opens, Succeeds
  <2>2. Apply(w, row) = w
    BY <1>2, <1>4, <1>16, <2>1 DEF Apply
  <2> QED
    BY <1>5, <1>6, <1>7, <1>8, <1>11, <1>16, <2>2 DEF LeaseOf!leaseVars
<1> QED
  BY <1>13, <1>14, <1>15, <1>16

\* Any other message is nothing to the lease.
LEMMA NoteIsNothing ==
    ASSUME IInv, Note
    PROVE  UNCHANGED LeaseOf!leaseVars
<1>1. PICK row : row = [kind |-> "note", from |-> Other, claim |-> NoClaim, after |-> 0,
             ttl |-> 0, renewal |-> FALSE, at |-> clock, tseq |-> lastTseq + 1]
  OBVIOUS
<1>2. /\ lastTseq + Cardinality(flight) < MaxMsgs /\ lastTseq' = lastTseq + 1
      /\ thread' = Append(thread, row)
      /\ UNCHANGED <<clock, flight, client, claims, held, freed, gaveUp>>
  BY <1>1 DEF Note
<1>3. row \in Msg /\ row.kind = "note"
  <2>1. Cardinality(flight) \in Nat /\ lastTseq \in Nat /\ MaxMsgs \in Nat
    BY FS_CardinalityType, Basics, CoordinationAssumption DEF IInv, Types
  <2>2. lastTseq + 1 \in 0 .. MaxMsgs /\ 0 \in 0 .. MaxMsgs /\ clock \in 0 .. MaxClock
    BY <1>2, <2>1, Basics
  <2> QED
    BY <1>1, <2>2 DEF Msg
<1>4. Evaluate(thread') = Evaluate(thread)
  <2>1. Apply(Evaluate(thread), row) = Evaluate(thread)
    BY <1>3 DEF Apply
  <2> QED
    BY <1>2, <1>3, <2>1, AppendFacts
<1>5. (lastTseq = Len(thread))' = (lastTseq = Len(thread))
  <2>1. Len(thread') = Len(thread) + 1 /\ Len(thread) \in Nat /\ lastTseq \in Nat
    BY <1>2, <1>3, Basics, AppendFacts
  <2> QED
    BY <1>2, <2>1
<1>6. Decided' = Decided
  BY <1>2 DEF Decided
<1> QED
  BY <1>2, <1>4, <1>5, <1>6 DEF LeaseOf!leaseVars

\* A sweep may put any claim that was stored, and not released, in the lease.
LEMMA SweepForgets ==
    ASSUME IInv, IInv', Sweep
    PROVE  LeaseOf!Forget
<1>1. /\ Retention > 0
      /\ UNCHANGED <<clock, lastTseq, flight, client, claims, held, freed, gaveUp>>
  BY DEF Sweep
<1>2. ~(Retention = 0)
  BY <1>1, CoordinationAssumption
<1>3. (lastTseq = Len(thread))' = FALSE
  BY SweepShortens
<1>4. Decided' = Decided
  BY <1>1 DEF Decided
<1>5. (\/ Evaluate(thread) = None
       \/ Evaluate(thread) \in LeaseOf!Holding /\ Evaluate(thread).claim \in Decided)'
  BY WinnerIsDecided, PTL
<1>6. (LeaseOf!Runs => Evaluate(thread).claim \notin freed)'
  BY RunsIsFinal, PTL
<1> QED
  BY <1>1, <1>2, <1>3, <1>4, <1>5, <1>6 DEF LeaseOf!Forget

\* Every step of a work command, of the relay and of the clock is one of the
\* lease, or nothing to it.
LEMMA StepIsLease == IInv /\ IInv' /\ [Next]_vars => [LeaseOf!LeaseNext]_(LeaseOf!leaseVars)
<1> SUFFICES ASSUME IInv, IInv', [Next]_vars
             PROVE  LeaseOf!LeaseNext \/ UNCHANGED LeaseOf!leaseVars
  OBVIOUS
<1>1. ASSUME NEW a \in Agent, NEW ttl \in Ttl, Claim(a, ttl)
      PROVE  LeaseOf!LeaseNext \/ UNCHANGED LeaseOf!leaseVars
  BY <1>1, ClaimTells DEF LeaseOf!LeaseNext
<1>2. ASSUME NEW a \in Agent, Release(a) PROVE LeaseOf!LeaseNext
  BY <1>2, ReleaseTells DEF LeaseOf!LeaseNext
<1>3. ASSUME NEW a \in Agent, Stamp(a) PROVE UNCHANGED LeaseOf!leaseVars
  BY <1>3, StampDecides
<1>4. ASSUME NEW a \in Agent, Check(a)
      PROVE  LeaseOf!LeaseNext \/ UNCHANGED LeaseOf!leaseVars
  BY <1>4, CheckTells DEF LeaseOf!LeaseNext
<1>5. ASSUME NEW a \in Agent, GiveUp(a)
      PROVE  LeaseOf!LeaseNext \/ UNCHANGED LeaseOf!leaseVars
  <2>1. /\ UNCHANGED <<clock, thread, lastTseq, flight, claims, held, freed>>
        /\ gaveUp' = gaveUp \cup {a} \/ gaveUp' = gaveUp
    BY <1>5 DEF GiveUp
  <2>2. Decided' = Decided
    BY <2>1 DEF Decided
  <2>3. gaveUp' = gaveUp \cup {a} => LeaseOf!Stray
    BY <2>1, <2>2 DEF LeaseOf!Stray
  <2> QED
    BY <2>1, <2>2, <2>3 DEF LeaseOf!LeaseNext, LeaseOf!leaseVars
<1>6. ASSUME NEW m \in flight, StorePost(m)
      PROVE  LeaseOf!LeaseNext \/ UNCHANGED LeaseOf!leaseVars
  BY <1>6, StoreArrives DEF LeaseOf!LeaseNext
<1>7. ASSUME Note PROVE UNCHANGED LeaseOf!leaseVars
  BY <1>7, NoteIsNothing
<1>8. ASSUME Sweep PROVE LeaseOf!LeaseNext
  BY <1>8, SweepForgets DEF LeaseOf!LeaseNext
<1>9. ASSUME Tick PROVE LeaseOf!LeaseNext
  <2>1. /\ clock' = clock + 1
        /\ held' = [a \in Agent |-> IF held[a].until <= clock' THEN Free ELSE held[a]]
        /\ UNCHANGED <<thread, lastTseq, flight, client, claims, freed, gaveUp>>
    BY <1>9 DEF Tick
  <2>2. Decided' = Decided
    BY <2>1 DEF Decided
  <2>3. LeaseOf!Pass
    BY <2>1, <2>2 DEF LeaseOf!Pass, LeaseOf!Nothing, Free
  <2> QED
    BY <2>3 DEF LeaseOf!LeaseNext
<1>10. CASE UNCHANGED vars
  <2>1. Decided' = Decided
    BY <1>10 DEF vars, Decided
  <2> QED
    BY <1>10, <2>1 DEF vars, LeaseOf!leaseVars
<1> QED
  BY <1>1, <1>2, <1>3, <1>4, <1>5, <1>6, <1>7, <1>8, <1>9, <1>10 DEF Next

\* For any number of claimants, messages and lost answers, the commands together
\* are a lease: what is told of it is so, it moves only when it was released or
\* had run out, and no claim is decided twice (claim, send_claim, release,
\* evaluate).
THEOREM CoordinationImplementsLease == Spec => ImplementsLease
<1>1. Init => LeaseOf!LeaseInit
  <2> SUFFICES ASSUME Init PROVE LeaseOf!LeaseInit
    OBVIOUS
  <2>1. Evaluate(thread) = None
    BY EvaluateEmpty DEF Init
  <2>2. Decided = {}
    <3> SUFFICES ASSUME NEW c \in ClaimId PROVE ~(c[2] <= claims[c[1]])
      BY DEF Decided
    <3>1. PICK b \in Agent, n \in 1 .. MaxMsgs : c = <<b, n>>
      BY DEF ClaimId
    <3>2. claims[b] = 0 /\ c[1] = b /\ c[2] = n /\ n \in Nat /\ n # 0
      BY <3>1, CoordinationAssumption DEF Init
    <3> QED
      BY <3>2
  <2>3. (lastTseq = Len(thread)) = TRUE
    BY DEF Init
  <2> QED
    BY <2>1, <2>2, <2>3 DEF Init, LeaseOf!LeaseInit, LeaseOf!Nothing, Free
<1>2. IInv /\ IInv' /\ [Next]_vars => [LeaseOf!LeaseNext]_(LeaseOf!leaseVars)
  BY StepIsLease
<1> QED
  BY <1>1, <1>2, CoordinationInvariant, PTL DEF Spec, ImplementsLease, LeaseOf!LeaseSpec

-----------------------------------------------------------------------------
(* What the lease alone is worth.                                          *)

\* What a lease keeps: its types, that who counts on it has it, that a reported
\* claim does not run, and that it belongs to a claim that was decided.
LeaseInv ==
    /\ LeaseOf!LeaseTypeOK /\ LeaseOf!CountedIsLeased /\ LeaseOf!OverIsOver
    /\ Evaluate(thread) # None => Evaluate(thread).claim \in Decided

LEMMA NobodyIsNoHolding == None \notin LeaseOf!Holding
<1>1. None.claim = NoClaim
  BY DEF None
<1>2. \A h \in LeaseOf!Holding : h.claim \in ClaimId
  BY DEF LeaseOf!Holding
<1> QED
  BY <1>1, <1>2, ClaimIsPair

\* What happens to the lease when a request arrives.
LEMMA ArriveKeepsLease == LeaseInv /\ LeaseOf!Arrive => LeaseInv'
<1> SUFFICES ASSUME LeaseInv, LeaseOf!Arrive PROVE LeaseInv'
  OBVIOUS
<1>1. PICK w : w = Evaluate(thread)
  OBVIOUS
<1>2. PICK v : v = Evaluate(thread)'
  OBVIOUS
<1>3. UNCHANGED <<clock, freed, held, lastTseq = Len(thread), gaveUp>>
  BY DEF LeaseOf!Arrive
<1>4. /\ clock \in Nat /\ w \in LeaseOf!Holding \cup {None}
      /\ Decided \subseteq ClaimId /\ freed \subseteq Decided
      /\ held \in [Agent -> [claim : ClaimId \cup {NoClaim}, until : Nat]]
      /\ w # None => w.claim \in Decided
  BY <1>1 DEF LeaseInv, LeaseOf!LeaseTypeOK
<1>5. ASSUME NEW a \in Agent, LeaseOf!Bound(a), LeaseOf!Counts(a)
      PROVE  /\ w # None /\ w.from = a /\ w.claim = held[a].claim
             /\ ~w.released /\ held[a].until <= w.until
             /\ held[a].until \in Nat /\ clock < held[a].until
  BY <1>1, <1>4, <1>5 DEF LeaseInv, LeaseOf!CountedIsLeased, LeaseOf!Counts
<1>6. \A a \in Agent : /\ LeaseOf!Bound(a)' = LeaseOf!Bound(a)
                       /\ LeaseOf!Counts(a)' = LeaseOf!Counts(a)
  BY <1>3 DEF LeaseOf!Bound, LeaseOf!Counts
<1>7. ASSUME
        /\ v \in LeaseOf!Holding \cup {None}
        /\ Decided' \subseteq ClaimId /\ Decided \subseteq Decided'
        /\ \A a \in Agent : LeaseOf!Bound(a) /\ LeaseOf!Counts(a) =>
              /\ v # None /\ v.from = a /\ v.claim = held[a].claim
              /\ ~v.released /\ held[a].until <= v.until
        /\ v # None /\ ~v.released /\ clock < v.until => v.claim \notin freed
        /\ v # None => v.claim \in Decided'
      PROVE  LeaseInv'
  <2>1. LeaseOf!LeaseTypeOK'
    BY <1>2, <1>3, <1>4, <1>7 DEF LeaseOf!LeaseTypeOK
  <2>2. LeaseOf!CountedIsLeased'
    BY <1>2, <1>3, <1>6, <1>7 DEF LeaseOf!CountedIsLeased
  <2>3. LeaseOf!OverIsOver'
    BY <1>2, <1>3, <1>7 DEF LeaseOf!OverIsOver, LeaseOf!Runs
  <2> QED
    BY <1>2, <1>7, <2>1, <2>2, <2>3 DEF LeaseInv
<1>8. ASSUME NEW c \in Decided' \ Decided, LeaseOf!Grant(c)
      PROVE  LeaseInv'
  <2>1. /\ Decided' = Decided \cup {c} /\ v \in LeaseOf!Holding /\ v.claim = c
        /\ \E at \in 0 .. clock : w = None \/ w.released \/ w.until <= at
    BY <1>1, <1>2, <1>8 DEF LeaseOf!Grant
  <2>2. v # None /\ c \in ClaimId /\ c \notin freed
    BY <1>4, <1>8, <2>1, NobodyIsNoHolding DEF LeaseOf!Holding
  <2>3. ASSUME NEW a \in Agent, LeaseOf!Bound(a), LeaseOf!Counts(a) PROVE FALSE
    <3>1. PICK at \in 0 .. clock : w = None \/ w.released \/ w.until <= at
      BY <2>1
    <3>2. /\ w # None /\ ~w.released /\ held[a].until <= w.until
          /\ held[a].until \in Nat /\ clock < held[a].until
      BY <1>5, <2>3
    <3>3. w.until \in Nat /\ w.until <= at
      BY <1>4, <3>1, <3>2 DEF LeaseOf!Holding
    <3> QED
      BY <1>4, <3>1, <3>2, <3>3
  <2> QED
    BY <1>4, <1>7, <2>1, <2>2, <2>3
<1>9. ASSUME NEW c \in Decided' \ Decided, LeaseOf!Lose(c)
      PROVE  LeaseInv'
  <2>1. Decided' = Decided \cup {c} /\ v = w /\ c \in ClaimId
    BY <1>1, <1>2, <1>9 DEF LeaseOf!Lose
  <2>2. w # None /\ ~w.released /\ clock < w.until => w.claim \notin freed
    BY <1>1 DEF LeaseInv, LeaseOf!OverIsOver, LeaseOf!Runs
  <2> QED
    BY <1>4, <1>5, <1>7, <2>1, <2>2
<1>10. ASSUME LeaseOf!Extend
       PROVE  LeaseInv'
  <2>1. /\ Decided' = Decided /\ w # None /\ ~w.released /\ v.until \in Nat
        /\ v = [w EXCEPT !.until = v.until]
        /\ LeaseOf!Bound(w.from) /\ LeaseOf!Counts(w.from) => held[w.from].until <= v.until
        /\ clock < v.until => w.claim \notin freed
    BY <1>1, <1>2, <1>10 DEF LeaseOf!Extend
  <2>2. w \in LeaseOf!Holding
    BY <1>4, <2>1
  <2>3. /\ v \in LeaseOf!Holding /\ v.from = w.from /\ v.claim = w.claim
        /\ v.released = w.released
    BY <2>1, <2>2 DEF LeaseOf!Holding
  <2> QED
    BY <1>4, <1>5, <1>7, <2>1, <2>3, NobodyIsNoHolding
<1>11. ASSUME LeaseOf!GiveBack
       PROVE  LeaseInv'
  <2>1. /\ Decided' = Decided /\ w # None /\ v = [w EXCEPT !.released = TRUE]
        /\ LeaseOf!Bound(w.from) => ~LeaseOf!Counts(w.from)
    BY <1>1, <1>2, <1>11 DEF LeaseOf!GiveBack
  <2>2. v \in LeaseOf!Holding /\ v.released /\ v.claim = w.claim
    BY <1>4, <2>1 DEF LeaseOf!Holding
  <2> QED
    BY <1>4, <1>5, <1>7, <2>1, <2>2, NobodyIsNoHolding
<1> QED
  BY <1>8, <1>9, <1>10, <1>11 DEF LeaseOf!Arrive

\* What the identities are told, and what they stop counting on.
LEMMA TellKeepsLease == LeaseInv /\ LeaseOf!Tell => LeaseInv'
<1> SUFFICES ASSUME LeaseInv, LeaseOf!Tell PROVE LeaseInv'
  OBVIOUS
<1>1. UNCHANGED <<clock, Evaluate(thread), Decided, freed, lastTseq = Len(thread), gaveUp>>
  BY DEF LeaseOf!Tell
<1>2. PICK w : w = Evaluate(thread)
  OBVIOUS
<1>3. /\ clock \in Nat /\ w \in LeaseOf!Holding \cup {None}
      /\ Decided \subseteq ClaimId /\ freed \subseteq Decided
      /\ held \in [Agent -> [claim : ClaimId \cup {NoClaim}, until : Nat]]
  BY <1>2 DEF LeaseInv, LeaseOf!LeaseTypeOK
<1>4. PICK a \in Agent : LeaseOf!TellNo(a) \/ LeaseOf!CountOnLess(a) \/ LeaseOf!TellYes(a)
  BY DEF LeaseOf!Tell
<1>5. \A b \in Agent : LeaseOf!Bound(b)' = LeaseOf!Bound(b)
  BY <1>1 DEF LeaseOf!Bound
<1>6. ASSUME
        /\ held' \in [Agent -> [claim : ClaimId \cup {NoClaim}, until : Nat]]
        /\ \A b \in Agent : b # a => held'[b] = held[b]
        /\ LeaseOf!Bound(a) /\ LeaseOf!Counts(a)' =>
              /\ w # None /\ w.from = a /\ w.claim = held'[a].claim
              /\ ~w.released /\ held'[a].until <= w.until
      PROVE  LeaseInv'
  <2>1. LeaseOf!LeaseTypeOK'
    BY <1>1, <1>2, <1>3, <1>6 DEF LeaseOf!LeaseTypeOK
  <2>2. LeaseOf!CountedIsLeased'
    <3>0. SUFFICES ASSUME NEW b \in Agent, LeaseOf!Bound(b), LeaseOf!Counts(b)'
                   PROVE  /\ w # None /\ w.from = b /\ w.claim = held'[b].claim
                        /\ ~w.released /\ held'[b].until <= w.until
      BY <1>1, <1>2, <1>5 DEF LeaseOf!CountedIsLeased
    <3>1. CASE b # a
      <4>1. held'[b] = held[b] /\ LeaseOf!Counts(b)
        BY <1>1, <1>6, <3>1, <3>0 DEF LeaseOf!Counts
      <4> QED
        BY <1>2, <3>0, <4>1 DEF LeaseInv, LeaseOf!CountedIsLeased
    <3>2. CASE b = a
      BY <1>6, <3>2, <3>0
    <3> QED
      BY <3>1, <3>2
  <2>3. LeaseOf!OverIsOver'
    BY <1>1 DEF LeaseInv, LeaseOf!OverIsOver, LeaseOf!Runs
  <2> QED
    BY <1>1, <2>1, <2>2, <2>3 DEF LeaseInv
<1>7. CASE LeaseOf!TellNo(a)
  <2>1. held' = [held EXCEPT ![a] = [claim |-> NoClaim, until |-> 0]]
    BY <1>7 DEF LeaseOf!TellNo, LeaseOf!Nothing
  <2>2. ~LeaseOf!Counts(a)'
    BY <1>3, <2>1 DEF LeaseOf!Counts
  <2> QED
    BY <1>3, <1>6, <2>1, <2>2
<1>8. CASE LeaseOf!CountOnLess(a)
  <2>1. /\ held' = [held EXCEPT ![a].until = held'[a].until]
        /\ held'[a].until \in 0 .. held[a].until
    BY <1>8 DEF LeaseOf!CountOnLess
  <2>2. /\ held' \in [Agent -> [claim : ClaimId \cup {NoClaim}, until : Nat]]
        /\ \A b \in Agent : b # a => held'[b] = held[b]
        /\ held'[a].claim = held[a].claim
    BY <1>3, <2>1
  <2>3. ASSUME LeaseOf!Bound(a), LeaseOf!Counts(a)'
        PROVE  /\ w # None /\ w.from = a /\ w.claim = held'[a].claim
               /\ ~w.released /\ held'[a].until <= w.until
    <3>1. held[a].until \in Nat /\ held'[a].until <= held[a].until /\ held'[a].until \in Nat
      BY <1>3, <2>1
    <3>2. LeaseOf!Counts(a)
      BY <1>1, <1>3, <2>2, <2>3, <3>1 DEF LeaseOf!Counts
    <3>3. /\ w # None /\ w.from = a /\ w.claim = held[a].claim
          /\ ~w.released /\ held[a].until <= w.until
      BY <1>2, <2>3, <3>2 DEF LeaseInv, LeaseOf!CountedIsLeased
    <3>4. w.until \in Nat
      BY <1>3, <3>3 DEF LeaseOf!Holding
    <3> QED
      BY <2>2, <3>1, <3>3, <3>4
  <2> QED
    BY <1>6, <2>2, <2>3
<1>9. CASE LeaseOf!TellYes(a)
  <2>1. /\ held' = [held EXCEPT ![a] = [claim |-> w.claim, until |-> w.until]]
        /\ w # None /\ ~w.released /\ w.from = a
    BY <1>2, <1>9 DEF LeaseOf!TellYes, LeaseOf!Runs
  <2>2. w.claim \in ClaimId /\ w.until \in Nat
    BY <1>3, <2>1 DEF LeaseOf!Holding
  <2>3. held'[a] = [claim |-> w.claim, until |-> w.until]
    BY <1>3, <2>1
  <2> QED
    BY <1>3, <1>6, <2>1, <2>2, <2>3
<1> QED
  BY <1>4, <1>7, <1>8, <1>9

\* The lease alone keeps its promises: who counts on it has it, and a reported
\* claim does not run (claim, release).
LEMMA LeaseKeeps == LeaseOf!LeaseSpec => []LeaseInv
<1>1. LeaseOf!LeaseInit => LeaseInv
  BY DEF LeaseOf!LeaseInit, LeaseInv, LeaseOf!LeaseTypeOK, LeaseOf!CountedIsLeased,
         LeaseOf!OverIsOver, LeaseOf!Runs, LeaseOf!Counts, LeaseOf!Nothing
<1>2. LeaseInv /\ [LeaseOf!LeaseNext]_(LeaseOf!leaseVars) => LeaseInv'
  <2> SUFFICES ASSUME LeaseInv, LeaseOf!LeaseNext \/ UNCHANGED LeaseOf!leaseVars
               PROVE  LeaseInv'
    OBVIOUS
  <2>1. CASE LeaseOf!Arrive
    BY <2>1, ArriveKeepsLease
  <2>2. CASE LeaseOf!Tell
    BY <2>2, TellKeepsLease
  <2>3. CASE LeaseOf!Forget
    BY <2>3 DEF LeaseOf!Forget, LeaseInv, LeaseOf!LeaseTypeOK, LeaseOf!CountedIsLeased,
                LeaseOf!OverIsOver, LeaseOf!Bound
  <2>4. CASE LeaseOf!Report
    <3>1. UNCHANGED <<clock, held, lastTseq = Len(thread), gaveUp, Evaluate(thread), Decided>>
      BY <2>4 DEF LeaseOf!Report
    <3>2. PICK c \in freed' : /\ freed' = freed \cup {c} /\ c \in Decided
                              /\ ~(LeaseOf!Runs /\ Evaluate(thread).claim = c)
      BY <2>4 DEF LeaseOf!Report
    <3>3. LeaseOf!OverIsOver'
      BY <3>1, <3>2 DEF LeaseInv, LeaseOf!OverIsOver, LeaseOf!Runs
    <3>4. LeaseOf!CountedIsLeased'
      BY <3>1 DEF LeaseInv, LeaseOf!CountedIsLeased, LeaseOf!Bound, LeaseOf!Counts
    <3>5. LeaseOf!LeaseTypeOK'
      BY <3>1, <3>2 DEF LeaseInv, LeaseOf!LeaseTypeOK
    <3> QED
      BY <3>1, <3>3, <3>4, <3>5 DEF LeaseInv
  <2>5. CASE LeaseOf!Stray
    BY <2>5 DEF LeaseOf!Stray, LeaseInv, LeaseOf!LeaseTypeOK, LeaseOf!CountedIsLeased,
                LeaseOf!OverIsOver, LeaseOf!Bound, LeaseOf!Counts, LeaseOf!Runs
  <2>6. CASE LeaseOf!Pass
    <3>1. /\ clock' = clock + 1
          /\ held' = [a \in Agent |-> IF held[a].until <= clock'
                                      THEN [claim |-> NoClaim, until |-> 0] ELSE held[a]]
          /\ UNCHANGED <<freed, lastTseq = Len(thread), gaveUp, Evaluate(thread), Decided>>
      BY <2>6 DEF LeaseOf!Pass, LeaseOf!Nothing
    <3>2. clock \in Nat /\ held \in [Agent -> [claim : ClaimId \cup {NoClaim}, until : Nat]]
      BY DEF LeaseInv, LeaseOf!LeaseTypeOK
    <3>3. LeaseOf!LeaseTypeOK'
      BY <3>1, <3>2 DEF LeaseInv, LeaseOf!LeaseTypeOK
    <3>4. ASSUME NEW a \in Agent, LeaseOf!Counts(a)'
          PROVE  LeaseOf!Counts(a) /\ held'[a] = held[a]
      <4>1. held'[a] = IF held[a].until <= clock'
                       THEN [claim |-> NoClaim, until |-> 0] ELSE held[a]
        BY <3>1
      <4>2. held'[a] = held[a]
        BY <3>4, <4>1 DEF LeaseOf!Counts
      <4> QED
        BY <3>1, <3>2, <3>4, <4>2 DEF LeaseOf!Counts
    <3>5. LeaseOf!CountedIsLeased'
      BY <3>1, <3>4 DEF LeaseInv, LeaseOf!CountedIsLeased, LeaseOf!Bound
    <3>6. LeaseOf!OverIsOver'
      <4>1. Evaluate(thread) # None => Evaluate(thread).until \in Nat
        BY DEF LeaseInv, LeaseOf!LeaseTypeOK, LeaseOf!Holding
      <4> QED
        BY <3>1, <3>2, <4>1 DEF LeaseInv, LeaseOf!OverIsOver, LeaseOf!Runs
    <3> QED
      BY <3>1, <3>3, <3>5, <3>6 DEF LeaseInv
  <2>7. CASE UNCHANGED LeaseOf!leaseVars
    BY <2>7 DEF LeaseOf!leaseVars, LeaseInv, LeaseOf!LeaseTypeOK, LeaseOf!CountedIsLeased,
                LeaseOf!OverIsOver, LeaseOf!Bound, LeaseOf!Counts, LeaseOf!Runs
  <2> QED
    BY <2>1, <2>2, <2>3, <2>4, <2>5, <2>6, <2>7 DEF LeaseOf!LeaseNext
<1> QED
  BY <1>1, <1>2, PTL DEF LeaseOf!LeaseSpec

\* From the promise alone: two identities never count on the work at the same
\* time, for whatever implements the lease (claim).
THEOREM LeaseExcludes == LeaseOf!LeaseSpec => []LeaseOf!OneCounts
<1>1. LeaseInv => LeaseOf!OneCounts
  BY DEF LeaseInv, LeaseOf!CountedIsLeased, LeaseOf!OneCounts
<1> QED
  BY <1>1, LeaseKeeps, PTL

\* While nothing is deleted, a claim that lost never takes the work, and one
\* that ended never comes back: only retention promotes a loser (evaluate).
THEOREM LosersStayLosers == Spec => LeaseOf!LostIsLost
<1> DEFINE Lost ==
             /\ (lastTseq = Len(thread))' /\ Evaluate(thread)' # None
             /\ Evaluate(thread) # None => Evaluate(thread)'.claim # Evaluate(thread).claim
             => Evaluate(thread)'.claim \notin Decided
<1>1. LeaseInv /\ [LeaseOf!LeaseNext]_(LeaseOf!leaseVars) => [Lost]_(LeaseOf!leaseVars)
  <2> SUFFICES ASSUME LeaseInv, LeaseOf!LeaseNext,
                      (lastTseq = Len(thread))', Evaluate(thread)' # None,
                      Evaluate(thread) # None =>
                          Evaluate(thread)'.claim # Evaluate(thread).claim
               PROVE  Evaluate(thread)'.claim \notin Decided
    OBVIOUS
  <2>1. CASE LeaseOf!Arrive
    <3>1. CASE \E c \in Decided' \ Decided : LeaseOf!Grant(c)
      BY <3>1 DEF LeaseOf!Grant
    <3>2. CASE \E c \in Decided' \ Decided : LeaseOf!Lose(c)
      BY <3>2 DEF LeaseOf!Lose
    <3>3. CASE LeaseOf!Extend \/ LeaseOf!GiveBack
      <4>1. Evaluate(thread) \in LeaseOf!Holding
        BY <3>3 DEF LeaseOf!Extend, LeaseOf!GiveBack, LeaseInv, LeaseOf!LeaseTypeOK
      <4>2. Evaluate(thread)'.claim = Evaluate(thread).claim
        BY <3>3, <4>1 DEF LeaseOf!Extend, LeaseOf!GiveBack, LeaseOf!Holding
      <4> QED
        BY <4>1, <4>2, NobodyIsNoHolding
    <3> QED
      BY <2>1, <3>1, <3>2, <3>3 DEF LeaseOf!Arrive
  <2>2. CASE LeaseOf!Forget
    BY <2>2 DEF LeaseOf!Forget
  <2>3. CASE LeaseOf!Tell \/ LeaseOf!Report \/ LeaseOf!Stray \/ LeaseOf!Pass
    BY <2>3 DEF LeaseOf!Tell, LeaseOf!Report, LeaseOf!Stray, LeaseOf!Pass
  <2> QED
    BY <2>1, <2>2, <2>3 DEF LeaseOf!LeaseNext
<1> QED
  BY <1>1, LeaseKeeps, CoordinationImplementsLease, PTL
     DEF ImplementsLease, LeaseOf!LeaseSpec, LeaseOf!LostIsLost

====
