--------------------------- MODULE RequestProofs ---------------------------
(***************************************************************************)
(* Proofs about the request of an adapter.  What it carries, for any       *)
(* models, caps and budgets and any length of history: Conversation, with  *)
(* TransformMessages, WireMessages and RequestOptions.  And how often it   *)
(* is sent, for any number of retries: HttpRetry.                          *)
(***************************************************************************)
EXTENDS HttpRetry, Conversation, FiniteSetTheorems, SequenceTheorems, TLAPS

-----------------------------------------------------------------------------
(* HttpRetry: how often a request is sent                                  *)

\* An attempt has a failure on record exactly from the moment it failed.
Recorded ==
    /\ pc \in {"top", "send", "stop", "callback", "read"} => Len(failures) = attempt
    /\ pc \in {"failed", "refused", "sleep"} => Len(failures) = attempt + 1
    /\ pc = "returned" /\ outcome # "aborted" =>
          Len(failures) = IF outcome = "failed" THEN attempt + 1 ELSE attempt

\* What is known of the last failure where the loop decides.
Judged ==
    /\ pc = "failed" => Transient(failures[attempt + 1])
    /\ pc = "refused" => failures[attempt + 1] \in Refusal
    /\ pc = "sleep" => Transient(failures[attempt + 1]) /\ attempt < MaxRetries

\* The body of a response is open until the loop settled it.
Opened ==
    bodies = IF \/ pc \in {"stop", "callback", "read"}
                \/ outcome = "response"
             THEN {attempt}
             ELSE {}

Answered ==
    /\ pc \in {"stop", "callback", "read"} => answer \in Response
    /\ pc = "read" => answer.status # "ok"
    /\ outcome = "none" <=> pc # "returned"

IInv == TypeOK /\ Recorded /\ Judged /\ Opened /\ Answered /\ RetriesJustified

LEMMA InitIInv == HttpInit => IInv
<1> SUFFICES ASSUME HttpInit PROVE IInv
  OBVIOUS
<1>1. attempt = 0 /\ Len(failures) = 0 /\ 1..attempt = {}
  BY DEF HttpInit
<1>2. TypeOK
  <2>1. failures \in Seq(Failure)
    BY DEF HttpInit
  <2>2. attempt \in 0..MaxRetries /\ bodies \subseteq 0..MaxRetries
    BY RetriesAssumption DEF HttpInit
  <2>3. QED
    BY <2>1, <2>2 DEF HttpInit, TypeOK
<1>3. Recorded /\ Judged /\ Opened /\ Answered
  BY <1>1 DEF HttpInit, Recorded, Judged, Opened, Answered
<1>4. RetriesJustified
  BY <1>1, RetriesAssumption DEF HttpInit, RetriesJustified
<1>5. QED
  BY <1>2, <1>3, <1>4 DEF IInv

\* A refusal that is not retryable is not transient either.
LEMMA RefusalIsNoTransport ==
  ASSUME NEW f \in Refusal, Transient(f)
  PROVE  IsRetryable(f)
  BY DEF Refusal, Transient, Transport, HeaderTimeout

LEMMA NextIInv == IInv /\ [HttpNext]_httpVars => IInv'
<1> SUFFICES ASSUME IInv, [HttpNext]_httpVars PROVE IInv'
  OBVIOUS
<1> USE RetriesAssumption
<1>1. CASE Attempt
  BY <1>1 DEF Attempt, Return, Proceed, IInv, TypeOK, Recorded, Judged, Opened, Answered, RetriesJustified
<1>2. CASE StopTimer
  BY <1>2 DEF StopTimer, Proceed, IInv, TypeOK, Recorded, Judged, Opened, Answered, RetriesJustified
<1>3. CASE AfterTransportFailure
  BY <1>3 DEF AfterTransportFailure, Return, Proceed, IInv, TypeOK, Recorded, Judged, Opened, Answered,
              RetriesJustified
<1>4. CASE OnResponse
  BY <1>4 DEF OnResponse, Return, Proceed, IInv, TypeOK, Recorded, Judged, Opened, Answered, RetriesJustified
<1>5. CASE AfterRefusal
  <2>1. pc = "refused" /\ Len(failures) = attempt + 1 /\ failures[attempt + 1] \in Refusal
    BY <1>5 DEF AfterRefusal, IInv, Recorded, Judged
  <2>2. CASE attempt < MaxRetries /\ IsRetryable(failures[attempt + 1])
    BY <1>5, <2>1, <2>2
       DEF AfterRefusal, Proceed, Transient, IInv, TypeOK, Recorded, Judged, Opened, Answered, RetriesJustified
  <2>3. CASE ~(attempt < MaxRetries /\ IsRetryable(failures[attempt + 1]))
    <3>1. Transient(failures[attempt + 1]) => attempt = MaxRetries
      BY <2>1, <2>3, RefusalIsNoTransport DEF IInv, TypeOK
    <3>2. QED
      BY <1>5, <2>1, <2>3, <3>1
         DEF AfterRefusal, Return, IInv, TypeOK, Recorded, Judged, Opened, Answered, RetriesJustified
  <2>4. QED
    BY <2>2, <2>3
<1>6. CASE Sleep
  BY <1>6 DEF Sleep, Return, Proceed, IInv, TypeOK, Recorded, Judged, Opened, Answered, RetriesJustified
<1>7. CASE Respond
  BY <1>7 DEF Respond, Proceed, IInv, TypeOK, Recorded, Judged, Opened, Answered, RetriesJustified
<1>8. CASE TransportFails
  <2> DEFINE f == IF timer = "fired" /\ ~cancelled THEN HeaderTimeout ELSE Transport
  <2>1. f \in Failure /\ Transient(f)
    BY DEF Failure, Transient
  <2> HIDE DEF f
  <2>2. failures' = Append(failures, f)
    BY <1>8 DEF TransportFails, f
  <2>3. QED
    BY <1>8, <2>1, <2>2
       DEF TransportFails, Proceed, IInv, TypeOK, Recorded, Judged, Opened, Answered, RetriesJustified
<1>9. CASE ReadErrorBody
  <2>1. PICK text \in {answer.text, "plain"} :
           failures' = Append(failures, [status |-> answer.status, text |-> text])
    BY <1>9 DEF ReadErrorBody
  <2> DEFINE f == [status |-> answer.status, text |-> text]
  <2>2. f \in Refusal
    BY <1>9, <2>1 DEF ReadErrorBody, IInv, Answered, Response, Refusal
  <2>3. f \in Failure
    BY <2>2 DEF Failure
  <2>4. failures' = Append(failures, f)
    BY <2>1
  <2> HIDE DEF f
  <2>5. QED
    BY <1>9, <2>2, <2>3, <2>4
       DEF ReadErrorBody, Proceed, IInv, TypeOK, Recorded, Judged, Opened, Answered, RetriesJustified
<1>10. CASE TimerFires
  BY <1>10 DEF TimerFires, IInv, TypeOK, Recorded, Judged, Opened, Answered, RetriesJustified
<1>11. CASE CancelCall
  BY <1>11 DEF CancelCall, IInv, TypeOK, Recorded, Judged, Opened, Answered, RetriesJustified
<1>12. CASE UNCHANGED httpVars
  BY <1>12 DEF httpVars, IInv, TypeOK, Recorded, Judged, Opened, Answered, RetriesJustified
<1>13. QED
  BY <1>1, <1>2, <1>3, <1>4, <1>5, <1>6, <1>7, <1>8, <1>9, <1>10, <1>11, <1>12 DEF HttpNext, Loop

THEOREM Invariance == HttpSpec => []IInv
  BY InitIInv, NextIInv, PTL DEF HttpSpec

\* The variables of Do keep their types.
THEOREM TypeCorrect == HttpSpec => []TypeOK
<1>1. IInv => TypeOK
  BY DEF IInv
<1>2. QED
  BY <1>1, Invariance, PTL

\* Whatever the cap, Do retries exactly the transient failures, no more often than
\* the cap says, and reports an abort only to a caller who aborted.
THEOREM RetriesAreJustified == HttpSpec => []RetriesJustified
<1>1. IInv => RetriesJustified
  BY DEF IInv
<1>2. QED
  BY <1>1, Invariance, PTL

\* Whatever the cap, no response body is left open behind the caller's back.
THEOREM NoBodyLeaks == HttpSpec => []BodiesSettled
<1>1. IInv => BodiesSettled
  BY DEF IInv, TypeOK, Opened, Answered, BodiesSettled
<1>2. QED
  BY <1>1, Invariance, PTL

-----------------------------------------------------------------------------
(* Induction, recursion and sums: what the provers lack                    *)

\* Induction over the natural numbers, for a set: the library's theorem takes an operator, which no prover
\* instantiates; this follows from the well-foundedness of the proper subsets of a finite set.
LEMMA NatInductionSet ==
  ASSUME NEW T, 0 \in T, \A n \in Nat : n \in T => n + 1 \in T
  PROVE  Nat \subseteq T
<1> SUFFICES ASSUME NEW q \in Nat, q \notin T PROVE FALSE
  OBVIOUS
<1> DEFINE Bad == {n \in 0..q : n \notin T}
           Below(x) == {y \in Bad : y < x}
           R == StrictSubsetOrdering(Bad)
           F == {Below(x) : x \in Bad}
<1>1. IsFiniteSet(Bad) /\ Bad \subseteq Nat /\ q \in Bad
  <2>1. IsFiniteSet(0..q) /\ Bad \subseteq 0..q
    BY FS_Interval
  <2> QED BY <2>1, FS_Subset
<1>2. IsWellFoundedOn(R, FiniteSubsetsOf(Bad))
  BY <1>1, FS_StrictSubsetOrderingWellFounded
<1>3. F \subseteq FiniteSubsetsOf(Bad) /\ F # {}
  <2>1. ASSUME NEW x \in Bad PROVE Below(x) \in SUBSET Bad /\ IsFiniteSet(Below(x))
    <3>1. Below(x) \subseteq Bad
      OBVIOUS
    <3> HIDE DEF Below, Bad
    <3> QED BY <1>1, <3>1, FS_Subset
  <2> HIDE DEF Below, Bad
  <2> QED BY <1>1, <2>1 DEF FiniteSubsetsOf
<1>4. PICK D \in F : \A U \in F : <<U, D>> \notin R
  BY <1>2, <1>3, WFMin
<1>5. PICK m \in Bad : D = Below(m)
  BY <1>4
<1>6. m \in Nat /\ m # 0 /\ m - 1 \in 0..q /\ m - 1 \in Nat /\ m - 1 \notin T
  <2>1. m \in Nat /\ m # 0 /\ m - 1 \in Nat /\ m \in 0..q /\ m \notin T
    OBVIOUS
  <2>2. (m - 1) + 1 = m
    BY <2>1
  <2>3. m - 1 \in T => m \in T
    BY <2>1, <2>2
  <2> QED BY <2>1, <2>3
<1>7. m - 1 \in Bad
  BY <1>6
<1>8. Below(m - 1) \subseteq Below(m) /\ m - 1 \in Below(m) /\ m - 1 \notin Below(m - 1)
  BY <1>6, <1>7
<1>9. <<Below(m - 1), D>> \in R
  BY <1>5, <1>8 DEF StrictSubsetOrdering
<1> QED BY <1>4, <1>7, <1>9

\* f begins with a and goes on by the steps of G.
Steps(G, S) == G \in [Nat \X S -> S]
Iterates(f, S, a, G) == f \in [Nat -> S] /\ f[0] = a /\ \A n \in Nat : f[n + 1] = G[<<n, f[n]>>]

\* Recursion over the natural numbers.
LEMMA RecursiveFunction ==
  ASSUME NEW S, NEW a \in S, NEW G, Steps(G, S)
  PROVE  \E f : Iterates(f, S, a, G)
<1>0. G \in [Nat \X S -> S]
  BY DEF Steps
<1> DEFINE Good(n, g) == g[0] = a /\ \A k \in 0..(n - 1) : g[k + 1] = G[<<k, g[k]>>]
           T == {n \in Nat : \E g \in [0..n -> S] : Good(n, g)}
<1>1. \A n \in Nat : \E g \in [0..n -> S] : Good(n, g)
  <2>1. 0 \in T
    <3>1. [i \in 0..0 |-> a] \in [0..0 -> S] /\ Good(0, [i \in 0..0 |-> a])
      OBVIOUS
    <3> QED BY <3>1
  <2>2. ASSUME NEW n \in Nat, n \in T PROVE n + 1 \in T
    <3>1. PICK g \in [0..n -> S] : Good(n, g)
      BY <2>2
    <3> DEFINE h == [i \in 0..(n + 1) |-> IF i = n + 1 THEN G[<<n, g[n]>>] ELSE g[i]]
    <3>2. h \in [0..(n + 1) -> S]
      <4>1. <<n, g[n]>> \in Nat \X S
        OBVIOUS
      <4>2. G[<<n, g[n]>>] \in S
        BY <1>0, <4>1
      <4>3. \A i \in 0..(n + 1) : i # n + 1 => i \in 0..n
        OBVIOUS
      <4> QED BY <4>2, <4>3
    <3>a. h[n + 1] = G[<<n, g[n]>>] /\ \A i \in 0..n : h[i] = g[i]
      OBVIOUS
    <3> HIDE DEF h
    <3>3. h[0] = a
      BY <3>1, <3>a
    <3>4. ASSUME NEW k \in 0..n PROVE h[k + 1] = G[<<k, h[k]>>]
      <4>1. CASE k = n
        BY <3>a, <4>1
      <4>2. CASE k # n
        <5>1. k \in 0..(n - 1) /\ k + 1 \in 0..n
          BY <4>2
        <5>2. h[k + 1] = g[k + 1] /\ h[k] = g[k]
          BY <3>a, <5>1
        <5> QED BY <3>1, <5>1, <5>2
      <4> QED BY <4>1, <4>2
    <3>5. \A k \in 0..((n + 1) - 1) : k \in 0..n
      OBVIOUS
    <3>6. Good(n + 1, h)
      BY <3>3, <3>4, <3>5
    <3>7. n + 1 \in Nat
      OBVIOUS
    <3> HIDE DEF Good
    <3> QED BY <3>2, <3>6, <3>7
  <2> HIDE DEF T
  <2>3. Nat \subseteq T
    BY <2>1, <2>2, NatInductionSet
  <2> QED BY <2>3 DEF T
<1>2. ASSUME NEW n \in Nat, NEW m \in Nat, NEW g \in [0..n -> S], NEW h \in [0..m -> S], Good(n, g), Good(m, h)
      PROVE  \A i \in Nat : i <= n /\ i <= m => g[i] = h[i]
  <2> DEFINE U == {i \in Nat : i <= n /\ i <= m => g[i] = h[i]}
  <2>1. 0 \in U
    BY <1>2
  <2>2. ASSUME NEW i \in Nat, i \in U PROVE i + 1 \in U
    <3> SUFFICES ASSUME i + 1 <= n, i + 1 <= m PROVE g[i + 1] = h[i + 1]
      OBVIOUS
    <3>1. i \in 0..(n - 1) /\ i \in 0..(m - 1) /\ g[i] = h[i]
      BY <2>2
    <3> QED BY <1>2, <3>1
  <2> HIDE DEF U
  <2>3. Nat \subseteq U
    BY <2>1, <2>2, NatInductionSet
  <2> QED BY <2>3 DEF U
<1> DEFINE pick == [n \in Nat |-> CHOOSE g \in [0..n -> S] : Good(n, g)]
           f == [n \in Nat |-> pick[n][n]]
<1>3. ASSUME NEW n \in Nat PROVE pick[n] \in [0..n -> S] /\ Good(n, pick[n])
  BY <1>1
<1> HIDE DEF pick
<1>4. f \in [Nat -> S] /\ f[0] = a
  BY <1>3
<1>5. ASSUME NEW n \in Nat PROVE f[n + 1] = G[<<n, f[n]>>]
  <2>1. pick[n + 1] \in [0..(n + 1) -> S] /\ Good(n + 1, pick[n + 1]) /\ Good(n, pick[n])
            /\ pick[n] \in [0..n -> S]
    BY <1>3
  <2>2. n \in 0..((n + 1) - 1)
    OBVIOUS
  <2>3. pick[n + 1][n + 1] = G[<<n, pick[n + 1][n]>>]
    BY <2>1, <2>2
  <2> HIDE DEF Good
  <2>4. \A i \in Nat : i <= n + 1 /\ i <= n => pick[n + 1][i] = pick[n][i]
    BY <2>1, <1>2
  <2>5. pick[n + 1][n] = pick[n][n]
    BY <2>4
  <2> QED BY <2>3, <2>5
<1> HIDE DEF f
<1> QED BY <1>4, <1>5 DEF Iterates

\* What FlattenSeq does, prefix by prefix.
LEMMA Flattened ==
  ASSUME NEW E, NEW ss \in Seq(Seq(E))
  PROVE  \E f \in [0..Len(ss) -> Seq(E)] :
            /\ f[0] = <<>> /\ FlattenSeq(ss) = f[Len(ss)]
            /\ \A i \in 1..Len(ss) : f[i] = f[i - 1] \o ss[i]
<1> DEFINE G == [p \in Nat \X Seq(E) |-> IF p[1] < Len(ss) THEN p[2] \o ss[p[1] + 1] ELSE p[2]]
           n == Len(ss)
<1>1. G \in [Nat \X Seq(E) -> Seq(E)]
  <2>1. ASSUME NEW p \in Nat \X Seq(E), p[1] < Len(ss) PROVE p[2] \o ss[p[1] + 1] \in Seq(E)
    <3>1. p[1] + 1 \in 1..Len(ss)
      BY <2>1
    <3>2. ss[p[1] + 1] \in Seq(E)
      BY <3>1
    <3> QED BY <3>2
  <2> QED BY <2>1
<1>2. PICK f \in [Nat -> Seq(E)] : f[0] = <<>> /\ \A k \in Nat : f[k + 1] = G[<<k, f[k]>>]
  <2> HIDE DEF G
  <2>1. <<>> \in Seq(E) /\ Steps(G, Seq(E))
    BY <1>1 DEF Steps
  <2>2. PICK f : Iterates(f, Seq(E), <<>>, G)
    BY <2>1, RecursiveFunction
  <2> QED BY <2>2 DEF Iterates
<1>3. ASSUME NEW i \in 1..n PROVE f[i] = f[i - 1] \o ss[i]
  <2>1. i - 1 \in Nat /\ (i - 1) + 1 = i /\ i - 1 < Len(ss)
    OBVIOUS
  <2>2. f[i] = G[<<i - 1, f[i - 1]>>] /\ f[i - 1] \in Seq(E)
    BY <1>2, <2>1
  <2> QED BY <2>1, <2>2
<1> HIDE DEF G
<1>n. n \in Nat /\ \A i \in 1..n : ss[i] \in Seq(E) /\ i \in Nat /\ i - 1 \in 0..n /\ i \in 0..n
  <2>1. n \in Nat
    OBVIOUS
  <2>2. \A i \in 1..n : ss[i] \in Seq(E)
    OBVIOUS
  <2> HIDE DEF n
  <2> QED BY <2>1, <2>2
<1> HIDE DEF n
<1> DEFINE g == [i \in 0..n |-> f[i]]
<1>4. g \in [0..n -> Seq(E)] /\ g[0] = <<>> /\ \A i \in 1..n : g[i] = g[i - 1] \o ss[i]
  <2>1. ASSUME NEW i \in 1..n PROVE g[i] = g[i - 1] \o ss[i]
    BY <1>3, <1>n
  <2>2. g \in [0..n -> Seq(E)]
    BY <1>2, <1>n
  <2>3. g[0] = <<>>
    BY <1>2, <1>n
  <2> QED BY <2>1, <2>2, <2>3
<1> HIDE DEF g
<1>5. CASE n = 0
  <2>1. Len(ss) = 0 /\ ss = <<>>
    BY <1>5 DEF n
  <2>2. FlattenSeq(ss) = <<>>
    BY <2>1 DEF FlattenSeq
  <2> QED BY <1>4, <1>5, <2>2 DEF n
<1>6. CASE n # 0
  <2> DEFINE Solves(h) == h = [i \in 1..n |-> IF i = 1 THEN ss[i] ELSE h[i - 1] \o ss[i]]
             c == CHOOSE h : Solves(h)
  <2>1. Solves([i \in 1..n |-> g[i]])
    <3>1. ASSUME NEW i \in 1..n PROVE g[i] = IF i = 1 THEN ss[i] ELSE g[i - 1] \o ss[i]
      <4>1. CASE i = 1
        <5>1. g[1] = g[1 - 1] \o ss[1] /\ ss[1] \in Seq(E) /\ 1 - 1 = 0 /\ g[0] = <<>>
          <6>1. 1 \in 1..n
            BY <4>1
          <6>2. g[1] = g[1 - 1] \o ss[1] /\ g[0] = <<>>
            BY <1>4, <6>1
          <6> QED BY <1>n, <6>1, <6>2
        <5>2. <<>> \o ss[1] = ss[1]
          BY <5>1
        <5> QED BY <4>1, <5>1, <5>2
      <4>2. CASE i # 1
        BY <1>4, <4>2
      <4> QED BY <4>1, <4>2
    <3>2. \A i \in 1..n : i # 1 => i - 1 \in 1..n
      BY <1>n
    <3> DEFINE h == [i \in 1..n |-> g[i]]
    <3>3. \A i \in 1..n : h[i] = g[i]
      OBVIOUS
    <3>4. \A i \in 1..n : h[i] = IF i = 1 THEN ss[i] ELSE h[i - 1] \o ss[i]
      BY <3>1, <3>2, <3>3
    <3>5. h = [i \in 1..n |-> h[i]]
      OBVIOUS
    <3> HIDE DEF h
    <3>6. h = [i \in 1..n |-> IF i = 1 THEN ss[i] ELSE h[i - 1] \o ss[i]]
      BY <3>4, <3>5
    <3> QED BY <3>6 DEF h
  <2>2. Solves(c)
    BY <2>1
  <2>3. FlattenSeq(ss) = c[n]
    BY <1>6 DEF FlattenSeq, n
  <2> HIDE DEF c
  <2>4. \A i \in 1..n : c[i] = IF i = 1 THEN ss[i] ELSE c[i - 1] \o ss[i]
    BY <2>2
  <2> DEFINE T == {k \in Nat : k + 1 \in 1..n => c[k + 1] = g[k + 1]}
  <2>5. 0 \in T
    <3>1. 1 \in 1..n /\ ss[1] \in Seq(E)
      BY <1>6, <1>n
    <3>2. c[1] = ss[1] /\ g[1] = g[1 - 1] \o ss[1] /\ 1 - 1 = 0 /\ g[0] = <<>>
      <4>1. c[1] = ss[1]
        BY <2>4, <3>1
      <4>2. g[1] = g[1 - 1] \o ss[1] /\ g[0] = <<>>
        BY <1>4, <3>1
      <4> QED BY <4>1, <4>2
    <3>3. <<>> \o ss[1] = ss[1]
      BY <3>1
    <3>4. c[1] = g[1]
      BY <3>2, <3>3
    <3> QED BY <3>4
  <2>6. ASSUME NEW k \in Nat, k \in T PROVE k + 1 \in T
    <3> SUFFICES ASSUME k + 1 + 1 \in 1..n PROVE c[k + 1 + 1] = g[k + 1 + 1]
      OBVIOUS
    <3>1. k + 1 \in 1..n /\ (k + 1 + 1) - 1 = k + 1 /\ k + 1 + 1 # 1
      BY <1>n
    <3>2. c[k + 1] = g[k + 1]
      BY <2>6, <3>1
    <3> DEFINE j == k + 1 + 1
    <3>3. j \in 1..n /\ j - 1 = k + 1 /\ j # 1
      BY <3>1
    <3> HIDE DEF j
    <3>4. c[j] = c[j - 1] \o ss[j] /\ g[j] = g[j - 1] \o ss[j]
      BY <1>4, <2>4, <3>3
    <3>5. c[j] = g[j]
      BY <3>2, <3>3, <3>4
    <3> QED BY <3>5 DEF j
  <2> HIDE DEF T
  <2>7. Nat \subseteq T
    BY <2>5, <2>6, NatInductionSet
  <2>8. (n - 1) + 1 \in 1..n /\ n - 1 \in Nat /\ (n - 1) + 1 = n
    BY <1>6, <1>n
  <2>9. n - 1 \in T
    BY <2>7, <2>8
  <2>10. c[n] = g[n]
    BY <2>8, <2>9 DEF T
  <2> QED BY <1>4, <2>3, <2>10 DEF n
<1> QED BY <1>5, <1>6

\* The sum of a function with a finite domain.
LEMMA SumNat ==
  ASSUME NEW D, IsFiniteSet(D), NEW fun \in [D -> Nat]
  PROVE  SumFunction(fun) \in Nat
<1> DEFINE B == SUBSET D
           x(s) == CHOOSE y \in s : TRUE
           Sums(g) == [s \in B |-> IF s = {} THEN 0 ELSE fun[x(s)] + g[s \ {x(s)}]]
           G == [p \in Nat \X [B -> Nat] |-> Sums(p[2])]
           z == [s \in B |-> 0]
<1>1. \A s \in B : s # {} => x(s) \in s /\ s \ {x(s)} \in B /\ fun[x(s)] \in Nat
  OBVIOUS
<1>2. \A g \in [B -> Nat] : Sums(g) \in [B -> Nat]
  <2> HIDE DEF x, B
  <2> QED BY <1>1
<1>3. Steps(G, [B -> Nat])
  <2> HIDE DEF Sums, B
  <2> QED BY <1>2 DEF Steps
<1>4. z \in [B -> Nat]
  OBVIOUS
<1>5. PICK f : Iterates(f, [B -> Nat], z, G)
  <2> HIDE DEF G, z, B
  <2> QED BY <1>3, <1>4, RecursiveFunction
<1>6. \A n \in Nat : f[n] \in [B -> Nat] /\ f[n + 1] = Sums(f[n])
  <2> HIDE DEF Sums, B, z
  <2> QED BY <1>5 DEF Iterates
<1> HIDE DEF G, z
  \* Once the set is used up, a further step changes nothing.
<1> DEFINE T == {n \in Nat : \A s \in B : Cardinality(s) <= n => f[n + 1][s] = f[n][s]}
<1>c. \A s \in B : IsFiniteSet(s) /\ Cardinality(s) \in Nat
                  /\ (s # {} => Cardinality(s) # 0 /\ Cardinality(s \ {x(s)}) = Cardinality(s) - 1)
                  /\ Cardinality(s) <= Cardinality(D)
  <2>1. ASSUME NEW s \in B PROVE IsFiniteSet(s) /\ Cardinality(s) \in Nat /\ Cardinality(s) <= Cardinality(D)
    BY FS_Subset, FS_CardinalityType
  <2>2. ASSUME NEW s \in B, s # {} PROVE Cardinality(s) # 0 /\ Cardinality(s \ {x(s)}) = Cardinality(s) - 1
    <3>1. x(s) \in s /\ IsFiniteSet(s)
      BY <1>1, <2>1, <2>2
    <3> HIDE DEF x
    <3> QED BY <3>1, <2>2, FS_EmptySet, FS_RemoveElement
  <2> QED BY <2>1, <2>2
<1> HIDE DEF x
<1>7. 0 \in T
  <2>1. ASSUME NEW s \in B, Cardinality(s) <= 0 PROVE f[0 + 1][s] = f[0][s]
    <3>0. Cardinality(s) \in Nat /\ (s # {} => Cardinality(s) # 0)
      BY <1>c
    <3>1. s = {}
      BY <2>1, <3>0
    <3>2. f[0 + 1][s] = 0
      BY <1>6, <3>1
    <3>3. f[0][s] = 0
      BY <1>5 DEF Iterates, z
    <3> QED BY <3>2, <3>3
  <2> QED BY <2>1
<1>8. ASSUME NEW n \in Nat, n \in T PROVE n + 1 \in T
  <2>1. ASSUME NEW s \in B, Cardinality(s) <= n + 1 PROVE f[n + 1 + 1][s] = f[n + 1][s]
    <3>0. n + 1 \in Nat /\ f[n + 1 + 1] = Sums(f[n + 1]) /\ f[n + 1] = Sums(f[n])
      <4> HIDE DEF Sums, B
      <4>1. n + 1 \in Nat
        OBVIOUS
      <4> QED BY <1>6, <4>1
    <3>1. CASE s = {}
      BY <3>0, <3>1
    <3>2. CASE s # {}
      <4> DEFINE r == s \ {x(s)}
      <4>1. r \in B /\ Cardinality(r) <= n
        BY <1>1, <1>c, <2>1, <3>2
      <4>2. f[n + 1][r] = f[n][r]
        BY <1>8, <4>1
      <4>3. f[n + 1 + 1][s] = fun[x(s)] + f[n + 1][r] /\ f[n + 1][s] = fun[x(s)] + f[n][r]
        BY <3>0, <3>2
      <4> QED BY <4>2, <4>3
    <3> QED BY <3>1, <3>2
  <2> QED BY <2>1
<1>9. Nat \subseteq T
  <2> HIDE DEF T
  <2> QED BY <1>7, <1>8, NatInductionSet
<1> DEFINE N == Cardinality(D)
           Solves(h) == h = [s \in B |-> IF s = {} THEN 0 ELSE fun[x(s)] + h[s \ {x(s)}]]
           c == CHOOSE h : Solves(h)
<1>10. Solves(f[N])
  <2>1. N \in Nat
    BY FS_CardinalityType
  <2>2. \A s \in B : f[N + 1][s] = f[N][s]
    BY <1>9, <1>c, <2>1
  <2>3. f[N] \in [B -> Nat] /\ f[N + 1] = Sums(f[N])
    BY <1>6, <2>1
  <2> DEFINE h == f[N]
  <2>4. h = [s \in B |-> h[s]]
    BY <2>3
  <2>5. \A s \in B : h[s] = IF s = {} THEN 0 ELSE fun[x(s)] + h[s \ {x(s)}]
    BY <2>2, <2>3
  <2> HIDE DEF h
  <2>6. Solves(h)
    BY <2>4, <2>5
  <2> QED BY <2>6 DEF h
<1>11. Solves(c)
  <2> HIDE DEF Solves
  <2> QED BY <1>10
<1>12. SumFunction(fun) = c[D]
  BY DEF SumFunction, SumFunctionOnSet, FoldFunctionOnSet, MapThenFoldSet, x
<1> HIDE DEF c
<1>13. \A s \in B : c[s] = IF s = {} THEN 0 ELSE fun[x(s)] + c[s \ {x(s)}]
  BY <1>11
<1> DEFINE U == {n \in Nat : \A s \in B : Cardinality(s) = n => c[s] \in Nat}
<1>14. 0 \in U
  <2>1. ASSUME NEW s \in B, Cardinality(s) = 0 PROVE c[s] \in Nat
    BY <1>13, <1>c, <2>1
  <2> QED BY <2>1
<1>15. ASSUME NEW n \in Nat, n \in U PROVE n + 1 \in U
  <2>1. ASSUME NEW s \in B, Cardinality(s) = n + 1 PROVE c[s] \in Nat
    <3>1. s # {}
      BY <2>1, FS_EmptySet
    <3>2. s \ {x(s)} \in B /\ Cardinality(s \ {x(s)}) = n /\ fun[x(s)] \in Nat
      BY <1>1, <1>c, <2>1, <3>1
    <3>3. c[s \ {x(s)}] \in Nat
      BY <1>15, <3>2
    <3>4. c[s] = fun[x(s)] + c[s \ {x(s)}]
      BY <1>13, <3>1
    <3> QED BY <3>2, <3>3, <3>4
  <2> QED BY <2>1
<1>16. Nat \subseteq U
  <2> HIDE DEF U
  <2> QED BY <1>14, <1>15, NatInductionSet
<1>17. D \in B /\ Cardinality(D) \in Nat
  BY FS_CardinalityType
<1> QED BY <1>12, <1>16, <1>17

-----------------------------------------------------------------------------
(* The conversation: its messages, and the calls it has numbered so far    *)

\* The forms of ids, and the ids of calls.
Forms == {"plain", "piped", "joined", "foreign", "call", "short"}
IDs == [n : Nat, form : Forms]

\* Who may have signed a part of an answer by m: nobody or m itself.
Names(m) == {Nobody, m.name}

\* The parts a user or a tool shows.
Shows == [kind : {"text", "image"}, blank : BOOLEAN, by : {Nobody}]

\* The parts of an answer by m.
Kinds(m) == IF m.api = "anthropic" THEN {"text", "thinking", "redacted"} ELSE {"text", "thinking"}
Says(m) == [kind : Kinds(m), blank : BOOLEAN, by : Names(m)]
           \cup [kind : {"call"}, blank : {FALSE}, by : Names(m), id : IDs]

\* The messages of a history, by role.
AnswersOf(m) == [role : {"assistant"}, model : {m}, stop : {"ok", "failed"}, usage : Nat, parts : Seq(Says(m))]
Returns == [role : {"toolResult"}, id : IDs, parts : Seq(Shows), real : BOOLEAN]
Spoken == [role : {"user"}, parts : Seq(Shows) \ {<<>>}]
Messages == Spoken \cup Returns \cup UNION {AnswersOf(m) : m \in Models}

\* The type of the history, which is never empty.
HistoryTyped == history \in Seq(Messages) /\ history # <<>>

\* The parts that are constants are ones to show.
LEMMA Texts == Text \in Shows /\ Blank \in Shows /\ Image \in Shows
  BY DEF Text, Blank, Image, Part, Shows

\* The short tuples of a set are sequences over it.
LEMMA Tuples ==
  ASSUME NEW E, NEW a \in E, NEW b \in E, NEW c \in E
  PROVE  /\ <<a>> \in Seq(E) /\ <<a, b, c>> \in Seq(E)
         /\ <<a>> # <<>> /\ <<a, b, c>> # <<>>
OBVIOUS

\* FlattenSeq of sequences over a set is a sequence over it.
LEMMA FlattenTyped ==
  ASSUME NEW E, NEW ss \in Seq(Seq(E))
  PROVE  FlattenSeq(ss) \in Seq(E)
<1>1. PICK f \in [0..Len(ss) -> Seq(E)] : FlattenSeq(ss) = f[Len(ss)]
  BY Flattened
<1>2. Len(ss) \in 0..Len(ss)
  OBVIOUS
<1> QED BY <1>1, <1>2

\* Only keeps elements.
LEMMA OnlyKeeps ==
  ASSUME NEW E, NEW s \in Seq(E), NEW K
  PROVE  Only(s, K) \in Seq(E \cap K)
<1> DEFINE ss == [i \in DOMAIN s |-> IF s[i] \in K THEN <<s[i]>> ELSE <<>>]
<1>1. ss \in Seq(Seq(E \cap K)) /\ Len(ss) = Len(s)
  <2>1. DOMAIN s = 1..Len(s) /\ Len(s) \in Nat /\ \A i \in 1..Len(s) : s[i] \in E
    OBVIOUS
  <2>2. ASSUME NEW i \in 1..Len(s) PROVE ss[i] \in Seq(E \cap K)
    <3>1. CASE s[i] \in K
      BY <2>1, <3>1
    <3>2. CASE s[i] \notin K
      BY <2>1, <3>2
    <3> QED BY <3>1, <3>2
  <2>3. ss = [i \in 1..Len(s) |-> ss[i]]
    BY <2>1
  <2> HIDE DEF ss
  <2>4. ss \in [1..Len(s) -> Seq(E \cap K)]
    BY <2>2, <2>3
  <2> QED BY <2>1, <2>4
<1> HIDE DEF ss
<1>2. FlattenSeq(ss) \in Seq(E \cap K)
  <2> DEFINE Q == E \cap K
  <2>1. ss \in Seq(Seq(Q))
    BY <1>1
  <2> HIDE DEF Q
  <2>2. FlattenSeq(ss) \in Seq(Q)
    BY <2>1, FlattenTyped
  <2> QED BY <2>2 DEF Q
<1> QED BY <1>2 DEF Only, ss

\* The calls of an answer are calls.
LEMMA AnswerCalls ==
  ASSUME NEW m \in Models, NEW msg \in AnswersOf(m)
  PROVE  Calls(msg) \in Seq([kind : {"call"}, blank : {FALSE}, by : Names(m), id : IDs])
<1> DEFINE K == {p \in Range(msg.parts) : p.kind = "call"}
           C == [kind : {"call"}, blank : {FALSE}, by : Names(m), id : IDs]
<1>1. msg.parts \in Seq(Says(m)) /\ msg.role = "assistant"
  BY DEF AnswersOf
<1>2. Only(msg.parts, K) \in Seq(Says(m) \cap K)
  BY <1>1, OnlyKeeps
<1>3. Says(m) \cap K \subseteq C
  BY DEF Says, Kinds
<1>4. Only(msg.parts, K) \in Seq(C)
  <2> HIDE DEF C, K
  <2> DEFINE s == Only(msg.parts, K)
  <2>1. s \in Seq(Says(m) \cap K)
    BY <1>2
  <2> HIDE DEF s
  <2>2. s \in Seq(C)
    BY <2>1, <1>3
  <2> QED BY <2>2 DEF s
<1> QED BY <1>1, <1>4 DEF Calls

\* Finitely many calls were made, and each has an id.
LEMMA CallsMadeFacts ==
  ASSUME HistoryTyped
  PROVE  /\ IsFiniteSet(CallsMade) /\ Cardinality(CallsMade) \in Nat
         /\ \A at \in CallsMade : at[1] \in DOMAIN history /\ CallAt(at).id \in IDs
<1>1. IsFiniteSet((DOMAIN history) \X (1..2))
  <2>1. DOMAIN history = 1..Len(history) /\ Len(history) \in Nat
    BY DEF HistoryTyped
  <2>2. IsFiniteSet(1..Len(history)) /\ IsFiniteSet(1..2)
    <3> DEFINE k == Len(history)
               c == 2
    <3>1. k \in Int /\ c \in Int /\ 1 \in Int
      BY <2>1
    <3> HIDE DEF k, c
    <3>2. IsFiniteSet(1..k) /\ IsFiniteSet(1..c)
      BY <3>1, FS_Interval
    <3> QED BY <3>2 DEF k, c
  <2> QED BY <2>1, <2>2, FS_Product
<1>2. IsFiniteSet(CallsMade) /\ Cardinality(CallsMade) \in Nat
  <2>1. CallsMade \subseteq (DOMAIN history) \X (1..2)
    BY DEF CallsMade
  <2> QED BY <1>1, <2>1, FS_Subset, FS_CardinalityType
<1>3. ASSUME NEW at \in CallsMade PROVE at[1] \in DOMAIN history /\ CallAt(at).id \in IDs
  <2>1. at[1] \in DOMAIN history /\ at[2] \in DOMAIN Calls(history[at[1]])
    BY DEF CallsMade
  <2> DEFINE msg == history[at[1]]
  <2>2. msg \in Messages
    BY <2>1 DEF HistoryTyped
  <2>3. msg.role = "assistant"
    <3>1. CASE msg.role # "assistant"
      BY <2>1, <3>1 DEF Calls
    <3> QED BY <3>1
  <2>4. PICK m \in Models : msg \in AnswersOf(m)
    <3> HIDE DEF msg
    <3> QED BY <2>2, <2>3 DEF Messages, Returns, Spoken
  <2>5. Calls(msg) \in Seq([kind : {"call"}, blank : {FALSE}, by : Names(m), id : IDs])
    BY <2>4, AnswerCalls
  <2>6. Calls(msg)[at[2]] \in [kind : {"call"}, blank : {FALSE}, by : Names(m), id : IDs]
    <3> DEFINE C == [kind : {"call"}, blank : {FALSE}, by : Names(m), id : IDs]
               s == Calls(msg)
    <3>1. s \in Seq(C) /\ at[2] \in DOMAIN s
      BY <2>1, <2>5
    <3> HIDE DEF C, s
    <3>2. s[at[2]] \in C
      BY <3>1
    <3> QED BY <3>2 DEF C, s
  <2> QED BY <2>1, <2>6 DEF CallAt
<1> QED BY <1>2, <1>3

\* The first message is well-formed.
LEMMA InitTyped == ConversationInit => HistoryTyped
<1>1. <<Image, Image, Text>> \in Seq(Shows) \ {<<>>}
  BY Texts
<1>2. User(<<Image, Image, Text>>) \in Messages
  BY <1>1 DEF User, Messages, Spoken
<1> QED BY <1>2 DEF ConversationInit, HistoryTyped

\* A history that a well-formed message is appended to stays well-formed.
LEMMA SayTyped == ASSUME HistoryTyped, NEW msg \in Messages, Say(msg) PROVE HistoryTyped'
<1>1. Append(history, msg) \in Seq(Messages) /\ Append(history, msg) # <<>>
  BY DEF HistoryTyped
<1> QED BY <1>1 DEF HistoryTyped, Say

\* The answers of a model (Answers) are parts that the model may say.
LEMMA MadeAnswers ==
  ASSUME HistoryTyped, NEW m \in Models, NEW parts \in Answers(m)
  PROVE  parts \in Seq(Says(m))
<1> DEFINE n == Cardinality(CallsMade) + 1
           signed == By(m, Signs(m))
<1>1. n \in Nat /\ n + 1 \in Nat
  BY CallsMadeFacts
<1>2. \A s : By(m, s) \in Names(m)
  BY DEF By, Names
<1>3. \A k \in Nat : MadeCall(m, k) \in Says(m)
  BY <1>2 DEF MadeCall, Call, Says, IDs, Forms
<1>4. \A b \in BOOLEAN, by \in Names(m) : Part("thinking", b, by) \in Says(m) /\ Part("text", b, by) \in Says(m)
  BY DEF Part, Says, Kinds
<1>5. m.api = "anthropic" => \A by \in Names(m) : Part("redacted", FALSE, by) \in Says(m)
  BY DEF Part, Says, Kinds
<1>6. signed \in Names(m) /\ Nobody \in Names(m) /\ Blank = Part("text", TRUE, Nobody)
  BY <1>2 DEF Names, Blank
<1> HIDE DEF n, signed
<1>7. <<Part("thinking", FALSE, signed), Blank, Part("text", FALSE, By(m, SignsText(m)))>> \in Seq(Says(m))
  BY <1>2, <1>4, <1>6, Tuples
<1>8. <<Part("thinking", TRUE, signed), MadeCall(m, n), MadeCall(m, n + 1)>> \in Seq(Says(m))
  BY <1>1, <1>3, <1>4, <1>6, Tuples
<1>9. m.api = "anthropic" => <<Part("redacted", FALSE, signed)>> \in Seq(Says(m))
  BY <1>5, <1>6, Tuples
<1>10. <<Part("thinking", FALSE, Nobody)>> \in Seq(Says(m))
  BY <1>4, <1>6, Tuples
<1> QED BY <1>7, <1>8, <1>9, <1>10 DEF Answers, n, signed

\* Whoever speaks, the history stays well-formed.
LEMMA NextTyped == ASSUME HistoryTyped, [ConversationNext]_history PROVE HistoryTyped'
<1>1. CASE UserSays
  <2>1. PICK parts \in Prompts : Say(User(parts))
    BY <1>1 DEF UserSays
  <2>2. parts \in Seq(Shows) \ {<<>>}
    BY Texts, Tuples DEF Prompts
  <2>3. User(parts) \in Messages
    BY <2>2 DEF User, Messages, Spoken
  <2> QED BY <2>1, <2>3, SayTyped
<1>2. CASE ModelAnswers
  <2>0. PICK m \in Speakers : \E parts \in Answers(m) :
           \/ Say(Assistant(m, "ok", m.usage, parts))
           \/ Say(Assistant(m, "failed", 0, parts))
    BY <1>2 DEF ModelAnswers
  <2>1. PICK parts \in Answers(m) :
           \/ Say(Assistant(m, "ok", m.usage, parts))
           \/ Say(Assistant(m, "failed", 0, parts))
    BY <2>0
  <2>2. m \in Models /\ m.usage \in Nat
    BY ConversationAssumption
  <2>3. parts \in Seq(Says(m))
    BY <2>2, MadeAnswers
  <2>4. Assistant(m, "ok", m.usage, parts) \in AnswersOf(m) /\ Assistant(m, "failed", 0, parts) \in AnswersOf(m)
    BY <2>2, <2>3 DEF Assistant, AnswersOf
  <2>5. AnswersOf(m) \subseteq Messages
    BY <2>2 DEF Messages
  <2> QED BY <2>1, <2>4, <2>5, SayTyped
<1>3. CASE ToolReturns
  <2>1. PICK at \in CallsMade : Say(ToolResult(CallAt(at).id, Output(CallAt(at).id), TRUE))
    BY <1>3 DEF ToolReturns
  <2>2. CallAt(at).id \in IDs
    BY CallsMadeFacts
  <2>3. Output(CallAt(at).id) \in Seq(Shows)
    BY Texts DEF Output
  <2>4. ToolResult(CallAt(at).id, Output(CallAt(at).id), TRUE) \in Messages
    BY <2>2, <2>3 DEF ToolResult, Messages, Returns
  <2> QED BY <2>1, <2>4, SayTyped
<1>4. CASE UNCHANGED history
  BY <1>4 DEF HistoryTyped
<1> QED BY <1>1, <1>2, <1>3, <1>4 DEF ConversationNext

-----------------------------------------------------------------------------
(* The token limits of a request                                           *)

\* The lesser and the greater of two numbers.
LEMMA LeastMost ==
  ASSUME NEW a \in Int, NEW b \in Int
  PROVE  Least(a, b) = (IF a <= b THEN a ELSE b) /\ Most(a, b) = (IF a >= b THEN a ELSE b)
<1>1. \A x : x = (IF a <= b THEN a ELSE b) <=> (x \in {a, b} /\ \A y \in {a, b} : x <= y)
  OBVIOUS
<1>2. \A x : x = (IF a >= b THEN a ELSE b) <=> (x \in {a, b} /\ \A y \in {a, b} : x >= y)
  OBVIOUS
<1>3. Least(a, b) = (IF a <= b THEN a ELSE b)
  BY <1>1 DEF Least, Min
<1>4. Most(a, b) = (IF a >= b THEN a ELSE b)
  BY <1>2 DEF Most, Max
<1> QED BY <1>3, <1>4

\* A set of numbers up to n has a greatest one.
LEMMA GreatestOf ==
  ASSUME NEW n \in Nat, NEW D, D \subseteq 0..n, D # {}
  PROVE  Max(D) \in D /\ \E x \in D : \A y \in D : x >= y
<1> DEFINE T == {k \in Nat : \A A \in SUBSET (0..k) : A # {} => \E x \in A : \A y \in A : x >= y}
<1>1. 0 \in T
  <2>1. ASSUME NEW A \in SUBSET (0..0), A # {} PROVE \E x \in A : \A y \in A : x >= y
    <3>0. PICK x \in A : TRUE
      BY <2>1
    <3>1. \A y \in A : y = 0
      OBVIOUS
    <3>2. x >= x /\ \A y \in A : y = x
      BY <3>1
    <3> QED BY <3>2
  <2> QED BY <2>1
<1>2. ASSUME NEW k \in Nat, k \in T PROVE k + 1 \in T
  <2>1. ASSUME NEW A \in SUBSET (0..(k + 1)), A # {} PROVE \E x \in A : \A y \in A : x >= y
    <3>1. CASE k + 1 \in A
      <4>1. \A y \in A : k + 1 >= y
        OBVIOUS
      <4> QED BY <3>1, <4>1
    <3>2. CASE k + 1 \notin A
      <4>1. A \in SUBSET (0..k)
        BY <3>2
      <4> QED BY <1>2, <2>1, <4>1
    <3> QED BY <3>1, <3>2
  <2> QED BY <2>1
<1>3. Nat \subseteq T
  <2> HIDE DEF T
  <2> QED BY <1>1, <1>2, NatInductionSet
<1>4. \E x \in D : \A y \in D : x >= y
  BY <1>3
<1> QED BY <1>4 DEF Max

\* The estimate of one message (estimateMessageTokens) is a natural number.
LEMMA PartsCounted ==
  ASSUME HistoryTyped, NEW i \in DOMAIN history
  PROVE  EstimateMessageTokens(history[i]) \in Nat
<1> DEFINE msg == history[i]
           parts == msg.parts
           counts == [k \in DOMAIN parts |-> PartTokens(parts[k])]
<1>1. msg \in Messages
  BY DEF HistoryTyped
<1>2. \E E : parts \in Seq(E) /\ \A p \in E : PartTokens(p) \in Nat
  <2>1. \A p \in Shows : PartTokens(p) \in Nat
    BY DEF Shows, PartTokens
  <2>2. ASSUME NEW m \in Models, NEW p \in Says(m) PROVE PartTokens(p) \in Nat
    <3>1. p.blank \in BOOLEAN /\ p.kind \in {"text", "thinking", "redacted", "call"}
      BY DEF Says, Kinds
    <3> QED BY <3>1 DEF PartTokens
  <2> HIDE DEF msg
  <2>3. CASE msg \in Spoken \cup Returns
    <3>1. msg.parts \in Seq(Shows)
      BY <2>3 DEF Spoken, Returns
    <3> QED BY <2>1, <3>1
  <2>4. CASE \E m \in Models : msg \in AnswersOf(m)
    BY <2>2, <2>4 DEF AnswersOf
  <2> QED BY <1>1, <2>3, <2>4 DEF Messages
<1>3. IsFiniteSet(DOMAIN parts) /\ counts \in [DOMAIN parts -> Nat]
  <2> HIDE DEF msg
  <2>1. PICK E : parts \in Seq(E) /\ \A p \in E : PartTokens(p) \in Nat
    BY <1>2
  <2>2. DOMAIN parts = 1..Len(parts) /\ Len(parts) \in Int /\ 1 \in Int
    BY <2>1
  <2>3. \A k \in DOMAIN parts : parts[k] \in E
    BY <2>1, <2>2
  <2>4. IsFiniteSet(1..Len(parts))
    <3> DEFINE k == Len(parts)
    <3>1. k \in Int /\ 1 \in Int
      BY <2>2
    <3> HIDE DEF k
    <3>2. IsFiniteSet(1..k)
      BY <3>1, FS_Interval
    <3> QED BY <3>2 DEF k
  <2> QED BY <2>1, <2>2, <2>3, <2>4
<1>4. SumFunction(counts) \in Nat
  <2> HIDE DEF counts, parts
  <2> QED BY <1>3, SumNat
<1> QED BY <1>4 DEF EstimateMessageTokens

\* The estimate of a history (EstimateContextTokens) is a natural number: the usage of its last anchor, or
\* the prefix, and the estimates of the messages after it.
LEMMA Estimated == ASSUME HistoryTyped PROVE EstimateContextTokens(history) \in Nat
<1> DEFINE anchors == {i \in DOMAIN history : history[i].role = "assistant" /\ ~Failed(history[i])
        /\ history[i].usage > 0}
           anchor == IF anchors = {} THEN 0 ELSE Max(anchors)
           counts == [i \in anchor + 1..Len(history) |-> EstimateMessageTokens(history[i])]
<1>1. DOMAIN history = 1..Len(history) /\ Len(history) \in Nat
  BY DEF HistoryTyped
<1>2. anchor \in Nat /\ (anchor # 0 => anchor \in anchors)
  <2>1. CASE anchors = {}
    BY <2>1
  <2>2. CASE anchors # {}
    <3>1. anchors \subseteq 0..Len(history) /\ anchors \subseteq Nat
      BY <1>1
    <3> HIDE DEF anchors
    <3>2. Max(anchors) \in anchors
      BY <1>1, <2>2, <3>1, GreatestOf
    <3> QED BY <2>2, <3>1, <3>2
  <2> QED BY <2>1, <2>2
<1>3. anchor # 0 => history[anchor].usage \in Nat
  <2> SUFFICES ASSUME anchor # 0 PROVE history[anchor].usage \in Nat
    OBVIOUS
  <2> HIDE DEF anchor
  <2>1. anchor \in DOMAIN history /\ history[anchor].role = "assistant"
    BY <1>2
  <2>2. history[anchor] \in Messages
    BY <2>1 DEF HistoryTyped
  <2>3. PICK m \in Models : history[anchor] \in AnswersOf(m)
    BY <2>1, <2>2 DEF Messages, Spoken, Returns
  <2> QED BY <2>3 DEF AnswersOf
<1>4. SumFunction(counts) \in Nat
  <2> HIDE DEF anchor
  <2>1. IsFiniteSet(anchor + 1..Len(history))
    <3> DEFINE a == anchor + 1
               k == Len(history)
    <3>1. a \in Int /\ k \in Int
      BY <1>1, <1>2
    <3> HIDE DEF a, k
    <3>2. IsFiniteSet(a..k)
      BY <3>1, FS_Interval
    <3> QED BY <3>2 DEF a, k
  <2>2. \A i \in anchor + 1..Len(history) : i \in DOMAIN history
    BY <1>1, <1>2
  <2>3. counts \in [anchor + 1..Len(history) -> Nat]
    BY <2>2, PartsCounted
  <2> HIDE DEF counts
  <2> QED BY <2>1, <2>3, SumNat
<1>5. EstimateContextTokens(history) = (IF anchor = 0
          THEN PrefixTokens ELSE history[anchor].usage) + SumFunction(counts)
  BY DEF EstimateContextTokens
<1> HIDE DEF anchor, counts
<1> QED BY <1>3, <1>4, <1>5 DEF PrefixTokens

\* ClampMaxTokensToContext leaves at least one token of a cap that has one, exceeds neither the cap nor the
\* minimum, and fits into the context window or is down to that one token.
LEMMA Clamped ==
  ASSUME NEW m \in Models, NEW estimate \in Nat, NEW cap \in Int
  PROVE  LET clamped == ClampMaxTokensToContext(m, estimate, cap)
         IN  /\ clamped \in Int
             /\ cap >= 1 => clamped >= 1
             /\ clamped <= Most(minMaxTokens, cap)
             /\ m.window > 0 => clamped <= 1 \/ estimate + clamped + contextSafetyTokens <= m.window
<1>1. m.window \in Int
  BY ConversationAssumption
<1> DEFINE left == m.window - estimate - contextSafetyTokens
<1>2. left \in Int
  BY <1>1 DEF contextSafetyTokens
<1>3. /\ Most(1, cap) = (IF 1 >= cap THEN 1 ELSE cap) /\ Most(1, left) = (IF 1 >= left THEN 1 ELSE left)
      /\ Most(1, left) \in Int
  <2>1. \A x \in Int : Most(1, x) = (IF 1 >= x THEN 1 ELSE x)
    BY LeastMost
  <2> HIDE DEF left
  <2> QED BY <1>2, <2>1
<1>4. Least(cap, Most(1, left)) = (IF cap <= Most(1, left) THEN cap ELSE Most(1, left))
  BY <1>3, LeastMost
<1> QED BY <1>1, <1>3, <1>4 DEF ClampMaxTokensToContext, minMaxTokens, contextSafetyTokens

\* The thinking budget of a level, the caller's or the default, is a natural number.
LEMMA LevelBudgets ==
  ASSUME NEW level \in Levels \ {"off"}, NEW custom \in Customs
  PROVE  LevelBudget(level, custom) \in Nat
<1>1. ClampReasoning(level) \in {"minimal", "low", "medium", "high"}
  BY DEF Levels, ClampReasoning
<1>2. custom \in [{"minimal", "low", "medium", "high"} -> Nat \cup {Unset}]
  BY ConversationAssumption
<1>3. \A l \in {"minimal", "low", "medium", "high"} : custom[l] \in Nat \cup {Unset}
          /\ defaultThinkingBudgets[l] \in Nat
  BY <1>2 DEF defaultThinkingBudgets
<1> HIDE DEF LevelBudget
<1>4. custom[ClampReasoning(level)] \in Nat \cup {Unset} /\ defaultThinkingBudgets[ClampReasoning(level)] \in Nat
  BY <1>1, <1>3
<1> QED BY <1>4 DEF LevelBudget

\* AdjustMaxTokensForThinking, the clamp, and the correction after it: the budget is no larger than the level's
\* and leaves room for the answer.
LEMMA ThinkingFits ==
  ASSUME NEW m \in Models, NEW estimate \in Nat, NEW base \in Int, NEW level \in Levels \ {"off"},
         NEW custom \in Customs
  PROVE  LET options == ThinkingWithBudget(m, estimate, base, level, custom)
         IN  /\ options.max \in Int /\ options.budget \in Int
             /\ base >= 1 /\ m.maxTokens >= 1 => options.max >= 1
             /\ m.window > 0 => options.max <= 1 \/ estimate + options.max + contextSafetyTokens <= m.window
             /\ options.max <= Most(minMaxTokens, m.maxTokens)
             /\ options.budget \in 0..LevelBudget(level, custom)
             /\ options.max - options.budget >= Least(minOutputTokens, options.max)
<1> DEFINE adjusted == AdjustMaxTokensForThinking(base, m, level, custom)
           clamped == ClampMaxTokensToContext(m, estimate, adjusted.max)
           budget == LevelBudget(level, custom)
           cap == Least(base + budget, m.maxTokens)
           fitted == IF cap <= budget THEN Most(0, cap - minOutputTokens) ELSE budget
           room == Most(0, clamped - 1024)
           left == Least(fitted, room)
<1>1. budget \in Nat /\ m.maxTokens \in Nat
  BY LevelBudgets, ConversationAssumption
<1>2. ThinkingWithBudget(m, estimate, base, level, custom) = [max |-> clamped, budget |-> left]
      /\ adjusted.max = cap
  BY DEF ThinkingWithBudget, AdjustMaxTokensForThinking
<1> HIDE DEF adjusted, budget
<1>3. cap = (IF base + budget <= m.maxTokens THEN base + budget ELSE m.maxTokens) /\ cap \in Int
  <2>1. base + budget \in Int
    BY <1>1
  <2> QED BY <1>1, <2>1, LeastMost
<1> HIDE DEF cap
<1>4. fitted \in 0..budget
  <2>1. cap - minOutputTokens \in Int
    BY <1>3 DEF minOutputTokens
  <2>2. Most(0, cap - minOutputTokens) = (IF 0 >= cap - minOutputTokens THEN 0 ELSE cap - minOutputTokens)
    BY <2>1, LeastMost
  <2> QED BY <1>1, <1>3, <2>2 DEF minOutputTokens
<1>5. /\ clamped \in Int /\ (cap >= 1 => clamped >= 1) /\ clamped <= Most(minMaxTokens, cap)
      /\ m.window > 0 => clamped <= 1 \/ estimate + clamped + contextSafetyTokens <= m.window
  <2>1. clamped = ClampMaxTokensToContext(m, estimate, cap)
    BY <1>2
  <2> HIDE DEF clamped
  <2> QED BY <1>3, <2>1, Clamped
<1> HIDE DEF clamped, fitted
<1>6. room = (IF 0 >= clamped - 1024 THEN 0 ELSE clamped - 1024) /\ room \in Int
  <2>1. clamped - 1024 \in Int
    BY <1>5
  <2>2. Most(0, clamped - 1024) = (IF 0 >= clamped - 1024 THEN 0 ELSE clamped - 1024)
    BY <2>1, LeastMost
  <2> QED BY <2>1, <2>2
<1>7. left = (IF fitted <= room THEN fitted ELSE room)
  BY <1>1, <1>4, <1>6, LeastMost
<1> HIDE DEF room, left
<1>8. left \in 0..budget /\ left \in Int
  BY <1>1, <1>4, <1>6, <1>7
<1>9. Least(minOutputTokens, clamped) = (IF 1024 <= clamped THEN 1024 ELSE clamped)
  BY <1>5, LeastMost DEF minOutputTokens
<1>10. clamped - left >= Least(minOutputTokens, clamped)
  BY <1>1, <1>4, <1>5, <1>6, <1>7, <1>9
<1>11. clamped <= Most(minMaxTokens, m.maxTokens)
  <2>1. Most(1, cap) = (IF 1 >= cap THEN 1 ELSE cap)
            /\ Most(1, m.maxTokens) = (IF 1 >= m.maxTokens THEN 1 ELSE m.maxTokens)
    <3>1. \A x \in Int : Most(1, x) = (IF 1 >= x THEN 1 ELSE x)
      BY LeastMost
    <3> QED BY <1>1, <1>3, <3>1
  <2> QED BY <1>1, <1>3, <1>5, <2>1 DEF minMaxTokens
<1>12. base >= 1 /\ m.maxTokens >= 1 => cap >= 1
  BY <1>1, <1>3
<1>13. /\ left \in 0..LevelBudget(level, custom)
  BY <1>8 DEF budget
<1> HIDE DEF budget
<1> QED BY <1>2, <1>5, <1>8, <1>10, <1>11, <1>12, <1>13

\* BudgetsFit for any windows, caps and budgets: every request asks for a token or more, unless the
\* caller's cap or the model's is none, fits into the context over the estimate and its margin, and its thinking
\* leaves room for output (StreamSimple).
THEOREM BudgetsHold == ConversationSpec => []BudgetsFit
<1>1. HistoryTyped => BudgetsFit
  <2> SUFFICES ASSUME HistoryTyped,
                      NEW model \in Models, NEW requested \in Caps \cup {Unset}, NEW level \in Levels,
                          NEW custom \in Customs
               PROVE  LET estimate == EstimateContextTokens(history)
                          options == StreamSimple(model, estimate, requested, level, custom)
                      IN  /\ options.max >= 1 \/ 0 \in {requested, model.maxTokens}
                          /\ model.window > 0
                                 => options.max <= 1
                                 \/ estimate + options.max + contextSafetyTokens <= model.window
                          /\ (level # "off" /\ ThinksByBudget(model)) =>
                                 /\ options.max <= Most(minMaxTokens, model.maxTokens)
                                 /\ options.budget \in 0..LevelBudget(level, custom)
                                 /\ options.max - options.budget >= Least(minOutputTokens, options.max)
    BY DEF BudgetsFit
  <2> DEFINE estimate == EstimateContextTokens(history)
             options == StreamSimple(model, estimate, requested, level, custom)
             base == BaseMaxTokens(model, estimate, requested)
  <2>1. estimate \in Nat
    BY Estimated
  <2> HIDE DEF estimate
  <2>2. /\ base \in Int
        /\ base >= 1 \/ 0 \in {requested, model.maxTokens}
        /\ model.window > 0 => base <= 1 \/ estimate + base + contextSafetyTokens <= model.window
    <3> DEFINE cap == IF requested = Unset THEN model.maxTokens ELSE requested
    <3>1. cap \in Nat /\ (cap = 0 => 0 \in {requested, model.maxTokens})
      BY ConversationAssumption
    <3> HIDE DEF cap
    <3>2. cap \in Int /\ (cap = 0 \/ cap >= 1)
      BY <3>1
    <3>3. base = ClampMaxTokensToContext(model, estimate, cap)
      BY DEF BaseMaxTokens, cap
    <3> QED BY <2>1, <3>1, <3>2, <3>3, Clamped
  <2> HIDE DEF base
  <2>3. options.max = base \/ (level # "off" /\ ThinksByBudget(model))
    BY DEF StreamSimple, base
  <2>4. CASE level # "off" /\ ThinksByBudget(model)
    <3> DEFINE fitted == ThinkingWithBudget(model, estimate, base, level, custom)
               budget == LevelBudget(level, custom)
    <3>1. level \in Levels \ {"off"}
      BY <2>4
    <3>2. /\ fitted.max \in Int /\ fitted.budget \in Int
          /\ base >= 1 /\ model.maxTokens >= 1 => fitted.max >= 1
          /\ model.window > 0 => fitted.max <= 1 \/ estimate + fitted.max + contextSafetyTokens <= model.window
          /\ fitted.max <= Most(minMaxTokens, model.maxTokens)
          /\ fitted.budget \in 0..budget
          /\ fitted.max - fitted.budget >= Least(minOutputTokens, fitted.max)
      BY <2>1, <2>2, <3>1, ThinkingFits
    <3>3. budget \in Nat
      BY <3>1, LevelBudgets
    <3>4. options = fitted \/ options = BedrockThinking(model, estimate, base, level, custom)
      BY <2>4 DEF StreamSimple, base, ThinksByBudget
    <3>5. BedrockThinking(model, estimate, base, level, custom) = [max |-> fitted.max, budget |-> fitted.budget]
      <4> DEFINE l == ClampReasoning(level)
                 merged == [custom EXCEPT ![l] = fitted.budget]
      <4>1. l \in {"minimal", "low", "medium", "high"}
        BY <3>1 DEF Levels, ClampReasoning
      <4>2. custom \in [{"minimal", "low", "medium", "high"} -> Nat \cup {Unset}]
        BY ConversationAssumption
      <4> HIDE DEF fitted
      <4>3. merged[l] = fitted.budget /\ fitted.budget # Unset
        BY <3>2, <3>3, <4>1, <4>2 DEF Unset
      <4>4. LevelBudget(level, merged) = fitted.budget
        BY <4>3 DEF LevelBudget
      <4> QED BY <4>4 DEF BedrockThinking, fitted
    <3> HIDE DEF fitted, options
    <3>6. options.max = fitted.max /\ options.budget = fitted.budget
      BY <3>4, <3>5
    <3>7. options.max >= 1 \/ 0 \in {requested, model.maxTokens}
      <4>1. model.maxTokens \in Nat
        BY ConversationAssumption
      <4> QED BY <2>2, <3>2, <3>6, <4>1
    <3> QED BY <3>2, <3>6, <3>7 DEF options, budget, estimate
  <2>5. CASE ~(level # "off" /\ ThinksByBudget(model))
    <3> HIDE DEF options
    <3>1. options.max = base
      BY <2>3, <2>5
    <3> QED BY <2>2, <2>5, <3>1 DEF options, estimate
  <2> QED BY <2>4, <2>5
<1> QED BY <1>1, InitTyped, NextTyped, PTL DEF ConversationSpec

-----------------------------------------------------------------------------
(* TransformMessages: the history made ready for replay to one model       *)

\* What a model may be shown: pictures only if it sees them.
Seen(m) == {p \in Shows : p.kind = "image" => Sees(m)}

\* The messages of a history that is ready for replay to m.
SpokenTo(m) == [role : {"user"}, parts : Seq(Seen(m)) \ {<<>>}]
ReturnsTo(m) == [role : {"toolResult"}, id : IDs, parts : Seq(Seen(m)), real : BOOLEAN]
AnswersTo(m) == [role : {"assistant"}, model : Models, stop : {"ok", "failed"}, usage : Nat, parts : Seq(Says(m))]
MessagesTo(m) == SpokenTo(m) \cup ReturnsTo(m) \cup AnswersTo(m)

\* The elements of a flattened sequence.
LEMMA FlattenElements ==
  ASSUME NEW E, NEW ss \in Seq(Seq(E))
  PROVE  /\ \A i \in DOMAIN ss : \A j \in DOMAIN ss[i] :
                \E k \in DOMAIN FlattenSeq(ss) : FlattenSeq(ss)[k] = ss[i][j]
         /\ \A k \in DOMAIN FlattenSeq(ss) :
                \E i \in DOMAIN ss : \E j \in DOMAIN ss[i] : FlattenSeq(ss)[k] = ss[i][j]
<1>1. PICK f \in [0..Len(ss) -> Seq(E)] :
         /\ f[0] = <<>> /\ FlattenSeq(ss) = f[Len(ss)]
         /\ \A i \in 1..Len(ss) : f[i] = f[i - 1] \o ss[i]
  BY Flattened
<1>2. Len(ss) \in Nat /\ DOMAIN ss = 1..Len(ss) /\ \A i \in 1..Len(ss) : ss[i] \in Seq(E)
  OBVIOUS
<1> DEFINE Holds(n) ==
      /\ \A i \in 1..n : \A j \in DOMAIN ss[i] : \E k \in DOMAIN f[n] : f[n][k] = ss[i][j]
      /\ \A k \in DOMAIN f[n] : \E i \in 1..n : \E j \in DOMAIN ss[i] : f[n][k] = ss[i][j]
    T == {n \in Nat : n <= Len(ss) => Holds(n)}
<1>3. 0 \in T
  BY <1>1
<1>4. ASSUME NEW n \in Nat, n \in T PROVE n + 1 \in T
  <2> SUFFICES ASSUME n + 1 <= Len(ss) PROVE Holds(n + 1)
    OBVIOUS
  <2>1. Holds(n)
    BY <1>2, <1>4
  <2> DEFINE a == f[n]
             b == ss[n + 1]
             c == f[n + 1]
  <2>2. /\ n + 1 \in 1..Len(ss) /\ (n + 1) - 1 = n /\ n \in 0..Len(ss)
    BY <1>2
  <2>3. a \in Seq(E) /\ b \in Seq(E) /\ c = a \o b
    BY <1>1, <1>2, <2>2
  <2>4. /\ DOMAIN a = 1..Len(a) /\ Len(a) \in Nat /\ DOMAIN b = 1..Len(b) /\ Len(b) \in Nat
        /\ DOMAIN c = 1..(Len(a) + Len(b))
        /\ \A k \in 1..Len(a) : c[k] = a[k]
        /\ \A k \in 1..Len(b) : c[Len(a) + k] = b[k]
    <3> HIDE DEF a, b, c
    <3> QED BY <2>3
  <2>5. ASSUME NEW i \in 1..(n + 1), NEW j \in DOMAIN ss[i] PROVE \E k \in DOMAIN c : c[k] = ss[i][j]
    <3>1. CASE i = n + 1
      <4>1. Len(a) + j \in DOMAIN c /\ c[Len(a) + j] = ss[i][j]
        <5>1. j \in 1..Len(b)
          BY <2>4, <3>1
        <5>2. ss[i][j] = b[j]
          BY <3>1
        <5> HIDE DEF a, b, c
        <5>3. Len(a) + j \in 1..(Len(a) + Len(b)) /\ c[Len(a) + j] = b[j]
          BY <2>4, <5>1
        <5> QED BY <2>4, <5>2, <5>3
      <4> QED BY <4>1
    <3>2. CASE i # n + 1
      <4>1. i \in 1..n
        BY <3>2
      <4>2. PICK k \in DOMAIN a : a[k] = ss[i][j]
        BY <2>1, <4>1
      <4>3. k \in DOMAIN c /\ c[k] = a[k]
        <5> HIDE DEF a, b, c
        <5> QED BY <2>4
      <4> QED BY <4>2, <4>3
    <3> QED BY <3>1, <3>2
  <2>6. ASSUME NEW k \in DOMAIN c PROVE \E i \in 1..(n + 1) : \E j \in DOMAIN ss[i] : c[k] = ss[i][j]
    <3>1. CASE k \in 1..Len(a)
      <4>1. c[k] = a[k] /\ k \in DOMAIN a
        BY <2>4, <3>1
      <4>2. PICK i \in 1..n : \E j \in DOMAIN ss[i] : a[k] = ss[i][j]
        BY <2>1, <4>1
      <4> QED BY <4>1, <4>2
    <3>2. CASE k \notin 1..Len(a)
      <4> DEFINE j == k - Len(a)
      <4>1. j \in 1..Len(b) /\ Len(a) + j = k
        <5> HIDE DEF a, b, c
        <5> QED BY <2>4, <3>2
      <4>2. c[k] = b[j]
        BY <2>4, <4>1
      <4>3. n + 1 \in 1..(n + 1) /\ j \in DOMAIN ss[n + 1]
        BY <2>4, <4>1
      <4> HIDE DEF j
      <4> QED BY <4>2, <4>3
    <3> QED BY <3>1, <3>2
  <2> QED BY <2>5, <2>6
<1>t. \A n \in T : n <= Len(ss) => Holds(n)
  <2> HIDE DEF Holds
  <2> QED OBVIOUS
<1> HIDE DEF T, Holds
<1>5. Nat \subseteq T
  BY <1>3, <1>4, NatInductionSet
<1>6. Holds(Len(ss))
  <2>1. Len(ss) \in T
    BY <1>2, <1>5
  <2> QED BY <1>2, <1>t, <2>1
<1> DEFINE N == Len(ss)
           fl == f[N]
<1>7. /\ \A i \in 1..N : \A j \in DOMAIN ss[i] : \E k \in DOMAIN fl : fl[k] = ss[i][j]
      /\ \A k \in DOMAIN fl : \E i \in 1..N : \E j \in DOMAIN ss[i] : fl[k] = ss[i][j]
  BY <1>6 DEF Holds
<1>8. FlattenSeq(ss) = fl /\ DOMAIN ss = 1..N
  BY <1>1, <1>2
<1>9. \A i \in DOMAIN ss : \A j \in DOMAIN ss[i] : \E k \in DOMAIN fl : fl[k] = ss[i][j]
  <2> HIDE DEF fl, N
  <2> QED BY <1>7, <1>8
<1>10. \A k \in DOMAIN fl : \E i \in DOMAIN ss : \E j \in DOMAIN ss[i] : fl[k] = ss[i][j]
  <2> HIDE DEF fl, N
  <2> QED BY <1>7, <1>8
<1> HIDE DEF fl, N
<1> QED BY <1>8, <1>9, <1>10, Zenon

\* Only keeps all of the elements it is to keep, and nothing else.
LEMMA OnlyFinds ==
  ASSUME NEW E, NEW s \in Seq(E), NEW K
  PROVE  /\ \A i \in DOMAIN s : s[i] \in K => \E k \in DOMAIN Only(s, K) : Only(s, K)[k] = s[i]
         /\ \A k \in DOMAIN Only(s, K) : \E i \in DOMAIN s : s[i] \in K /\ Only(s, K)[k] = s[i]
<1> DEFINE ss == [i \in DOMAIN s |-> IF s[i] \in K THEN <<s[i]>> ELSE <<>>]
           o == Only(s, K)
<1>1. DOMAIN s = 1..Len(s) /\ Len(s) \in Nat /\ \A i \in DOMAIN s : s[i] \in E
  OBVIOUS
<1>2. ASSUME NEW i \in DOMAIN s
      PROVE  ss[i] \in Seq(E) /\ (s[i] \in K => ss[i] = <<s[i]>>) /\ (s[i] \notin K => ss[i] = <<>>)
  BY <1>1, Tuples
<1>3. ss \in Seq(Seq(E)) /\ DOMAIN ss = DOMAIN s
  <2>1. ss = [i \in 1..Len(s) |-> ss[i]]
    BY <1>1
  <2>2. \A i \in 1..Len(s) : ss[i] \in Seq(E)
    BY <1>1, <1>2
  <2> HIDE DEF ss
  <2>3. ss \in [1..Len(s) -> Seq(E)]
    BY <2>1, <2>2
  <2> QED BY <1>1, <2>3
<1>4. o = FlattenSeq(ss)
  BY DEF Only
<1> HIDE DEF ss, o
<1>5. /\ \A i \in DOMAIN ss : \A j \in DOMAIN ss[i] : \E k \in DOMAIN o : o[k] = ss[i][j]
      /\ \A k \in DOMAIN o : \E i \in DOMAIN ss : \E j \in DOMAIN ss[i] : o[k] = ss[i][j]
  BY <1>3, <1>4, FlattenElements
<1>6. ASSUME NEW i \in DOMAIN s, s[i] \in K PROVE \E k \in DOMAIN o : o[k] = s[i]
  <2>1. ss[i] = <<s[i]>>
    BY <1>2, <1>6
  <2>2. 1 \in DOMAIN ss[i] /\ ss[i][1] = s[i]
    BY <2>1
  <2> QED BY <1>3, <1>5, <2>2
<1>7. ASSUME NEW k \in DOMAIN o PROVE \E i \in DOMAIN s : s[i] \in K /\ o[k] = s[i]
  <2>1. PICK i \in DOMAIN ss : \E j \in DOMAIN ss[i] : o[k] = ss[i][j]
    BY <1>5
  <2>2. PICK j \in DOMAIN ss[i] : o[k] = ss[i][j]
    BY <2>1
  <2>3. i \in DOMAIN s
    BY <1>3
  <2>4. s[i] \in K
    <3> SUFFICES ASSUME s[i] \notin K PROVE FALSE
      OBVIOUS
    <3>1. ss[i] = <<>>
      BY <1>2, <2>3
    <3> QED BY <3>1
  <2>5. ss[i] = <<s[i]>>
    BY <1>2, <2>3, <2>4
  <2>6. ss[i][j] = s[i]
    BY <2>5
  <2> QED BY <2>2, <2>3, <2>4, <2>6
<1> QED BY <1>6, <1>7 DEF o

\* A function over 1..n is a sequence.
LEMMA Listed ==
  ASSUME NEW E, NEW n \in Nat, NEW f, f = [i \in 1..n |-> f[i]], \A i \in 1..n : f[i] \in E
  PROVE  f \in Seq(E) /\ Len(f) = n /\ DOMAIN f = 1..n
<1>1. f \in [1..n -> E]
  OBVIOUS
<1> QED BY <1>1

\* downgradeUnsupportedImages leaves no picture that m does not see, and something of what was there.
LEMMA Downgraded ==
  ASSUME NEW m \in Models, NEW parts \in Seq(Shows)
  PROVE  /\ DowngradeImages(parts, m) \in Seq(Seen(m))
         /\ parts # <<>> => DowngradeImages(parts, m) # <<>>
<1>1. parts \in Seq(Shows) /\ DOMAIN parts = 1..Len(parts) /\ Len(parts) \in Nat
          /\ \A i \in 1..Len(parts) : parts[i] \in Shows
  OBVIOUS
<1>2. CASE "images" \in m.traits
  <2>1. Shows \subseteq Seen(m)
    BY <1>2 DEF Seen, Sees
  <2>2. parts \in Seq(Seen(m))
    BY <1>1, <2>1
  <2> QED BY <1>2, <2>2 DEF DowngradeImages
<1>3. CASE "images" \notin m.traits
  <2> DEFINE ss == [i \in DOMAIN parts |->
                      IF parts[i].kind # "image" THEN <<parts[i]>>
                      ELSE IF i > 1 /\ parts[i - 1].kind = "image" THEN <<>> ELSE <<Text>>]
  <2>1. Text \in Seen(m)
    BY Texts DEF Seen, Text, Part
  <2>2. ASSUME NEW i \in 1..Len(parts) PROVE ss[i] \in Seq(Seen(m)) /\ (i = 1 => ss[i] # <<>>)
    <3>1. parts[i].kind # "image" => parts[i] \in Seen(m)
      BY <1>1 DEF Seen
    <3>2. CASE parts[i].kind # "image"
      <4>2. ss[i] = <<parts[i]>>
        BY <1>1, <3>2
      <4> QED BY <3>1, <3>2, <4>2, Tuples
    <3>3. CASE ~(parts[i].kind # "image") /\ i > 1 /\ parts[i - 1].kind = "image"
      BY <1>1, <3>3
    <3>4. CASE ~(parts[i].kind # "image") /\ ~(i > 1 /\ parts[i - 1].kind = "image")
      <4>1. ss[i] = <<Text>>
        BY <1>1, <3>4
      <4> QED BY <2>1, <4>1, Tuples
    <3> QED BY <3>2, <3>3, <3>4
  <2>3. ss \in Seq(Seq(Seen(m))) /\ DOMAIN ss = 1..Len(parts)
    <3>1. ss = [i \in 1..Len(parts) |-> ss[i]]
      BY <1>1
    <3> HIDE DEF ss
    <3> QED BY <1>1, <2>2, <3>1, Listed
  <2>4. DowngradeImages(parts, m) = FlattenSeq(ss)
    BY <1>3 DEF DowngradeImages
  <2> HIDE DEF ss
  <2>5. FlattenSeq(ss) \in Seq(Seen(m))
    BY <2>3, FlattenTyped
  <2>6. ASSUME parts # <<>> PROVE FlattenSeq(ss) # <<>>
    <3>1. 1 \in 1..Len(parts)
      BY <1>1, <2>6
    <3>2. ss[1] \in Seq(Seen(m)) /\ ss[1] # <<>>
      BY <2>2, <3>1
    <3>3. 1 \in DOMAIN ss[1] /\ 1 \in DOMAIN ss
      BY <2>3, <3>1, <3>2
    <3>4. \E k \in DOMAIN FlattenSeq(ss) : FlattenSeq(ss)[k] = ss[1][1]
      BY <2>3, <3>3, FlattenElements
    <3> QED BY <3>4
  <2> QED BY <2>4, <2>5, <2>6
<1> QED BY <1>2, <1>3

\* Every adapter's normalizer (NormalizeToolCallID) makes an id.
LEMMA NormalizedIDs ==
  ASSUME NEW m \in Models, NEW id \in IDs, NEW source
  PROVE  NormalizeToolCallID(id, m, source) \in IDs
<1>1. m.api \in Apis
  BY ConversationAssumption
<1>2. \A form \in Forms : [id EXCEPT !.form = form] \in IDs
  BY DEF IDs
<1>3. {"joined", "foreign", "call", "short"} \subseteq Forms
  BY DEF Forms
<1>4. Sanitized(id) \in IDs /\ CompletionsID(id) \in IDs /\ MistralID(id) \in IDs
  BY <1>2, <1>3 DEF Sanitized, CompletionsID, MistralID
<1>5. GoogleID(id, m) \in IDs /\ NormalizePair(id, m, source) \in IDs
  BY <1>2, <1>3, <1>4 DEF GoogleID, NormalizePair
<1> QED BY <1>1, <1>4, <1>5 DEF NormalizeToolCallID, Apis

\* The calls of an answer that is ready for replay to m.
CallsOf(m) == [kind : {"call"}, blank : {FALSE}, by : Names(m), id : IDs]

\* A part of an answer of source, made ready for m, is nothing or a part that m may have said: what only source
\* can read is gone.
LEMMA BlocksTransformed ==
  ASSUME NEW m \in Models, NEW source \in Models, NEW b \in Says(source)
  PROVE  TransformBlock(b, m, source) \in Seq(Says(m))
<1>1. Text \in Says(m) /\ Nobody \in Names(m)
  BY DEF Text, Part, Says, Kinds, Names
<1>2. CASE source = m
  <2>1. TransformBlock(b, m, source) \in {<<>>, <<b>>}
    <3>1. b.kind \in {"redacted", "text", "call", "thinking"}
      BY DEF Says, Kinds
    <3>2. b.kind = "redacted" => TransformBlock(b, m, source) = <<b>>
      BY <1>2 DEF TransformBlock
    <3>3. b.kind = "text" => TransformBlock(b, m, source) = <<b>>
      BY <1>2 DEF TransformBlock
    <3>4. b.kind = "call" => TransformBlock(b, m, source) = <<b>>
      BY <1>2 DEF TransformBlock
    <3>5. b.kind = "thinking" => TransformBlock(b, m, source) \in {<<>>, <<b>>}
      BY <1>2 DEF TransformBlock
    <3> QED BY <3>1, <3>2, <3>3, <3>4, <3>5
  <2>2. b \in Says(m)
    BY <1>2
  <2>3. <<>> \in Seq(Says(m))
    OBVIOUS
  <2> QED BY <2>1, <2>2, <2>3, Tuples
<1>3. CASE source # m
  <2>1. CASE b.kind = "redacted"
    BY <1>3, <2>1 DEF TransformBlock
  <2>2. CASE b.kind = "thinking"
    <3>1. TransformBlock(b, m, source) \in {<<>>, <<Text>>}
      BY <1>3, <2>2 DEF TransformBlock
    <3>2. <<>> \in Seq(Says(m))
      OBVIOUS
    <3> QED BY <1>1, <3>1, <3>2, Tuples
  <2>3. CASE b.kind = "text"
    <3>1. TransformBlock(b, m, source) = <<[b EXCEPT !.by = Nobody]>>
      BY <1>3, <2>3 DEF TransformBlock
    <3>2. b \in [kind : Kinds(source), blank : BOOLEAN, by : Names(source)]
      BY <2>3 DEF Says
    <3>3. [b EXCEPT !.by = Nobody] \in Says(m)
      BY <1>1, <2>3, <3>2 DEF Says, Kinds
    <3> QED BY <3>1, <3>3, Tuples
  <2>4. CASE b.kind = "call"
    <3>1. TransformBlock(b, m, source) = <<Call(NormalizeToolCallID(b.id, m, source), Nobody)>>
      BY <1>3, <2>4 DEF TransformBlock
    <3>2. b.id \in IDs
      BY <2>4 DEF Says, Kinds
    <3>3. NormalizeToolCallID(b.id, m, source) \in IDs
      BY <3>2, NormalizedIDs
    <3>4. Call(NormalizeToolCallID(b.id, m, source), Nobody) \in Says(m)
      BY <1>1, <3>3 DEF Call, Says
    <3> QED BY <3>1, <3>4, Tuples
  <2> QED BY <2>1, <2>2, <2>3, <2>4 DEF Says, Kinds
<1> QED BY <1>2, <1>3

\* The id that a result gets (toolCallIDMap) is an id.
LEMMA IdsMapped ==
  ASSUME HistoryTyped, NEW m \in Models, NEW i \in DOMAIN history, history[i].id \in IDs
  PROVE  MappedId(history, i, m) \in IDs
BY NormalizedIDs DEF MappedId

\* Each message of the history is made ready for replay to m.
LEMMA OneTransformed ==
  ASSUME HistoryTyped, NEW m \in Models, NEW i \in DOMAIN history
  PROVE  TransformOne(history, i, m) \in MessagesTo(m)
<1> DEFINE msg == history[i]
<1>1. msg \in Messages
  BY DEF HistoryTyped
<1>2. CASE msg \in Spoken
  <2>1. msg.parts \in Seq(Shows) /\ msg.parts # <<>> /\ msg.role = "user"
    BY <1>2 DEF Spoken
  <2>2. DowngradeImages(msg.parts, m) \in Seq(Seen(m)) \ {<<>>}
    BY <2>1, Downgraded
  <2>3. TransformOne(history, i, m) = User(DowngradeImages(msg.parts, m))
    BY <2>1 DEF TransformOne
  <2> HIDE DEF msg
  <2> QED BY <2>2, <2>3 DEF User, MessagesTo, SpokenTo
<1>3. CASE msg \in Returns
  <2>1. msg.parts \in Seq(Shows) /\ msg.id \in IDs /\ msg.role = "toolResult"
    BY <1>3 DEF Returns
  <2>2. DowngradeImages(msg.parts, m) \in Seq(Seen(m)) /\ MappedId(history, i, m) \in IDs
    BY <2>1, Downgraded, IdsMapped
  <2>3. TransformOne(history, i, m) = [msg EXCEPT !.id = MappedId(history, i, m),
            !.parts = DowngradeImages(msg.parts, m)]
    BY <2>1 DEF TransformOne
  <2> HIDE DEF msg
  <2>4. TransformOne(history, i, m) \in ReturnsTo(m)
    BY <1>3, <2>2, <2>3 DEF Returns, ReturnsTo
  <2> QED BY <2>4 DEF MessagesTo
<1>4. CASE \E source \in Models : msg \in AnswersOf(source)
  <2>1. PICK source \in Models : msg \in AnswersOf(source)
    BY <1>4
  <2> DEFINE parts == msg.parts
             ss == [b \in DOMAIN parts |-> TransformBlock(parts[b], m, source)]
  <2>2. parts \in Seq(Says(source)) /\ msg.role = "assistant" /\ msg.model = source
    BY <2>1 DEF AnswersOf
  <2>3. ss \in Seq(Seq(Says(m)))
    <3> HIDE DEF msg
    <3>1. DOMAIN parts = 1..Len(parts) /\ Len(parts) \in Nat /\ \A b \in 1..Len(parts) : parts[b] \in Says(source)
      BY <2>2
    <3>2. \A b \in 1..Len(parts) : ss[b] \in Seq(Says(m))
      BY <3>1, BlocksTransformed
    <3>3. ss = [b \in 1..Len(parts) |-> ss[b]]
      BY <3>1
    <3> HIDE DEF ss
    <3> QED BY <3>1, <3>2, <3>3, Listed
  <2>4. TransformOne(history, i, m) = [msg EXCEPT !.parts = FlattenSeq(ss)]
    BY <2>2 DEF TransformOne
  <2>5. FlattenSeq(ss) \in Seq(Says(m))
    <3> HIDE DEF ss
    <3> QED BY <2>3, FlattenTyped
  <2> HIDE DEF msg, ss
  <2>6. TransformOne(history, i, m) \in AnswersTo(m)
    BY <2>1, <2>4, <2>5 DEF AnswersOf, AnswersTo
  <2> QED BY <2>6 DEF MessagesTo
<1> HIDE DEF msg
<1> QED BY <1>1, <1>2, <1>3, <1>4 DEF Messages

\* The calls of a message that is ready for replay are such calls.
LEMMA TransformedCalls ==
  ASSUME NEW m \in Models, NEW msg \in MessagesTo(m)
  PROVE  Calls(msg) \in Seq(CallsOf(m))
<1> DEFINE K == {p \in Range(msg.parts) : p.kind = "call"}
<1>1. CASE msg.role # "assistant"
  BY <1>1 DEF Calls
<1>2. CASE msg.role = "assistant"
  <2>1. msg \in AnswersTo(m)
    BY <1>2 DEF MessagesTo, SpokenTo, ReturnsTo
  <2>2. msg.parts \in Seq(Says(m))
    BY <2>1 DEF AnswersTo
  <2>3. Only(msg.parts, K) \in Seq(Says(m) \cap K)
    BY <2>2, OnlyKeeps
  <2>4. Says(m) \cap K \subseteq CallsOf(m)
    BY DEF Says, Kinds, CallsOf
  <2> DEFINE s == Only(msg.parts, K)
  <2> HIDE DEF K
  <2>5. s \in Seq(Says(m) \cap K)
    BY <2>3
  <2> HIDE DEF s
  <2>6. s \in Seq(CallsOf(m))
    BY <2>4, <2>5
  <2> QED BY <1>2, <2>6 DEF Calls, s, K
<1> QED BY <1>1, <1>2

\* The last turn before message k.
LastTurn(msgs, k) ==
  LET turns == {j \in 1..(k - 1) : msgs[j].role # "toolResult"}
  IN  CHOOSE last \in turns : \A other \in turns : other <= last

\* There is a last turn before message k if there is a turn at all.
LEMMA LastTurnFacts ==
  ASSUME NEW msgs, NEW k \in Nat, {j \in 1..(k - 1) : msgs[j].role # "toolResult"} # {}
  PROVE  /\ LastTurn(msgs, k) \in 1..(k - 1) /\ msgs[LastTurn(msgs, k)].role # "toolResult"
         /\ \A j \in 1..(k - 1) : msgs[j].role # "toolResult" => j <= LastTurn(msgs, k)
<1> DEFINE D == {j \in 1..(k - 1) : msgs[j].role # "toolResult"}
<1>1. D \subseteq 0..k /\ D # {} /\ \A j \in D : j \in Nat
  OBVIOUS
<1>2. \E x \in D : \A y \in D : y <= x
  <2> HIDE DEF D
  <2>1. PICK x \in D : \A y \in D : x >= y
    BY <1>1, GreatestOf
  <2>2. \A y \in D : y <= x
    BY <1>1, <2>1
  <2> QED BY <2>2
<1>3. LastTurn(msgs, k) = CHOOSE x \in D : \A y \in D : y <= x
  BY DEF LastTurn
<1>4. LastTurn(msgs, k) \in D /\ \A y \in D : y <= LastTurn(msgs, k)
  <2> HIDE DEF D
  <2> QED BY <1>2, <1>3
<1> HIDE DEF LastTurn
<1> QED BY <1>4

\* The calls of the turn that ends before message k which have no result yet.
Open(msgs, k) ==
  LET last == LastTurn(msgs, k)
      answered == {msgs[j].id : j \in last + 1..(k - 1)}
  IN  Only(Calls(msgs[last]), {c \in Range(Calls(msgs[last])) : c.id \notin answered})

\* Flush has work at message k: a turn ends there and it did not fail.
Ends(msgs, k) == /\ k > Len(msgs) \/ msgs[k].role # "toolResult"
                 /\ {j \in 1..(k - 1) : msgs[j].role # "toolResult"} # {}
                 /\ ~Failed(msgs[LastTurn(msgs, k)])

\* Flush makes up a result for every open call, where it has work.
LEMMA FlushOpens ==
  ASSUME NEW msgs, NEW k
  PROVE  Flush(msgs, k) = IF Ends(msgs, k)
             THEN [c \in DOMAIN Open(msgs, k) |-> ToolResult(Open(msgs, k)[c].id, <<Text>>, FALSE)]
                          ELSE <<>>
BY DEF Flush, Ends, Open, LastTurn

\* The open calls are calls.
LEMMA OpenTyped ==
  ASSUME NEW m \in Models, NEW msgs \in Seq(MessagesTo(m)), NEW k \in 1..(Len(msgs) + 1), Ends(msgs, k)
  PROVE  Open(msgs, k) \in Seq(CallsOf(m))
<1> DEFINE last == LastTurn(msgs, k)
           K == {c \in Range(Calls(msgs[last])) : c.id \notin {msgs[j].id : j \in last + 1..(k - 1)}}
           s == Calls(msgs[last])
<1>1. last \in DOMAIN msgs
  <2>1. k \in Nat /\ DOMAIN msgs = 1..Len(msgs) /\ Len(msgs) \in Nat
    OBVIOUS
  <2>2. last \in 1..(k - 1)
    BY <2>1, LastTurnFacts DEF Ends
  <2> HIDE DEF last
  <2> QED BY <2>1, <2>2
<1>2. s \in Seq(CallsOf(m))
  <2> HIDE DEF last
  <2>1. msgs[last] \in MessagesTo(m)
    BY <1>1
  <2> QED BY <2>1, TransformedCalls
<1>3. Only(s, K) \in Seq(CallsOf(m))
  <2> HIDE DEF s, K
  <2>1. Only(s, K) \in Seq(CallsOf(m) \cap K)
    BY <1>2, OnlyKeeps
  <2> DEFINE o == Only(s, K)
  <2>2. o \in Seq(CallsOf(m) \cap K)
    BY <2>1
  <2> HIDE DEF o
  <2>3. o \in Seq(CallsOf(m))
    BY <2>2
  <2> QED BY <2>3 DEF o
<1> QED BY <1>3 DEF Open

\* What flush appends are results that are ready for replay.
LEMMA FlushTyped ==
  ASSUME NEW m \in Models, NEW msgs \in Seq(MessagesTo(m)), NEW k \in 1..(Len(msgs) + 1)
  PROVE  Flush(msgs, k) \in Seq(ReturnsTo(m))
<1> DEFINE o == Open(msgs, k)
           F == [c \in DOMAIN o |-> ToolResult(o[c].id, <<Text>>, FALSE)]
<1>1. CASE ~Ends(msgs, k)
  <2>1. Flush(msgs, k) = <<>>
    BY <1>1, FlushOpens
  <2> QED BY <2>1
<1>2. CASE Ends(msgs, k)
  <2>1. o \in Seq(CallsOf(m))
    BY <1>2, OpenTyped
  <2> HIDE DEF o
  <2>2. DOMAIN o = 1..Len(o) /\ Len(o) \in Nat /\ \A c \in 1..Len(o) : o[c] \in CallsOf(m)
    BY <2>1
  <2>3. Text \in Seen(m)
    BY Texts DEF Seen, Text, Part
  <2>4. \A c \in 1..Len(o) : F[c] \in ReturnsTo(m)
    <3>1. <<Text>> \in Seq(Seen(m))
      BY <2>3
    <3> QED BY <2>2, <3>1 DEF ToolResult, ReturnsTo, CallsOf
  <2>5. F = [c \in 1..Len(o) |-> F[c]]
    BY <2>2
  <2>6. F \in Seq(ReturnsTo(m))
    <3> HIDE DEF F
    <3> QED BY <2>2, <2>4, <2>5, Listed
  <2> QED BY <1>2, <2>6, FlushOpens DEF o
<1> QED BY <1>1, <1>2

\* TransformMessages makes every history ready for replay to m.
LEMMA HistoryTransformed ==
  ASSUME HistoryTyped, NEW m \in Models
  PROVE  TransformHistory(history, m) \in Seq(MessagesTo(m))
<1> DEFINE ss == [i \in DOMAIN history |-> <<TransformOne(history, i, m)>>]
           msgs == FlattenSeq(ss)
           dd == [i \in DOMAIN msgs |-> Flush(msgs, i) \o Replayed(msgs[i])]
<1>1. DOMAIN history = 1..Len(history) /\ Len(history) \in Nat
  BY DEF HistoryTyped
<1>2. ss \in Seq(Seq(MessagesTo(m)))
  <2>1. \A i \in 1..Len(history) : ss[i] \in Seq(MessagesTo(m))
    BY <1>1, OneTransformed, Tuples
  <2>2. ss = [i \in 1..Len(history) |-> ss[i]]
    BY <1>1
  <2> HIDE DEF ss
  <2> QED BY <1>1, <2>1, <2>2, Listed
<1>3. msgs \in Seq(MessagesTo(m))
  <2> HIDE DEF ss
  <2> QED BY <1>2, FlattenTyped
<1> HIDE DEF msgs
<1>4. DOMAIN msgs = 1..Len(msgs) /\ Len(msgs) \in Nat /\ Len(msgs) + 1 \in 1..(Len(msgs) + 1)
  BY <1>3
<1>5. \A k \in 1..(Len(msgs) + 1) : Flush(msgs, k) \in Seq(MessagesTo(m))
  <2>1. ReturnsTo(m) \subseteq MessagesTo(m)
    BY DEF MessagesTo
  <2>2. ASSUME NEW k \in 1..(Len(msgs) + 1) PROVE Flush(msgs, k) \in Seq(MessagesTo(m))
    <3> DEFINE F == Flush(msgs, k)
    <3>1. F \in Seq(ReturnsTo(m))
      BY <1>3, FlushTyped
    <3> HIDE DEF F
    <3>2. F \in Seq(MessagesTo(m))
      BY <2>1, <3>1
    <3> QED BY <3>2 DEF F
  <2> QED BY <2>2
<1>6. dd \in Seq(Seq(MessagesTo(m)))
  <2>1. ASSUME NEW i \in 1..Len(msgs) PROVE dd[i] \in Seq(MessagesTo(m))
    <3> DEFINE F == Flush(msgs, i)
               R == Replayed(msgs[i])
    <3>1. F \in Seq(MessagesTo(m))
      BY <1>4, <1>5
    <3>2. R \in Seq(MessagesTo(m))
      <4>1. msgs[i] \in MessagesTo(m)
        BY <1>3
      <4> QED BY <4>1, Tuples DEF Replayed
    <3>3. dd[i] = F \o R
      BY <1>4
    <3> HIDE DEF F, R, dd
    <3> QED BY <3>1, <3>2, <3>3
  <2>2. dd = [i \in 1..Len(msgs) |-> dd[i]]
    BY <1>4
  <2> HIDE DEF dd
  <2> QED BY <1>4, <2>1, <2>2, Listed
<1>7. FlattenSeq(dd) \in Seq(MessagesTo(m)) /\ Flush(msgs, Len(msgs) + 1) \in Seq(MessagesTo(m))
  <2> HIDE DEF dd
  <2> QED BY <1>4, <1>5, <1>6, FlattenTyped
<1>8. TransformHistory(history, m) = FlattenSeq(dd) \o Flush(msgs, Len(msgs) + 1)
  BY DEF TransformHistory, InsertOrphanToolResults, msgs
<1> DEFINE a == FlattenSeq(dd)
           b == Flush(msgs, Len(msgs) + 1)
<1>9. a \in Seq(MessagesTo(m)) /\ b \in Seq(MessagesTo(m)) /\ TransformHistory(history, m) = a \o b
  BY <1>7, <1>8
<1> HIDE DEF a, b
<1> QED BY <1>9

-----------------------------------------------------------------------------
(* The parts and the turns of a request                                    *)

\* The results that a request for m carries.
Results(m) == [kind : {"result"}, blank : {FALSE}, by : {Nobody}, real : BOOLEAN, id : IDs,
               pictures : IF Sees(m) THEN BOOLEAN ELSE {FALSE}]

\* The APIs of Claude refuse blank text.
Blanks(m) == IF m.api \in {"anthropic", "bedrock"} THEN {FALSE} ELSE BOOLEAN

\* What a turn may carry for m.
Carried(m) == {p \in Seen(m) \cup Says(m) \cup Results(m) : p.blank \in Blanks(m)}

\* The roles of turns; a turn of roles R with parts C has at least one part.
Roles == {"user", "assistant", "results", "pictures"}
TurnsIn(R, C) == [role : R, parts : Seq(C) \ {<<>>}]

\* A text that is not blank can be carried to everybody.
LEMMA CarriedText == ASSUME NEW m \in Models PROVE Text \in Carried(m) /\ Text.kind # "call"
                         /\ Text.kind # "result"
BY Texts DEF Text, Part, Carried, Seen, Blanks

\* A turn without parts is left out.
LEMMA SkippedTyped ==
  ASSUME NEW C, NEW parts \in Seq(C), NEW R, NEW role \in R
  PROVE  Skipped(role, parts) \in Seq(TurnsIn(R, C))
<1>1. CASE parts = <<>>
  <2>1. Skipped(role, parts) = <<>>
    BY <1>1 DEF Skipped
  <2> QED BY <2>1
<1>2. CASE parts # <<>>
  <2>1. Turn(role, parts) \in TurnsIn(R, C)
    BY <1>2 DEF Turn, TurnsIn
  <2>2. Skipped(role, parts) = <<Turn(role, parts)>>
    BY <1>2 DEF Skipped
  <2> QED BY <2>1, <2>2, Tuples
<1> QED BY <1>1, <1>2

\* What is shown of parts that m may see or have said can be carried to m.
LEMMA ShownTyped ==
  ASSUME NEW m \in Models, NEW E, E \subseteq Seen(m) \cup Says(m), NEW parts \in Seq(E)
  PROVE  Shown(parts) \in Seq({p \in E \cap Carried(m) : ~p.blank})
<1> DEFINE K == {p \in Range(parts) : ~p.blank}
           G == {p \in E \cap Carried(m) : ~p.blank}
<1>1. E \cap K \subseteq G
  BY DEF Carried, Blanks, Seen, Says, Shows
<1>2. Only(parts, K) \in Seq(E \cap K)
  <2> HIDE DEF K
  <2> QED BY OnlyKeeps
<1> DEFINE s == Only(parts, K)
<1>3. s \in Seq(G)
  <2>1. s \in Seq(E \cap K)
    BY <1>2
  <2> HIDE DEF s, K, G
  <2> QED BY <1>1, <2>1
<1> QED BY <1>3 DEF Shown

\* A result joins the last turn or becomes a turn of its own.
LEMMA JoinTyped ==
  ASSUME NEW C, NEW turns \in Seq(TurnsIn(Roles, C)), NEW joins \in BOOLEAN, joins => turns # <<>>, NEW r \in C
  PROVE  Join(turns, joins, r) \in Seq(TurnsIn(Roles, C)) \ {<<>>}
<1>1. CASE joins
  <2> DEFINE parts == Append(Last(turns).parts, r)
             front == Front(turns)
             turn == Turn("results", parts)
  <2>1. Last(turns) \in TurnsIn(Roles, C)
    BY <1>1 DEF Last
  <2>2. parts \in Seq(C) \ {<<>>}
    <3> DEFINE old == Last(turns).parts
    <3>1. old \in Seq(C)
      BY <2>1 DEF TurnsIn
    <3> HIDE DEF old
    <3>2. Append(old, r) \in Seq(C)
      BY <3>1
    <3>3. Append(old, r) # <<>>
      BY <3>1
    <3> QED BY <3>2, <3>3 DEF old
  <2>3. turn \in TurnsIn(Roles, C)
    <3> HIDE DEF parts
    <3> QED BY <2>2 DEF Turn, TurnsIn, Roles
  <2>4. front \in Seq(TurnsIn(Roles, C))
    BY <1>1 DEF Front
  <2>5. Join(turns, joins, r) = front \o <<turn>>
    BY <1>1 DEF Join
  <2> HIDE DEF front, turn
  <2>6. front \o <<turn>> \in Seq(TurnsIn(Roles, C)) /\ front \o <<turn>> # <<>>
    BY <2>3, <2>4
  <2> QED BY <2>5, <2>6
<1>2. CASE ~joins
  <2> DEFINE turn == Turn("results", <<r>>)
  <2>1. turn \in TurnsIn(Roles, C)
    BY Tuples DEF Turn, TurnsIn, Roles
  <2>2. Join(turns, joins, r) = Append(turns, turn)
    BY <1>2 DEF Join
  <2> HIDE DEF turn
  <2> QED BY <2>1, <2>2
<1> QED BY <1>1, <1>2

\* A result with pictures that is ready for m is one that m sees.
LEMMA PicturedSees ==
  ASSUME NEW m \in Models, NEW msg \in ReturnsTo(m)
  PROVE  Pictured(msg) \in BOOLEAN /\ (Pictured(msg) => Sees(m))
<1>1. msg.parts \in Seq(Seen(m))
  BY DEF ReturnsTo
<1>2. \A i \in DOMAIN msg.parts : msg.parts[i] \in Seen(m)
  BY <1>1
<1> QED BY <1>2 DEF Pictured, Seen

\* The result that message msg becomes for m, and the id that a call has for it.
ResultOf(msg, m) ==
  CASE m.api \in {"anthropic", "bedrock"} -> ClaudeResult(msg)
    [] m.api = "completions" -> CompletionsResult(msg)
    [] m.api = "responses" -> ResponsesResult(msg, m)
    [] m.api = "google" -> GoogleResult(msg, m)
    [] m.api = "mistral" -> MistralResult(msg, m)
SentId(id, m) == IF m.api = "responses" THEN SplitToolCallID(id) ELSE id

\* A pair of ids that is split keeps its number (splitToolCallID).
LEMMA SplitTyped == ASSUME NEW id \in IDs PROVE SplitToolCallID(id) \in IDs /\ SplitToolCallID(id).n = id.n
BY DEF SplitToolCallID, IDs, Forms

\* The result that message msg becomes can be carried to m, is real if the message is, and has the message's id
\* as m knows it.
LEMMA ResultTyped ==
  ASSUME NEW m \in Models, NEW msg \in ReturnsTo(m)
  PROVE  LET r == ResultOf(msg, m)
         IN  r \in Carried(m) /\ r.kind = "result" /\ r.id = SentId(msg.id, m) /\ r.real = msg.real
<1>1. msg.real \in BOOLEAN /\ msg.id \in IDs
  BY DEF ReturnsTo
<1>2. \E id \in IDs, pictures \in BOOLEAN : id = SentId(msg.id, m) /\ (pictures => Sees(m))
          /\ ResultOf(msg, m) = Result(msg, id, pictures)
  <2>0. m.api \in Apis
    BY ConversationAssumption
  <2>1. SentId(msg.id, m) \in IDs
    BY <1>1, SplitTyped DEF SentId
  <2>2. CASE m.api \in {"anthropic", "bedrock"}
    <3>1. ResultOf(msg, m) = Result(msg, SentId(msg.id, m), Pictured(msg))
      BY <2>2 DEF ResultOf, ClaudeResult, SentId
    <3> QED BY <2>1, <3>1, PicturedSees
  <2>3. CASE m.api = "completions"
    <3>1. ResultOf(msg, m) = Result(msg, SentId(msg.id, m), FALSE)
      BY <2>3 DEF ResultOf, CompletionsResult, SentId
    <3> QED BY <2>1, <3>1
  <2>4. CASE m.api = "responses"
    <3>1. ResultOf(msg, m) = Result(msg, SentId(msg.id, m), Pictured(msg) /\ Sees(m))
      BY <2>4 DEF ResultOf, ResponsesResult, SentId
    <3>2. (Pictured(msg) /\ Sees(m)) \in BOOLEAN /\ ((Pictured(msg) /\ Sees(m)) => Sees(m))
      OBVIOUS
    <3> QED BY <2>1, <3>1, <3>2
  <2>5. CASE m.api = "google"
    <3> DEFINE shown == Pictured(msg) /\ Sees(m) /\ "nested" \in m.traits
    <3>1. ResultOf(msg, m) = Result(msg, SentId(msg.id, m), shown)
      BY <2>5 DEF ResultOf, GoogleResult, SentId
    <3>2. shown \in BOOLEAN /\ (shown => Sees(m))
      OBVIOUS
    <3> HIDE DEF shown
    <3> QED BY <2>1, <3>1, <3>2
  <2>6. CASE m.api = "mistral"
    <3>1. ResultOf(msg, m) = Result(msg, SentId(msg.id, m), Pictured(msg) /\ Sees(m))
      BY <2>6 DEF ResultOf, MistralResult, SentId
    <3>2. (Pictured(msg) /\ Sees(m)) \in BOOLEAN /\ ((Pictured(msg) /\ Sees(m)) => Sees(m))
      OBVIOUS
    <3> QED BY <2>1, <3>1, <3>2
  <2> QED BY <2>0, <2>2, <2>3, <2>4, <2>5, <2>6 DEF Apis
<1>3. PICK id \in IDs, pictures \in BOOLEAN : id = SentId(msg.id, m) /\ (pictures => Sees(m))
          /\ ResultOf(msg, m) = Result(msg, id, pictures)
  BY <1>2
<1>4. Result(msg, id, pictures) \in Results(m)
  BY <1>1, <1>3 DEF Result, Results
<1>5. Result(msg, id, pictures) \in Carried(m)
  BY <1>4 DEF Carried, Results, Blanks
<1> QED BY <1>3, <1>5 DEF Result

\* The parts of a turn, changed one by one.
LEMMA PartsMapped ==
  ASSUME NEW A, NEW C, NEW s \in Seq(A), NEW g, g = [i \in DOMAIN s |-> g[i]], \A i \in DOMAIN s : g[i] \in C
  PROVE  g \in Seq(C)
<1>1. DOMAIN s = 1..Len(s) /\ Len(s) \in Nat
  OBVIOUS
<1> QED BY <1>1, Listed

\* What message parts may become on the wire: the calls are theirs.
Sent(m, parts) == {p \in Carried(m) : /\ p.kind # "result"
                                      /\ p.kind = "call" => \E c \in Range(parts) : c.kind = "call"
                                             /\ p.id = SentId(c.id, m)}

\* A sequence is one over its own elements.
LEMMA InRange == ASSUME NEW E, NEW s \in Seq(E) PROVE s \in Seq(E \cap Range(s))
                     /\ \A i \in DOMAIN s : s[i] \in E \cap Range(s)
<1>1. \A i \in DOMAIN s : s[i] \in E \cap Range(s)
  BY DEF Range
<1>2. DOMAIN s = 1..Len(s) /\ Len(s) \in Nat /\ s = [i \in 1..Len(s) |-> s[i]]
  OBVIOUS
<1> QED BY <1>1, <1>2, Listed

\* What m may have said is sent as it is, or without its signature.
LEMMA SentAsIs ==
  ASSUME NEW m \in Models, m.api # "responses", NEW parts \in Seq(Says(m)),
         NEW p \in Says(m) \cap Range(parts), ~p.blank \/ m.api \notin {"anthropic", "bedrock"}
  PROVE  p \in Sent(m, parts) /\ Unsigned(p) \in Sent(m, parts)
<1>1. p \in Carried(m)
  BY DEF Carried, Blanks, Says
<1>2. p.kind # "result"
  BY DEF Says, Kinds
<1>3. Unsigned(p) \in Says(m) /\ Unsigned(p).blank = p.blank /\ Unsigned(p).kind = p.kind
          /\ (p.kind = "call" => Unsigned(p).id = p.id)
  <2>1. CASE p \in [kind : Kinds(m), blank : BOOLEAN, by : Names(m)]
    <3>1. p.kind # "call"
      BY <2>1 DEF Kinds
    <3> QED BY <2>1, <3>1 DEF Unsigned, Says, Names
  <2>2. CASE p \in [kind : {"call"}, blank : {FALSE}, by : Names(m), id : IDs]
    BY <2>2 DEF Unsigned, Says, Names
  <2> QED BY <2>1, <2>2 DEF Says
<1>4. Unsigned(p) \in Carried(m)
  BY <1>1, <1>3 DEF Carried
<1> QED BY <1>1, <1>2, <1>3, <1>4 DEF Sent, SentId

\* The Claude adapters, Mistral and Google send parts of the answer only.
LEMMA ClaudePartsTyped ==
  ASSUME NEW m \in Models, m.api # "responses", NEW parts \in Seq(Says(m))
  PROVE  /\ ClaudeParts(parts) \in Seq(Sent(m, parts))
         /\ Shown(parts) \in Seq(Sent(m, parts))
         /\ [i \in DOMAIN Shown(parts) |-> Unsigned(Shown(parts)[i])] \in Seq(Sent(m, parts))
<1> DEFINE s == Shown(parts)
           E == Says(m) \cap Range(parts)
           C == {p \in E \cap Carried(m) : ~p.blank}
           g == [i \in DOMAIN s |-> SignedOrText(s[i])]
           u == [i \in DOMAIN s |-> Unsigned(s[i])]
           S == Sent(m, parts)
<1>1. s \in Seq(C)
  <2> HIDE DEF E
  <2>1. parts \in Seq(E) /\ E \subseteq Seen(m) \cup Says(m)
    BY InRange DEF E
  <2> QED BY <2>1, ShownTyped
<1>2. \A i \in DOMAIN s : s[i] \in C
  <2> HIDE DEF s, C
  <2> QED BY <1>1
<1>3. ASSUME NEW p \in C PROVE p \in S /\ Unsigned(p) \in S
  BY SentAsIs
<1>4. ASSUME NEW p \in C PROVE SignedOrText(p) \in S
  BY <1>3, CarriedText DEF SignedOrText, Sent
<1>5. \A i \in DOMAIN s : s[i] \in S /\ g[i] \in S /\ u[i] \in S
  <2> HIDE DEF S, C, s
  <2> QED BY <1>2, <1>3, <1>4
<1>6. g \in Seq(S) /\ u \in Seq(S) /\ s \in Seq(S)
  <2>1. g = [i \in DOMAIN s |-> g[i]] /\ u = [i \in DOMAIN s |-> u[i]]
    OBVIOUS
  <2>2. s = [i \in DOMAIN s |-> s[i]]
    <3> HIDE DEF s, C
    <3> QED BY <1>1
  <2> HIDE DEF s, g, u, C, S
  <2> QED BY <1>1, <1>5, <2>1, <2>2, PartsMapped
<1> QED BY <1>6 DEF ClaudeParts

-----------------------------------------------------------------------------
(* What the adapters make of an answer, and of what a user said            *)

\* A placeholder can be sent for any message.
LEMMA TextSent == ASSUME NEW m \in Models, NEW parts PROVE Text \in Sent(m, parts)
BY CarriedText DEF Sent

\* A sequence over a set is one over a larger set.
LEMMA Widened == ASSUME NEW A, NEW B, A \subseteq B, NEW s \in Seq(A) PROVE s \in Seq(B)
OBVIOUS

\* The Completions adapter sends parts of the answer only.
LEMMA CompletionsPartsTyped ==
  ASSUME NEW m \in Models, m.api = "completions", NEW parts \in Seq(Says(m))
  PROVE  CompletionsParts(parts) \in Seq(Sent(m, parts))
<1> DEFINE S == Sent(m, parts)
           shown == Shown(parts)
           E == {p \in Says(m) \cap Range(parts) : ~p.blank}
           K == {p \in Range(shown) : p.kind # "thinking"}
           said == Only(shown, K)
           a == [i \in DOMAIN said |-> IF said[i].kind = "text" THEN Unsigned(said[i]) ELSE said[i]]
           b == [i \in DOMAIN shown |-> IF shown[i].kind = "text" THEN Unsigned(shown[i]) ELSE shown[i]]
<1>1. shown \in Seq(E)
  <2> DEFINE F == Says(m) \cap Range(parts)
             C == {p \in F \cap Carried(m) : ~p.blank}
  <2>1. parts \in Seq(F) /\ F \subseteq Seen(m) \cup Says(m)
    BY InRange
  <2>2. shown \in Seq(C)
    <3> HIDE DEF F
    <3> QED BY <2>1, ShownTyped
  <2>3. C \subseteq E
    OBVIOUS
  <2> HIDE DEF C, E, shown
  <2> QED BY <2>2, <2>3, Widened
<1>2. said \in Seq(E)
  <2> HIDE DEF E, shown, K
  <2>1. said \in Seq(E \cap K)
    BY <1>1, OnlyKeeps
  <2> HIDE DEF said
  <2> QED BY <2>1, Widened
<1>3. \A p \in E : p \in S /\ Unsigned(p) \in S
  BY SentAsIs
<1>4. \A s \in {said, shown} : s \in Seq(E) /\ \A i \in DOMAIN s : s[i] \in E
  <2> HIDE DEF E, said, shown
  <2> QED BY <1>1, <1>2
<1>5. a \in Seq(S) /\ b \in Seq(S)
  <2>1. a = [i \in DOMAIN said |-> a[i]] /\ b = [i \in DOMAIN shown |-> b[i]]
    OBVIOUS
  <2>2. (\A i \in DOMAIN said : a[i] \in S) /\ (\A i \in DOMAIN shown : b[i] \in S)
    <3> HIDE DEF S, E, said, shown
    <3> QED BY <1>3, <1>4
  <2> HIDE DEF said, shown, a, b, S, E
  <2> QED BY <1>4, <2>1, <2>2, PartsMapped
<1>6. CompletionsParts(parts) \in {<<>>, a, b}
  BY DEF CompletionsParts
<1>7. <<>> \in Seq(S)
  OBVIOUS
<1> HIDE DEF a, b, S
<1>8. CompletionsParts(parts) \in Seq(S)
  BY <1>5, <1>6, <1>7
<1> QED BY <1>8 DEF S

\* The Responses adapter sends parts of the answer only, its calls by their split ids.
LEMMA ResponsesPartsTyped ==
  ASSUME NEW m \in Models, m.api = "responses", NEW parts \in Seq(Says(m)), NEW source \in Models
  PROVE  ResponsesParts(parts, m, source) \in Seq(Sent(m, parts))
<1> DEFINE S == Sent(m, parts)
           E == Says(m) \cap Range(parts)
           K == {p \in Range(parts) : p.kind # "thinking" \/ p.by # Nobody}
           kept == Only(parts, K)
           g == [i \in DOMAIN kept |-> IF kept[i].kind = "call"
               THEN FunctionCall(kept[i], m, source) ELSE kept[i]]
<1>1. kept \in Seq(E)
  <2>1. parts \in Seq(E)
    BY InRange
  <2> HIDE DEF E, K
  <2>2. kept \in Seq(E \cap K)
    BY <2>1, OnlyKeeps
  <2> HIDE DEF kept
  <2> QED BY <2>2, Widened
<1>2. ASSUME NEW p \in E PROVE (IF p.kind = "call" THEN FunctionCall(p, m, source) ELSE p) \in S
  <2>1. CASE p.kind # "call"
    <3>1. p \in Carried(m) /\ p.kind # "result"
      BY <2>1 DEF Carried, Blanks, Says, Kinds
    <3> QED BY <2>1, <3>1 DEF Sent
  <2>2. CASE p.kind = "call"
    <3>1. p \in [kind : {"call"}, blank : {FALSE}, by : Names(m), id : IDs]
      BY <2>2 DEF Says, Kinds
    <3>2. SplitToolCallID(p.id) \in IDs
      BY <3>1, SplitTyped
    <3>3. \E by \in Names(m) : FunctionCall(p, m, source) = Call(SplitToolCallID(p.id), by)
      BY DEF FunctionCall, Names
    <3>4. PICK by \in Names(m) : FunctionCall(p, m, source) = Call(SplitToolCallID(p.id), by)
      BY <3>3
    <3>5. Call(SplitToolCallID(p.id), by) \in Says(m)
      BY <3>2 DEF Call, Says
    <3>6. Call(SplitToolCallID(p.id), by) \in Carried(m)
      BY <3>5 DEF Carried, Blanks, Call
    <3>7. Call(SplitToolCallID(p.id), by) \in Sent(m, parts)
      BY <2>2, <3>6 DEF Sent, Call, SentId
    <3> QED BY <2>2, <3>4, <3>7
  <2> QED BY <2>1, <2>2
<1>3. \A i \in DOMAIN kept : kept[i] \in E
  <2> HIDE DEF E, kept
  <2> QED BY <1>1
<1>4. g \in Seq(S)
  <2>1. g = [i \in DOMAIN kept |-> g[i]]
    OBVIOUS
  <2>2. \A i \in DOMAIN kept : g[i] \in S
    <3> HIDE DEF S, E, kept
    <3> QED BY <1>2, <1>3
  <2> HIDE DEF kept, g, S, E
  <2> QED BY <1>1, <2>1, <2>2, PartsMapped
<1> QED BY <1>4 DEF ResponsesParts

\* The turns go on with what m is sent of an answer, or of any message.
Replies(turns, result, m, msg) ==
  \E parts \in Seq(Sent(m, msg.parts)) : result = turns \o Skipped("assistant", parts)
Speaks(turns, result, m, msg) ==
  \E new \in Seq(TurnsIn({"user", "assistant"}, Sent(m, msg.parts))) : result = turns \o new

\* For an answer, every adapter adds one turn of the assistant or none.
LEMMA RepliesTyped ==
  ASSUME NEW m \in Models, NEW msg \in AnswersTo(m), NEW turns, NEW msgs, NEW i, msgs[i] = msg
  PROVE  Replies(turns, AddMessage(turns, msgs, i, m), m, msg)
<1>0. m.api \in Apis
  BY ConversationAssumption
<1>1. msg.parts \in Seq(Says(m)) /\ msg.role = "assistant" /\ msg.model \in Models
  BY DEF AnswersTo
<1>2. CASE m.api = "anthropic"
  <2>1. AddMessage(turns, msgs, i, m) = turns \o Skipped("assistant", ClaudeParts(msg.parts))
    BY <1>1, <1>2 DEF AddMessage, AddAnthropic
  <2> QED BY <1>1, <1>2, <2>1, ClaudePartsTyped DEF Replies
<1>3. CASE m.api = "bedrock"
  <2>1. AddMessage(turns, msgs, i, m) = turns \o Skipped("assistant", BedrockParts(msg.parts, m))
    BY <1>1, <1>3 DEF AddMessage, AddBedrock
  <2>2. BedrockParts(msg.parts, m) \in Seq(Sent(m, msg.parts))
    BY <1>1, <1>3, ClaudePartsTyped DEF BedrockParts
  <2> QED BY <2>1, <2>2 DEF Replies
<1>4. CASE m.api = "completions"
  <2>1. AddMessage(turns, msgs, i, m) = turns \o Skipped("assistant", CompletionsParts(msg.parts))
    BY <1>1, <1>4 DEF AddMessage, AddCompletions
  <2> QED BY <1>1, <1>4, <2>1, CompletionsPartsTyped DEF Replies
<1>5. CASE m.api = "responses"
  <2>1. AddMessage(turns, msgs, i, m) = turns \o Skipped("assistant", ResponsesParts(msg.parts, m, msg.model))
    BY <1>1, <1>5 DEF AddMessage, AddResponses
  <2> QED BY <1>1, <1>5, <2>1, ResponsesPartsTyped DEF Replies
<1>6. CASE m.api = "google"
  <2>1. AddMessage(turns, msgs, i, m) = turns \o Skipped("assistant", Shown(msg.parts))
    BY <1>1, <1>6 DEF AddMessage, AddGoogle
  <2> QED BY <1>1, <1>6, <2>1, ClaudePartsTyped DEF Replies
<1>7. CASE m.api = "mistral"
  <2>1. AddMessage(turns, msgs, i, m) = turns \o Skipped("assistant", MistralParts(msg.parts))
    BY <1>1, <1>7 DEF AddMessage, AddMistral
  <2> QED BY <1>1, <1>7, <2>1, ClaudePartsTyped DEF MistralParts, Replies
<1> QED BY <1>0, <1>2, <1>3, <1>4, <1>5, <1>6, <1>7 DEF Apis

\* What a user said is sent as it is, or without what is blank.
LEMMA SpokenTyped ==
  ASSUME NEW m \in Models, NEW parts \in Seq(Seen(m))
  PROVE  /\ Shown(parts) \in Seq(Sent(m, parts))
         /\ m.api \notin {"anthropic", "bedrock"} => parts \in Seq(Sent(m, parts))
<1> DEFINE C == {p \in Seen(m) \cap Carried(m) : ~p.blank}
           s == Shown(parts)
           S == Sent(m, parts)
<1>1. s \in Seq(C)
  BY ShownTyped
<1>2. C \subseteq S
  BY DEF Seen, Shows, Sent
<1>3. m.api \notin {"anthropic", "bedrock"} => Seen(m) \subseteq S
  BY DEF Seen, Shows, Sent, Carried, Blanks
<1> HIDE DEF s, C, S
<1>4. s \in Seq(S)
  BY <1>1, <1>2, Widened
<1> QED BY <1>3, <1>4, Widened DEF s, S

\* The roles of turns that speak.
Talking == {"user", "assistant"}

\* Whoever speaks, the turns go on with turns of the user and the assistant.
LEMMA SpeakAdds ==
  ASSUME NEW m \in Models, NEW turns \in Seq(TurnsIn(Roles, Carried(m))), NEW msgs, NEW i, NEW msg, msgs[i] = msg,
         msg \in SpokenTo(m) \cup AnswersTo(m)
  PROVE  Speaks(turns, AddMessage(turns, msgs, i, m), m, msg)
<1>0. m.api \in Apis
  BY ConversationAssumption
<1>1. CASE msg \in AnswersTo(m)
  <2>1. PICK parts \in Seq(Sent(m, msg.parts)) : AddMessage(turns, msgs, i,
            m) = turns \o Skipped("assistant", parts)
    <3>1. Replies(turns, AddMessage(turns, msgs, i, m), m, msg)
      BY <1>1, RepliesTyped
    <3> QED BY <3>1 DEF Replies
  <2>2. Skipped("assistant", parts) \in Seq(TurnsIn(Talking, Sent(m, msg.parts)))
    <3> DEFINE S == Sent(m, msg.parts)
    <3>1. "assistant" \in Talking /\ parts \in Seq(S)
      BY DEF Talking
    <3> HIDE DEF S
    <3>2. Skipped("assistant", parts) \in Seq(TurnsIn(Talking, S))
      BY <3>1, SkippedTyped
    <3> QED BY <3>2 DEF S
  <2> QED BY <2>1, <2>2 DEF Speaks, Talking
<1>2. CASE msg \in SpokenTo(m)
  <2> DEFINE parts == msg.parts
             S == Sent(m, parts)
             N == Seq(TurnsIn(Talking, S))
  <2>1. parts \in Seq(Seen(m)) /\ parts # <<>> /\ msg.role = "user"
    BY <1>2 DEF SpokenTo
  <2>2. Shown(parts) \in Seq(S) /\ (m.api \notin {"anthropic", "bedrock"} => parts \in Seq(S))
    BY <2>1, SpokenTyped
  <2>3. "user" \in Talking /\ "assistant" \in Talking
    BY DEF Talking
  <2>4. Text \in S
    BY TextSent
  <2> HIDE DEF parts, S
  <2>5. Skipped("user", Shown(parts)) \in N
    BY <2>2, <2>3, SkippedTyped
  <2>6. m.api \notin {"anthropic", "bedrock"} => Skipped("user", parts) \in N /\ <<Turn("user", parts)>> \in N
    <3>1. Skipped("user", parts) = <<Turn("user", parts)>>
      BY <2>1 DEF Skipped
    <3> QED BY <2>2, <2>3, <3>1, SkippedTyped
  <2>7. <<BedrockUser(msg)>> \in N
    <3>1. BedrockUser(msg).parts \in Seq(S) \ {<<>>} /\ BedrockUser(msg).role = "user"
          /\ BedrockUser(msg) = [role |-> "user", parts |-> BedrockUser(msg).parts]
      BY <2>2, <2>4, Tuples DEF BedrockUser, Turn, parts
    <3>2. BedrockUser(msg) \in TurnsIn(Talking, S)
      BY <2>3, <3>1 DEF TurnsIn
    <3> QED BY <3>2, Tuples
  <2>8. Bridge(msgs, i, m) \in N
    <3>1. Turn("assistant", <<Text>>) \in TurnsIn(Talking, S)
      BY <2>3, <2>4, Tuples DEF Turn, TurnsIn
    <3>2. <<Turn("assistant", <<Text>>)>> \in N /\ <<>> \in N
      BY <3>1, Tuples
    <3> QED BY <3>2 DEF Bridge
  <2>9. CASE m.api = "anthropic"
    <3>1. AddMessage(turns, msgs, i, m) = turns \o Skipped("user", Shown(parts))
      BY <2>1, <2>9 DEF AddMessage, AddAnthropic, parts
    <3> QED BY <2>5, <3>1 DEF S, parts, Speaks, Talking
  <2>10. CASE m.api = "bedrock"
    <3>1. AddMessage(turns, msgs, i, m) = Append(turns, BedrockUser(msg))
      BY <2>1, <2>10 DEF AddMessage, AddBedrock
    <3>2. Append(turns, BedrockUser(msg)) = turns \o <<BedrockUser(msg)>>
      OBVIOUS
    <3> QED BY <2>7, <3>1, <3>2 DEF S, parts, Speaks, Talking
  <2>11. CASE m.api = "completions"
    <3> DEFINE a == Bridge(msgs, i, m)
               b == <<Turn("user", parts)>>
    <3>1. AddMessage(turns, msgs, i, m) = turns \o a \o b
      BY <2>1, <2>11 DEF AddMessage, AddCompletions, parts
    <3>2. a \in N /\ b \in N
      BY <2>6, <2>8, <2>11
    <3> HIDE DEF a, b
    <3>3. turns \o a \o b = turns \o (a \o b) /\ a \o b \in N
      <4> DEFINE T == TurnsIn(Talking, S)
                 U == TurnsIn(Roles, Carried(m))
      <4>1. turns \in Seq(U) /\ a \in Seq(T) /\ b \in Seq(T)
        BY <3>2
      <4> HIDE DEF T, U
      <4>2. turns \o a \o b = turns \o (a \o b) /\ a \o b \in Seq(T)
        BY <4>1
      <4> QED BY <4>2 DEF T
    <3> QED BY <3>1, <3>3 DEF S, parts, Speaks, Talking
  <2>12. CASE m.api \in {"responses", "google", "mistral"}
    <3>1. AddMessage(turns, msgs, i, m) = turns \o Skipped("user", parts)
      BY <2>1, <2>12 DEF AddMessage, AddResponses, AddGoogle, AddMistral, parts
    <3> QED BY <2>6, <2>12, <3>1 DEF S, parts, Speaks, Talking
  <2> QED BY <1>0, <2>9, <2>10, <2>11, <2>12 DEF Apis
<1> QED BY <1>1, <1>2

-----------------------------------------------------------------------------
(* What the adapters make of a result                                      *)

\* Whether result i goes into the last turn.
Joins(turns, msgs, i, m) ==
  \/ m.api \in {"anthropic", "bedrock"} /\ AfterResult(msgs, i)
  \/ m.api = "google" /\ turns # <<>> /\ Last(turns).role = "results"

\* The turns of pictures that older Gemini models see.
PicturesFor(m) == TurnsIn({"pictures"}, {p \in Carried(m) : p.kind = "image"})

\* How the turns go on after a result: joined or appended, and perhaps a turn of pictures.
Reports(turns, result, msgs, i, m, msg) ==
  \E pics \in Seq(PicturesFor(m)) :
     /\ result = Join(turns, Joins(turns, msgs, i, m), ResultOf(msg, m)) \o pics
     /\ m.api # "google" => pics = <<>>

\* For a tool's result, every adapter adds its result, joined to the last turn or not.
LEMMA ReturnAdds ==
  ASSUME NEW m \in Models, NEW C, NEW turns \in Seq(TurnsIn(Roles, C)), NEW msgs, NEW i, NEW msg, msgs[i] = msg,
         msg \in ReturnsTo(m), ResultOf(msg, m) \in C, Joins(turns, msgs, i, m) => turns # <<>>
  PROVE  Reports(turns, AddMessage(turns, msgs, i, m), msgs, i, m, msg)
<1> DEFINE r == ResultOf(msg, m)
           joined == Join(turns, Joins(turns, msgs, i, m), r)
<1>0. m.api \in Apis
  BY ConversationAssumption
<1>1. msg.role = "toolResult" /\ msg.parts \in Seq(Seen(m))
  BY DEF ReturnsTo
<1>2. joined \in Seq(TurnsIn(Roles, C))
  <2> DEFINE j == Joins(turns, msgs, i, m)
  <2>1. j \in BOOLEAN
    BY DEF Joins
  <2> HIDE DEF j, r
  <2> QED BY <2>1, JoinTyped DEF r, j
<1>3. <<>> \in Seq(PicturesFor(m)) /\ joined \o <<>> = joined
  <2> HIDE DEF joined
  <2> QED BY <1>2
<1>4. Append(turns, Turn("results", <<r>>)) = Join(turns, FALSE, r)
  BY DEF Join
<1>5. CASE m.api \in {"anthropic", "bedrock"}
  <2>1. AddMessage(turns, msgs, i, m) = Join(turns, AfterResult(msgs, i), ClaudeResult(msg))
    BY <1>1, <1>5 DEF AddMessage, AddAnthropic, AddBedrock
  <2>2. Joins(turns, msgs, i, m) = AfterResult(msgs, i) /\ r = ClaudeResult(msg)
    BY <1>5 DEF Joins, ResultOf, AfterResult
  <2>3. AddMessage(turns, msgs, i, m) = joined
    BY <2>1, <2>2
  <2> QED BY <1>3, <2>3 DEF Reports
<1>6. CASE m.api \in {"completions", "responses", "mistral"}
  <2>1. AddMessage(turns, msgs, i, m) = Append(turns, Turn("results", <<r>>))
    BY <1>1, <1>6 DEF AddMessage, AddCompletions, AddResponses, AddMistral, ResultOf
  <2>2. Joins(turns, msgs, i, m) = FALSE
    BY <1>6 DEF Joins
  <2>3. AddMessage(turns, msgs, i, m) = joined
    BY <1>4, <2>1, <2>2
  <2> QED BY <1>3, <2>3 DEF Reports
<1>7. CASE m.api = "google"
  <2> DEFINE pics == PictureTurns(msg, m)
  <2>1. r = GoogleResult(msg, m) /\ Joins(turns, msgs, i, m) = (turns # <<>> /\ Last(turns).role = "results")
    BY <1>7 DEF ResultOf, Joins
  <2>2. AddMessage(turns, msgs, i, m) = joined \o pics
    BY <1>1, <1>7, <2>1 DEF AddMessage, AddGoogle
  <2>3. pics \in Seq(PicturesFor(m))
    <3> DEFINE K == {p \in Range(msg.parts) : p.kind = "image"}
               s == Only(msg.parts, K)
               I == {p \in Carried(m) : p.kind = "image"}
    <3>1. CASE ~(Pictured(msg) /\ Sees(m) /\ "nested" \notin m.traits)
      BY <1>3, <3>1 DEF PictureTurns
    <3>2. CASE Pictured(msg) /\ Sees(m) /\ "nested" \notin m.traits
      <4>1. s \in Seq(Seen(m) \cap K)
        <5> HIDE DEF K
        <5> QED BY <1>1, OnlyKeeps
      <4>2. Seen(m) \cap K \subseteq I
        BY <1>7 DEF Seen, Shows, Carried, Blanks
      <4>3. s # <<>>
        <5>1. PICK k \in DOMAIN msg.parts : msg.parts[k].kind = "image"
          BY <3>2 DEF Pictured
        <5>2. msg.parts[k] \in K
          BY <5>1 DEF Range
        <5> HIDE DEF K
        <5> QED BY <1>1, <5>1, <5>2, OnlyFinds
      <4> HIDE DEF s, I, K
      <4>4. s \in Seq(I)
        BY <4>1, <4>2, Widened
      <4>5. Turn("pictures", s) \in TurnsIn({"pictures"}, I)
        BY <4>3, <4>4 DEF Turn, TurnsIn
      <4>6. pics = <<Turn("pictures", s)>>
        BY <3>2 DEF PictureTurns, s, K
      <4> HIDE DEF pics
      <4> QED BY <4>5, <4>6, Tuples DEF PicturesFor, I
    <3> QED BY <3>1, <3>2
  <2> QED BY <1>7, <2>2, <2>3 DEF Reports
<1> QED BY <1>0, <1>5, <1>6, <1>7 DEF Apis

-----------------------------------------------------------------------------
(* ConvertMessages: the whole request                                      *)

\* What the turns of a request for m may carry when its messages are msgs: the results
\* are those of the messages.
Wire(m, msgs) == {p \in Carried(m) : p.kind = "result"
    => \E q \in DOMAIN msgs : msgs[q].role = "toolResult" /\ p = ResultOf(msgs[q], m)}

\* The turns after message i.
Built(turns, m, msgs, i) ==
  /\ turns \in Seq(TurnsIn(Roles, Wire(m, msgs)))
  /\ (i > 0 /\ msgs[i].role = "toolResult") =>
        turns # <<>> /\ (m.api # "google" => Last(turns).role = "results")

\* The role of a message tells what it is.
LEMMA TypedApart ==
  ASSUME NEW m \in Models, NEW msg \in MessagesTo(m)
  PROVE  /\ msg \in ReturnsTo(m) <=> msg.role = "toolResult"
         /\ msg \in AnswersTo(m) <=> msg.role = "assistant"
         /\ msg \in SpokenTo(m) <=> msg.role = "user"
         /\ msg.role \in {"user", "assistant", "toolResult"}
BY DEF MessagesTo, ReturnsTo, AnswersTo, SpokenTo

\* Sequences over sets, one within the other, put together.
LEMMA ConcatTyped == ASSUME NEW E, NEW a \in Seq(E), NEW F, F \subseteq E,
                         NEW b \in Seq(F) PROVE a \o b \in Seq(E)
<1>1. b \in Seq(E)
  BY Widened
<1> QED BY <1>1

\* More roles and parts make more turns.
LEMMA TurnsWidened ==
  ASSUME NEW R, NEW C, NEW R2, NEW C2, R \subseteq R2, C \subseteq C2
  PROVE  TurnsIn(R, C) \subseteq TurnsIn(R2, C2)
<1>1. Seq(C) \subseteq Seq(C2)
  BY Widened
<1> QED BY <1>1 DEF TurnsIn

\* A turn that only ends with results is joined by the next.
LEMMA JoinedLast ==
  ASSUME NEW C, NEW turns \in Seq(TurnsIn(Roles, C)), NEW joins \in BOOLEAN, joins => turns # <<>>, NEW r \in C
  PROVE  Last(Join(turns, joins, r)).role = "results"
<1>1. CASE joins
  <2> DEFINE turn == Turn("results", Append(Last(turns).parts, r))
             front == Front(turns)
  <2>1. front \in Seq(TurnsIn(Roles, C))
    BY <1>1 DEF Front
  <2>2. Join(turns, joins, r) = front \o <<turn>>
    BY <1>1 DEF Join
  <2>3. turn.role = "results"
    BY DEF Turn
  <2> HIDE DEF front, turn
  <2> DEFINE s == front \o <<turn>>
  <2>4. Len(s) = Len(front) + 1 /\ s[Len(front) + 1] = turn
    BY <2>1
  <2>5. Last(s) = turn
    <3> HIDE DEF s
    <3> QED BY <2>4 DEF Last
  <2> QED BY <2>2, <2>3, <2>5
<1>2. CASE ~joins
  <2> DEFINE turn == Turn("results", <<r>>)
  <2>1. Join(turns, joins, r) = Append(turns, turn)
    BY <1>2 DEF Join
  <2>2. turn.role = "results"
    BY DEF Turn
  <2> HIDE DEF turn
  <2>3. Last(Append(turns, turn)) = turn
    BY DEF Last
  <2> QED BY <2>1, <2>2, <2>3
<1> QED BY <1>1, <1>2

\* An adapter joins a result to the last turn only where there is one.
LEMMA JoinsFilled ==
  ASSUME NEW m \in Models, NEW msgs \in Seq(MessagesTo(m)), NEW i \in 1..Len(msgs),
         NEW turns, Built(turns, m, msgs, i - 1)
  PROVE  Joins(turns, msgs, i, m) \in BOOLEAN /\ (Joins(turns, msgs, i, m) => turns # <<>>)
<1>1. AfterResult(msgs, i) => i - 1 > 0 /\ msgs[i - 1].role = "toolResult"
  BY DEF AfterResult
<1> QED BY <1>1 DEF Joins, Built

\* One round of any adapter's loop: the turns stay turns that m can take, and end with the results after a result.
LEMMA BuiltOn ==
  ASSUME NEW m \in Models, NEW msgs \in Seq(MessagesTo(m)), NEW i \in 1..Len(msgs),
         NEW turns, Built(turns, m, msgs, i - 1)
  PROVE  Built(AddMessage(turns, msgs, i, m), m, msgs, i)
<1> DEFINE msg == msgs[i]
           W == Wire(m, msgs)
           result == AddMessage(turns, msgs, i, m)
<1>1. msg \in MessagesTo(m)
  OBVIOUS
<1>2. W \subseteq Carried(m) /\ turns \in Seq(TurnsIn(Roles, W))
  BY DEF Wire, Built
<1>3. turns \in Seq(TurnsIn(Roles, Carried(m)))
  <2>1. TurnsIn(Roles, W) \subseteq TurnsIn(Roles, Carried(m))
    <3> HIDE DEF W
    <3> QED BY <1>2, TurnsWidened
  <2> DEFINE A == TurnsIn(Roles, W)
             B == TurnsIn(Roles, Carried(m))
  <2> HIDE DEF A, B
  <2> QED BY <1>2, <2>1, Widened DEF A, B
<1>4. CASE msg.role # "toolResult"
  <2>1. msg \in SpokenTo(m) \cup AnswersTo(m)
    BY <1>1, <1>4, TypedApart
  <2>2. Speaks(turns, result, m, msg)
    BY <1>3, <2>1, SpeakAdds
  <2>3. PICK new \in Seq(TurnsIn(Talking, Sent(m, msg.parts))) : result = turns \o new
    BY <2>2 DEF Speaks, Talking
  <2>4. TurnsIn(Talking, Sent(m, msg.parts)) \subseteq TurnsIn(Roles, W)
    <3>1. Talking \subseteq Roles /\ Sent(m, msg.parts) \subseteq W
      BY DEF Talking, Roles, Sent, Wire
    <3> HIDE DEF W
    <3> QED BY <3>1, TurnsWidened
  <2>5. result \in Seq(TurnsIn(Roles, W))
    <3> DEFINE A == TurnsIn(Talking, Sent(m, msg.parts))
               B == TurnsIn(Roles, W)
    <3> HIDE DEF A, B
    <3>1. turns \o new \in Seq(B)
      BY <1>2, <2>3, <2>4, ConcatTyped DEF A, B
    <3> QED BY <2>3, <3>1 DEF B
  <2> HIDE DEF result
  <2> QED BY <1>4, <2>5 DEF Built, result
<1>5. CASE msg.role = "toolResult"
  <2> DEFINE r == ResultOf(msg, m)
             j == Joins(turns, msgs, i, m)
             joined == Join(turns, j, r)
  <2>1. msg \in ReturnsTo(m)
    BY <1>1, <1>5, TypedApart
  <2>2. r \in W
    <3>1. r \in Carried(m)
      BY <2>1, ResultTyped
    <3>2. i \in DOMAIN msgs
      OBVIOUS
    <3> QED BY <1>5, <3>1, <3>2 DEF Wire
  <2>3. j \in BOOLEAN /\ (j => turns # <<>>)
    BY JoinsFilled
  <2>4. Reports(turns, result, msgs, i, m, msg)
    <3> HIDE DEF W, r
    <3> QED BY <1>2, <2>1, <2>2, <2>3, ReturnAdds DEF r
  <2>5. PICK pics \in Seq(PicturesFor(m)) : result = joined \o pics /\ (m.api # "google" => pics = <<>>)
    BY <2>4 DEF Reports
  <2>6. joined \in Seq(TurnsIn(Roles, W)) /\ joined # <<>> /\ Last(joined).role = "results"
    <3> HIDE DEF j, r, W
    <3> QED BY <1>2, <2>2, <2>3, JoinTyped, JoinedLast
  <2>7. PicturesFor(m) \subseteq TurnsIn(Roles, W)
    <3> DEFINE I == {p \in Carried(m) : p.kind = "image"}
    <3>1. {"pictures"} \subseteq Roles /\ I \subseteq W
      BY DEF Roles, Wire
    <3> HIDE DEF W, I
    <3>2. TurnsIn({"pictures"}, I) \subseteq TurnsIn(Roles, W)
      BY <3>1, TurnsWidened
    <3> QED BY <3>2 DEF PicturesFor, I
  <2> DEFINE A == PicturesFor(m)
             B == TurnsIn(Roles, W)
  <2>8. joined \in Seq(B) /\ pics \in Seq(A) /\ A \subseteq B
    BY <2>5, <2>6, <2>7
  <2> HIDE DEF A, B, joined, result
  <2>9. result \in Seq(B) /\ result # <<>>
    <3>1. joined \o pics \in Seq(B)
      BY <2>8, ConcatTyped
    <3>2. pics \in Seq(B)
      BY <2>8, Widened
    <3>3. joined \o pics # <<>>
      BY <2>6, <2>8, <3>2
    <3> QED BY <2>5, <3>1, <3>3
  <2>10. m.api # "google" => result = joined
    BY <2>5, <2>8
  <2> QED BY <2>6, <2>9, <2>10 DEF Built, B, result
<1> QED BY <1>4, <1>5

\* ConvertMessages, message by message.
Converts(f, m, msgs) ==
  /\ f[0] = <<>>
  /\ \A i \in 1..Len(msgs) : f[i] = AddMessage(f[i - 1], msgs, i, m)
  /\ \A i \in 0..Len(msgs) : Built(f[i], m, msgs, i)

\* ConvertMessages is the last of the turns so built.
LEMMA Folded ==
  ASSUME NEW m \in Models, NEW msgs \in Seq(MessagesTo(m)), msgs = TransformHistory(history, m)
  PROVE  \E f : Converts(f, m, msgs) /\ ConvertMessages(history, m) = f[Len(msgs)]
<1> DEFINE n == Len(msgs)
           S == Seq(TurnsIn(Roles, Wire(m, msgs)))
           Add(t, i) == AddMessage(t, msgs, i, m)
           G == [p \in Nat \X S |-> IF Add(p[2], p[1] + 1) \in S THEN Add(p[2], p[1] + 1) ELSE <<>>]
           Solves(f) == f = [i \in 0..n |-> IF i = 0 THEN <<>> ELSE Add(f[i - 1], i)]
           c == CHOOSE f : Solves(f)
<1>1. n \in Nat /\ <<>> \in S
  OBVIOUS
<1>2. ConvertMessages(history, m) = c[n]
  BY DEF ConvertMessages
<1>3. Steps(G, S)
  <2> HIDE DEF S, Add
  <2> QED BY <1>1 DEF Steps
<1>4. PICK g : Iterates(g, S, <<>>, G)
  <2> HIDE DEF G, S
  <2> QED BY <1>1, <1>3, RecursiveFunction
<1>5. /\ g \in [Nat -> S] /\ g[0] = <<>>
      /\ \A k \in Nat : Add(g[k], k + 1) \in S => g[k + 1] = Add(g[k], k + 1)
  <2> HIDE DEF S, Add
  <2> QED BY <1>4 DEF Iterates
<1> HIDE DEF G
<1> DEFINE T == {k \in Nat : k <= n => Built(g[k], m, msgs, k)}
<1>6. 0 \in T
  BY <1>1, <1>5 DEF Built
<1>7. ASSUME NEW k \in Nat, k <= n => Built(g[k], m, msgs, k), k + 1 <= n
      PROVE  Built(g[k + 1], m, msgs, k + 1) /\ g[k + 1] = Add(g[k], k + 1)
  <2> DEFINE i == k + 1
  <2>1. i \in 1..n /\ i - 1 = k
    BY <1>1, <1>7
  <2>2. Built(g[i - 1], m, msgs, i - 1)
    BY <1>1, <1>7, <2>1
  <2> HIDE DEF i
  <2>3. Built(AddMessage(g[i - 1], msgs, i, m), m, msgs, i)
    BY <2>1, <2>2, BuiltOn
  <2>4. AddMessage(g[i - 1], msgs, i, m) \in S
    BY <2>3 DEF Built
  <2>5. AddMessage(g[k], msgs, i, m) \in S
    BY <2>1, <2>4
  <2>6. g[i] = AddMessage(g[k], msgs, i, m)
    BY <1>5, <2>5 DEF i
  <2> QED BY <2>1, <2>3, <2>6 DEF i
<1>8. \A k \in Nat : k \in T => k + 1 \in T
  BY <1>1, <1>7
<1>9. Nat \subseteq T
  <2> HIDE DEF T
  <2> QED BY <1>6, <1>8, NatInductionSet
<1>10. \A i \in 0..n : Built(g[i], m, msgs, i)
  BY <1>1, <1>9
<1>11. ASSUME NEW i \in 1..n PROVE g[i] = Add(g[i - 1], i)
  <2>1. i - 1 \in Nat /\ (i - 1) + 1 = i /\ i - 1 \in 0..n
    BY <1>1
  <2> HIDE DEF Add
  <2> QED BY <1>7, <1>10, <2>1
<1>12. Solves([i \in 0..n |-> g[i]])
  <2> DEFINE h == [i \in 0..n |-> g[i]]
  <2>1. \A i \in 0..n : h[i] = IF i = 0 THEN <<>> ELSE Add(h[i - 1], i)
    <3>1. \A i \in 0..n : i # 0 => i \in 1..n /\ i - 1 \in 0..n
      BY <1>1
    <3> HIDE DEF Add
    <3> QED BY <1>5, <1>11, <3>1
  <2>2. h = [i \in 0..n |-> h[i]]
    OBVIOUS
  <2> HIDE DEF h, Add
  <2>3. Solves(h)
    BY <2>1, <2>2
  <2> QED BY <2>3 DEF h
<1>13. Solves(c)
  <2> HIDE DEF Solves
  <2> QED BY <1>12
<1> HIDE DEF c
<1> DEFINE U == {k \in Nat : k <= n => c[k] = g[k]}
<1>14. \A i \in 0..n : c[i] = IF i = 0 THEN <<>> ELSE Add(c[i - 1], i)
  <2> HIDE DEF Add
  <2> QED BY <1>13
<1>15. 0 \in U
  BY <1>1, <1>5, <1>14
<1>16. ASSUME NEW k \in Nat, k \in U PROVE k + 1 \in U
  <2> SUFFICES ASSUME k + 1 <= n PROVE c[k + 1] = g[k + 1]
    OBVIOUS
  <2> DEFINE i == k + 1
  <2>1. i \in 1..n /\ i \in 0..n /\ i - 1 = k /\ i # 0 /\ k <= n
    BY <1>1
  <2>2. c[k] = g[k]
    BY <1>16, <2>1
  <2> HIDE DEF i, Add
  <2>3. c[i] = Add(c[i - 1], i) /\ g[i] = Add(g[i - 1], i)
    BY <1>11, <1>14, <2>1
  <2> QED BY <2>1, <2>2, <2>3 DEF i
<1>17. Nat \subseteq U
  <2> HIDE DEF U
  <2> QED BY <1>15, <1>16, NatInductionSet
<1>18. c[n] = g[n]
  BY <1>1, <1>17
<1>19. Converts(g, m, msgs)
  BY <1>5, <1>10, <1>11 DEF Converts
<1> QED BY <1>2, <1>18, <1>19

\* NothingForeign for any models and any history: no request carries a signature, an encrypted thought, a stored
\* item, a picture or a blank text that its model cannot take, nor a turn without content (convertMessages).
THEOREM NothingForeignHolds == ConversationSpec => []NothingForeign
<1>1. HistoryTyped => NothingForeign
  <2> SUFFICES ASSUME HistoryTyped, NEW model \in Models, NEW t \in DOMAIN ConvertMessages(history, model)
               PROVE  LET turn == ConvertMessages(history, model)[t]
                      IN  /\ turn.parts # <<>>
                          /\ \A i \in DOMAIN turn.parts :
                                LET part == turn.parts[i]
                                IN  /\ part.by \in {Nobody, model.name}
                                    /\ Pictures(part) => Sees(model)
                                    /\ part.kind = "redacted" => model.api = "anthropic"
                                    /\ model.api \in {"anthropic", "bedrock"} => ~part.blank
    BY DEF NothingForeign
  <2> DEFINE msgs == TransformHistory(history, model)
             turns == ConvertMessages(history, model)
             turn == turns[t]
             W == Wire(model, msgs)
  <2>1. msgs \in Seq(MessagesTo(model))
    BY HistoryTransformed
  <2>2. PICK f : Converts(f, model, msgs) /\ turns = f[Len(msgs)]
    <3> HIDE DEF turns
    <3> QED BY <2>1, Folded DEF turns
  <2>3. turns \in Seq(TurnsIn(Roles, W))
    <3>1. Len(msgs) \in 0..Len(msgs)
      BY <2>1
    <3> QED BY <2>2, <3>1 DEF Converts, Built
  <2>4. turn \in TurnsIn(Roles, W)
    <3> HIDE DEF W, turns
    <3>1. t \in DOMAIN turns
      BY DEF turns
    <3> QED BY <2>3, <3>1
  <2>5. turn.parts \in Seq(W) /\ turn.parts # <<>>
    <3> HIDE DEF W, turn
    <3> QED BY <2>4 DEF TurnsIn
  <2>6. \A i \in DOMAIN turn.parts : turn.parts[i] \in Carried(model)
    <3>1. \A i \in DOMAIN turn.parts : turn.parts[i] \in W
      <4> HIDE DEF W, turn
      <4> QED BY <2>5
    <3> QED BY <3>1 DEF Wire
  <2>7. ASSUME NEW part \in Carried(model)
        PROVE  /\ part.by \in {Nobody, model.name}
               /\ Pictures(part) => Sees(model)
               /\ part.kind = "redacted" => model.api = "anthropic"
               /\ model.api \in {"anthropic", "bedrock"} => ~part.blank
    <3>1. part.blank \in Blanks(model)
      BY DEF Carried
    <3>2. CASE part \in Seen(model)
      BY <3>1, <3>2 DEF Seen, Shows, Blanks, Pictures
    <3>3. CASE part \in Says(model)
      BY <3>1, <3>3 DEF Says, Kinds, Names, Blanks, Pictures
    <3>4. CASE part \in Results(model)
      BY <3>1, <3>4 DEF Results, Blanks, Pictures
    <3> QED BY <3>2, <3>3, <3>4 DEF Carried
  <2> HIDE DEF turn
  <2> QED BY <2>5, <2>6, <2>7 DEF turn
<1> QED BY <1>1, InitTyped, NextTyped, PTL DEF ConversationSpec

-----------------------------------------------------------------------------
(* Every call has a number of its own, every result a call                 *)

\* The calls made have numbers up to their count, and no two the same.
CallNumbersInOrder == \A at \in CallsMade : CallAt(at).id.n \in 1..Cardinality(CallsMade)
CallNumbersUnique == \A a, b \in CallsMade : CallAt(a).id.n = CallAt(b).id.n => a = b

\* A model makes at most two calls at a time.
AtMostTwo == \A i \in DOMAIN history : DOMAIN Calls(history[i]) \subseteq 1..2

\* A tool returned for a call, made before, of an answer that did not fail; and it returned once.
ResultsHaveCalls ==
  \A j \in DOMAIN history : history[j].role = "toolResult" =>
     /\ history[j].real
     /\ \E at \in CallsMade : at[1] < j /\ ~Failed(history[at[1]]) /\ CallAt(at).id = history[j].id
ReturnedOnce ==
  \A j, k \in DOMAIN history :
     history[j].role = "toolResult" /\ history[k].role = "toolResult" /\ history[j].id = history[k].id => j = k

\* The inductive invariant of the conversation.
ConversationInv == HistoryTyped /\ CallNumbersInOrder /\ CallNumbersUnique /\ AtMostTwo
    /\ ResultsHaveCalls /\ ReturnedOnce

\* What Only keeps of an answer.
KeepsLastTwo(a, b, c, K) == a \notin K /\ b \in K /\ c \in K => Only(<<a, b, c>>, K) = <<b, c>>
KeepsNone(a, b, c, K) ==
  /\ a \notin K /\ b \notin K /\ c \notin K => Only(<<a, b, c>>, K) = <<>>
  /\ a \notin K => Only(<<a>>, K) = <<>>

\* Only, worked out on the answers a model gives.
LEMMA OnlyOfThree ==
  ASSUME NEW a, NEW b, NEW c, NEW K
  PROVE  KeepsLastTwo(a, b, c, K) /\ KeepsNone(a, b, c, K)
<1> DEFINE E == {a, b, c}
           Kept(x) == IF x \in K THEN <<x>> ELSE <<>>
<1>1. \A x \in E : Kept(x) \in Seq(E)
  <2> HIDE DEF E
  <2> QED BY Tuples
<1>e. a \in E /\ b \in E /\ c \in E
  OBVIOUS
<1> HIDE DEF E
<1>2. Only(<<a, b, c>>, K) = FlattenSeq(<<Kept(a), Kept(b), Kept(c)>>)
  <2> DEFINE s == <<a, b, c>>
             ss == [i \in DOMAIN s |-> IF s[i] \in K THEN <<s[i]>> ELSE <<>>]
  <2>1. DOMAIN s = 1..3 /\ s[1] = a /\ s[2] = b /\ s[3] = c
    OBVIOUS
  <2>2. ss = <<Kept(a), Kept(b), Kept(c)>>
    <3>1. DOMAIN ss = 1..3 /\ ss[1] = Kept(a) /\ ss[2] = Kept(b) /\ ss[3] = Kept(c) /\ ss = [i \in 1..3 |-> ss[i]]
      BY <2>1
    <3> HIDE DEF ss, Kept
    <3>2. \A i \in 1..3 : i = 1 \/ i = 2 \/ i = 3
      OBVIOUS
    <3> QED BY <3>1, <3>2
  <2> QED BY <2>2 DEF Only
<1>3. Only(<<a>>, K) = FlattenSeq(<<Kept(a)>>)
  <2> DEFINE s == <<a>>
             ss == [i \in DOMAIN s |-> IF s[i] \in K THEN <<s[i]>> ELSE <<>>]
  <2>1. DOMAIN s = 1..1 /\ s[1] = a
    OBVIOUS
  <2>2. ss = <<Kept(a)>>
    <3>1. DOMAIN ss = 1..1 /\ ss[1] = Kept(a) /\ ss = [i \in 1..1 |-> ss[i]]
      BY <2>1
    <3> HIDE DEF ss, Kept
    <3>2. \A i \in 1..1 : i = 1
      OBVIOUS
    <3> QED BY <3>1, <3>2
  <2> QED BY <2>2 DEF Only
<1>4. \A x, y, z \in Seq(E) : FlattenSeq(<<x, y, z>>) = x \o y \o z
  <2> SUFFICES ASSUME NEW x \in Seq(E), NEW y \in Seq(E),
          NEW z \in Seq(E) PROVE FlattenSeq(<<x, y, z>>) = x \o y \o z
    OBVIOUS
  <2> DEFINE ss == <<x, y, z>>
  <2>1. ss \in Seq(Seq(E)) /\ Len(ss) = 3 /\ ss[1] = x /\ ss[2] = y /\ ss[3] = z
    OBVIOUS
  <2> HIDE DEF ss
  <2>2. PICK f \in [0..Len(ss) -> Seq(E)] :
           f[0] = <<>> /\ FlattenSeq(ss) = f[Len(ss)] /\ \A i \in 1..Len(ss) : f[i] = f[i - 1] \o ss[i]
    BY <2>1, Flattened
  <2>n. 1 \in 1..Len(ss) /\ 2 \in 1..Len(ss) /\ 3 \in 1..Len(ss) /\ 1 - 1 = 0 /\ 2 - 1 = 1 /\ 3 - 1 = 2
    BY <2>1
  <2>3. f[1] = f[0] \o ss[1] /\ f[2] = f[1] \o ss[2] /\ f[3] = f[2] \o ss[3] /\ FlattenSeq(ss) = f[3]
    <3>1. f[1] = f[1 - 1] \o ss[1] /\ f[2] = f[2 - 1] \o ss[2] /\ f[3] = f[3 - 1] \o ss[3]
      BY <2>2, <2>n
    <3> QED BY <2>1, <2>2, <2>n, <3>1
  <2>4. f[1] = x
    <3>1. f[1] = <<>> \o x
      BY <2>1, <2>2, <2>3
    <3> QED BY <3>1
  <2> QED BY <2>1, <2>3, <2>4 DEF ss
<1>5. \A x \in Seq(E) : FlattenSeq(<<x>>) = x
  <2> SUFFICES ASSUME NEW x \in Seq(E) PROVE FlattenSeq(<<x>>) = x
    OBVIOUS
  <2> DEFINE ss == <<x>>
  <2>1. ss \in Seq(Seq(E)) /\ Len(ss) = 1 /\ ss[1] = x
    OBVIOUS
  <2> HIDE DEF ss
  <2>2. PICK f \in [0..Len(ss) -> Seq(E)] :
           f[0] = <<>> /\ FlattenSeq(ss) = f[Len(ss)] /\ \A i \in 1..Len(ss) : f[i] = f[i - 1] \o ss[i]
    BY <2>1, Flattened
  <2>n. 1 \in 1..Len(ss) /\ 1 - 1 = 0
    BY <2>1
  <2>3. FlattenSeq(ss) = <<>> \o x
    <3>1. f[1] = f[1 - 1] \o ss[1]
      BY <2>2, <2>n
    <3> QED BY <2>1, <2>2, <2>n, <3>1
  <2> QED BY <2>3 DEF ss
<1>6. <<>> \o <<b>> \o <<c>> = <<b, c>> /\ <<>> \o <<>> \o <<>> = <<>>
  <2>1. <<b>> \in Seq(E) /\ <<c>> \in Seq(E) /\ <<>> \in Seq(E)
    BY <1>e
  <2>2. \A s \in Seq(E) : <<>> \o s = s
    OBVIOUS
  <2>3. <<>> \o <<b>> = <<b>> /\ <<>> \o <<>> = <<>>
    BY <2>1, <2>2
  <2>4. <<b>> \o <<c>> = <<b, c>>
    <3> DEFINE s == <<b>> \o <<c>>
    <3>1. Len(s) = 2 /\ s[1] = b /\ s[2] = c /\ s \in Seq(E)
      BY <1>e
    <3> HIDE DEF s
    <3>2. s = [i \in 1..2 |-> s[i]]
      BY <3>1
    <3>3. \A i \in 1..2 : i = 1 \/ i = 2
      OBVIOUS
    <3>4. s = <<b, c>>
      BY <3>1, <3>2, <3>3
    <3> QED BY <3>4 DEF s
  <2> QED BY <2>3, <2>4
<1>7. ASSUME a \notin K, b \in K, c \in K PROVE Only(<<a, b, c>>, K) = <<b, c>>
  <2>1. Kept(a) = <<>> /\ Kept(b) = <<b>> /\ Kept(c) = <<c>>
    BY <1>7
  <2>2. Kept(a) \in Seq(E) /\ Kept(b) \in Seq(E) /\ Kept(c) \in Seq(E)
    BY <1>1, <1>e
  <2> HIDE DEF Kept
  <2>3. Only(<<a, b, c>>, K) = Kept(a) \o Kept(b) \o Kept(c)
    BY <1>2, <1>4, <2>2
  <2> QED BY <1>6, <2>1, <2>3
<1>8. ASSUME a \notin K, b \notin K, c \notin K PROVE Only(<<a, b, c>>, K) = <<>>
  <2>1. Kept(a) = <<>> /\ Kept(b) = <<>> /\ Kept(c) = <<>>
    BY <1>8
  <2>2. Kept(a) \in Seq(E) /\ Kept(b) \in Seq(E) /\ Kept(c) \in Seq(E)
    BY <1>1, <1>e
  <2> HIDE DEF Kept
  <2>3. Only(<<a, b, c>>, K) = Kept(a) \o Kept(b) \o Kept(c)
    BY <1>2, <1>4, <2>2
  <2> QED BY <1>6, <2>1, <2>3
<1>9. ASSUME a \notin K PROVE Only(<<a>>, K) = <<>>
  <2>1. Kept(a) = <<>>
    BY <1>9
  <2> HIDE DEF Kept
  <2> QED BY <1>1, <1>3, <1>5, <1>e, <2>1
<1> QED BY <1>7, <1>8, <1>9 DEF KeepsLastTwo, KeepsNone

\* An answer makes no call, or the next two.
LEMMA AnswersCall ==
  ASSUME HistoryTyped, NEW m \in Models, NEW parts \in Answers(m), NEW stop, NEW usage
  PROVE  LET calls == Calls(Assistant(m, stop, usage, parts))
         IN  \/ calls = <<>>
             \/ calls = <<MadeCall(m, Cardinality(CallsMade) + 1), MadeCall(m, Cardinality(CallsMade) + 2)>>
<1> DEFINE n == Cardinality(CallsMade) + 1
           signed == By(m, Signs(m))
           K == {p \in Range(parts) : p.kind = "call"}
<1>0. Calls(Assistant(m, stop, usage, parts)) = Only(parts, K)
  BY DEF Calls, Assistant
<1>1. \A k : MadeCall(m, k).kind = "call"
  BY DEF MadeCall, Call
<1>2. \A kind, b, by : Part(kind, b, by).kind = kind
  BY DEF Part
<1>3. \A E : \A a, b, c \in E : Range(<<a, b, c>>) = {a, b, c} /\ Range(<<a>>) = {a}
  BY DEF Range
<1>4. CASE parts = <<Part("thinking", FALSE, signed), Blank, Part("text", FALSE, By(m, SignsText(m)))>>
  <2> DEFINE a == Part("thinking", FALSE, signed)
             b == Blank
             c == Part("text", FALSE, By(m, SignsText(m)))
  <2>1. a.kind = "thinking" /\ b.kind = "text" /\ c.kind = "text"
    BY <1>2 DEF Blank
  <2>2. a \notin K /\ b \notin K /\ c \notin K
    BY <2>1
  <2> HIDE DEF a, b, c, K
  <2>3. Only(<<a, b, c>>, K) = <<>>
    BY <2>2, OnlyOfThree DEF KeepsNone
  <2>4. parts = <<a, b, c>>
    BY <1>4 DEF a, b, c
  <2> QED BY <1>0, <2>3, <2>4
<1>5. CASE parts = <<Part("thinking", TRUE, signed), MadeCall(m, n), MadeCall(m, n + 1)>>
  <2> DEFINE a == Part("thinking", TRUE, signed)
             b == MadeCall(m, n)
             c == MadeCall(m, n + 1)
  <2>1. a.kind = "thinking" /\ b.kind = "call" /\ c.kind = "call" /\ parts = <<a, b, c>>
    BY <1>1, <1>2, <1>5
  <2> HIDE DEF a, b, c
  <2>2. a \notin K /\ b \in K /\ c \in K
    <3>1. Range(parts) = {a, b, c}
      BY <2>1 DEF Range
    <3> QED BY <2>1, <3>1
  <2> HIDE DEF K
  <2>3. Only(<<a, b, c>>, K) = <<b, c>>
    BY <2>2, OnlyOfThree DEF KeepsLastTwo
  <2>4. (Cardinality(CallsMade) + 1) + 1 = Cardinality(CallsMade) + 2
    BY CallsMadeFacts
  <2> QED BY <1>0, <2>1, <2>3, <2>4 DEF b, c
<1>6. ASSUME NEW x, parts = <<x>>, x.kind # "call" PROVE Calls(Assistant(m, stop, usage, parts)) = <<>>
  <2>2. x \notin K
    BY <1>6
  <2> HIDE DEF K
  <2>3. Only(<<x>>, K) = <<>>
    BY <2>2, OnlyOfThree DEF KeepsNone
  <2> QED BY <1>0, <1>6, <2>3
<1>7. CASE parts = <<Part("redacted", FALSE, signed)>>
  <2> DEFINE x == Part("redacted", FALSE, signed)
  <2>1. x.kind # "call"
    BY DEF Part
  <2>2. parts = <<x>>
    BY <1>7
  <2> HIDE DEF x
  <2> QED BY <1>6, <2>1, <2>2
<1>8. CASE parts = <<Part("thinking", FALSE, Nobody)>>
  <2> DEFINE x == Part("thinking", FALSE, Nobody)
  <2>1. x.kind # "call"
    BY DEF Part
  <2>2. parts = <<x>>
    BY <1>8
  <2> HIDE DEF x
  <2> QED BY <1>6, <2>1, <2>2
<1>9. \/ parts = <<Part("thinking", FALSE, signed), Blank, Part("text", FALSE, By(m, SignsText(m)))>>
      \/ parts = <<Part("thinking", TRUE, signed), MadeCall(m, n), MadeCall(m, n + 1)>>
      \/ parts = <<Part("redacted", FALSE, signed)>>
      \/ parts = <<Part("thinking", FALSE, Nobody)>>
  BY DEF Answers
<1> HIDE DEF n, signed
<1> QED BY <1>4, <1>5, <1>7, <1>8, <1>9

\* What a message adds to the calls made.
LEMMA SaidCalls ==
  ASSUME HistoryTyped, NEW msg \in Messages, Say(msg)
  PROVE  /\ Len(history)' = Len(history) + 1
         /\ history'[Len(history) + 1] = msg
         /\ \A i \in DOMAIN history : i \in DOMAIN history' /\ history'[i] = history[i]
         /\ \A i \in DOMAIN history' : i \in DOMAIN history \/ i = Len(history) + 1
         /\ Len(history) + 1 \notin DOMAIN history
         /\ CallsMade' = CallsMade \cup {<<Len(history) + 1, k>> : k \in {k \in 1..2 : k \in DOMAIN Calls(msg)}}
         /\ \A at \in CallsMade : CallAt(at)' = CallAt(at)
<1> DEFINE n == Len(history) + 1
<1>1. history' = Append(history, msg) /\ history \in Seq(Messages)
  BY DEF HistoryTyped, Say
<1>2. /\ Len(history)' = Len(history) + 1 /\ history'[n] = msg /\ DOMAIN history' = 1..n
             /\ DOMAIN history = 1..Len(history)
      /\ Len(history) \in Nat /\ \A i \in DOMAIN history : history'[i] = history[i]
  BY <1>1
<1> HIDE DEF n
<1>3. n \in DOMAIN history' /\ n \notin DOMAIN history /\ DOMAIN history' = DOMAIN history \cup {n}
  BY <1>2 DEF n
<1>4. ASSUME NEW at \in CallsMade'
             PROVE at \in CallsMade \cup {<<n, k>> : k \in {k \in 1..2 : k \in DOMAIN Calls(msg)}}
  <2>1. at \in (DOMAIN history') \X (1..2) /\ at[2] \in DOMAIN Calls(history'[at[1]])
    BY DEF CallsMade
  <2>2. CASE at[1] = n
    <3>1. at = <<n, at[2]>> /\ at[2] \in 1..2 /\ at[2] \in DOMAIN Calls(msg)
      BY <1>2, <2>1, <2>2 DEF n
    <3> QED BY <3>1
  <2>3. CASE at[1] # n
    <3>1. at[1] \in DOMAIN history /\ history'[at[1]] = history[at[1]]
      BY <1>2, <1>3, <2>1, <2>3
    <3>2. at \in (DOMAIN history) \X (1..2)
      BY <2>1, <3>1
    <3> QED BY <2>1, <3>1, <3>2 DEF CallsMade
  <2> QED BY <2>2, <2>3
<1>5. ASSUME NEW at \in CallsMade PROVE at \in CallsMade' /\ CallAt(at)' = CallAt(at)
  <2>1. at \in (DOMAIN history) \X (1..2) /\ at[2] \in DOMAIN Calls(history[at[1]])
    BY DEF CallsMade
  <2>2. at[1] \in DOMAIN history /\ history'[at[1]] = history[at[1]] /\ at \in (DOMAIN history') \X (1..2)
    BY <1>2, <1>3, <2>1
  <2> QED BY <2>1, <2>2 DEF CallsMade, CallAt
<1>6. ASSUME NEW k \in 1..2, k \in DOMAIN Calls(msg) PROVE <<n, k>> \in CallsMade'
  <2>1. <<n, k>> \in (DOMAIN history') \X (1..2)
    BY <1>3
  <2>2. <<n, k>>[1] = n /\ <<n, k>>[2] = k
    OBVIOUS
  <2>3. history'[n] = msg
    BY <1>2 DEF n
  <2> QED BY <1>6, <2>1, <2>2, <2>3 DEF CallsMade
<1>7. CallsMade' = CallsMade \cup {<<n, k>> : k \in {k \in 1..2 : k \in DOMAIN Calls(msg)}}
  <2> DEFINE A == CallsMade
             B == {<<n, k>> : k \in {k \in 1..2 : k \in DOMAIN Calls(msg)}}
             D == CallsMade'
  <2>1. \A at \in D : at \in A \cup B
    BY <1>4
  <2>2. \A at \in A : at \in D
    BY <1>5
  <2>3. \A at \in B : at \in D
    BY <1>6
  <2> HIDE DEF A, B, D
  <2>4. D = A \cup B
    BY <2>1, <2>2, <2>3
  <2> QED BY <2>4 DEF A, B, D
<1> QED BY <1>2, <1>3, <1>5, <1>7 DEF n

\* What is known of the calls made.
CallsKept == CallNumbersInOrder /\ CallNumbersUnique /\ AtMostTwo

\* A message without calls leaves the calls as they are.
LEMMA QuietKept ==
  ASSUME HistoryTyped, CallsKept, NEW msg \in Messages, Say(msg), Calls(msg) = <<>>
  PROVE  CallsKept' /\ CallsMade' = CallsMade
<1>1. /\ \A i \in DOMAIN history : i \in DOMAIN history' /\ history'[i] = history[i]
      /\ \A i \in DOMAIN history' : i \in DOMAIN history \/ i = Len(history) + 1
      /\ history'[Len(history) + 1] = msg
      /\ \A at \in CallsMade : CallAt(at)' = CallAt(at)
  BY SaidCalls
<1>2. CallsMade' = CallsMade
  <2>1. {k \in 1..2 : k \in DOMAIN Calls(msg)} = {}
    <3>1. DOMAIN Calls(msg) = {}
      OBVIOUS
    <3> QED BY <3>1
  <2> DEFINE K == {k \in 1..2 : k \in DOMAIN Calls(msg)}
  <2>2. CallsMade' = CallsMade \cup {<<Len(history) + 1, k>> : k \in K}
    BY SaidCalls
  <2>3. K = {}
    BY <2>1
  <2> HIDE DEF K
  <2> QED BY <2>2, <2>3
<1>3. CallNumbersInOrder'
  BY <1>1, <1>2 DEF CallsKept, CallNumbersInOrder
<1>4. CallNumbersUnique'
  BY <1>1, <1>2 DEF CallsKept, CallNumbersUnique
<1>5. AtMostTwo'
  <2>1. DOMAIN Calls(msg) \subseteq 1..2
    OBVIOUS
  <2> QED BY <1>1, <2>1 DEF CallsKept, AtMostTwo
<1> QED BY <1>2, <1>3, <1>4, <1>5 DEF CallsKept

\* An answer with the next two calls keeps the numbers apart.
LEMMA TwoCallsKept ==
  ASSUME HistoryTyped, CallsKept, NEW msg \in Messages, Say(msg), NEW m \in Models,
         Calls(msg) = <<MadeCall(m, Cardinality(CallsMade) + 1), MadeCall(m, Cardinality(CallsMade) + 2)>>
  PROVE  CallsKept' /\ CallsMade \subseteq CallsMade'
<1> DEFINE N == Cardinality(CallsMade)
           n == Len(history) + 1
           a == <<n, 1>>
           b == <<n, 2>>
           calls == Calls(msg)
<1>1. /\ \A i \in DOMAIN history : i \in DOMAIN history' /\ history'[i] = history[i]
      /\ \A i \in DOMAIN history' : i \in DOMAIN history \/ i = n
      /\ history'[n] = msg /\ n \notin DOMAIN history
      /\ \A at \in CallsMade : CallAt(at)' = CallAt(at)
      /\ CallsMade' = CallsMade \cup {<<n, k>> : k \in {k \in 1..2 : k \in DOMAIN calls}}
  BY SaidCalls
<1>2. N \in Nat /\ IsFiniteSet(CallsMade) /\ \A at \in CallsMade : at[1] \in DOMAIN history
  BY CallsMadeFacts
<1>3. \A k : MadeCall(m, k).id.n = k
  BY DEF MadeCall, Call
<1>4. DOMAIN calls = 1..2 /\ calls[1].id.n = N + 1 /\ calls[2].id.n = N + 2
  <2> DEFINE x == MadeCall(m, N + 1)
             y == MadeCall(m, N + 2)
  <2>1. calls = <<x, y>> /\ x.id.n = N + 1 /\ y.id.n = N + 2
    BY <1>3
  <2> HIDE DEF x, y, calls, N
  <2> QED BY <2>1
<1> HIDE DEF calls, N
<1>5. CallsMade' = CallsMade \cup {a, b}
  <2>1. {k \in 1..2 : k \in DOMAIN calls} = {1, 2}
    BY <1>4
  <2> QED BY <1>1, <2>1
<1>6. a[1] = n /\ b[1] = n /\ a[2] = 1 /\ b[2] = 2 /\ a # b
  OBVIOUS
<1>7. a \notin CallsMade /\ b \notin CallsMade
  BY <1>1, <1>2, <1>6
<1> DEFINE num == [x \in CallsMade' |-> Calls(history'[x[1]])[x[2]].id.n]
<1>8. /\ num[a] = N + 1 /\ num[b] = N + 2
      /\ \A x \in CallsMade' : num[x] = CallAt(x)'.id.n
  <2>1. \A x : CallAt(x)' = Calls(history'[x[1]])[x[2]]
    BY DEF CallAt
  <2>2. a \in CallsMade' /\ b \in CallsMade'
    BY <1>5
  <2>3. num[a] = Calls(history'[n])[1].id.n /\ num[b] = Calls(history'[n])[2].id.n
    BY <1>6, <2>2
  <2>4. Calls(history'[n]) = calls
    BY <1>1 DEF calls
  <2> QED BY <1>4, <2>1, <2>3, <2>4
<1> HIDE DEF a, b, n, num
<1>9. Cardinality(CallsMade') = N + 2
  <2>1. IsFiniteSet(CallsMade \cup {a}) /\ Cardinality(CallsMade \cup {a}) = N + 1
    BY <1>2, <1>7, FS_AddElement DEF N
  <2>2. b \notin CallsMade \cup {a}
    BY <1>6, <1>7
  <2>3. Cardinality((CallsMade \cup {a}) \cup {b}) = Cardinality(CallsMade \cup {a}) + 1
    BY <2>1, <2>2, FS_AddElement
  <2>4. (CallsMade \cup {a}) \cup {b} = CallsMade \cup {a, b}
    OBVIOUS
  <2> QED BY <1>2, <1>5, <2>1, <2>3, <2>4
<1>10. \A x \in CallsMade : num[x] \in 1..N /\ num[x] = CallAt(x).id.n
  <2>1. \A x \in CallsMade : CallAt(x).id.n \in 1..N
    BY DEF CallsKept, CallNumbersInOrder, N
  <2>2. ASSUME NEW x \in CallsMade PROVE num[x] = CallAt(x).id.n
    <3>1. x \in CallsMade'
      BY <1>5
    <3> QED BY <1>1, <1>8, <3>1
  <2> QED BY <2>1, <2>2
<1>11. CallNumbersInOrder'
  <2>1. ASSUME NEW x \in CallsMade' PROVE num[x] \in 1..(N + 2)
    BY <1>2, <1>5, <1>8, <1>10
  <2> QED BY <1>8, <1>9, <2>1 DEF CallNumbersInOrder
<1>12. CallNumbersUnique'
  <2>1. ASSUME NEW x \in CallsMade', NEW y \in CallsMade', num[x] = num[y] PROVE x = y
    <3>1. CASE x \in CallsMade /\ y \in CallsMade
      BY <1>10, <2>1, <3>1 DEF CallsKept, CallNumbersUnique
    <3>2. CASE x \notin CallsMade \/ y \notin CallsMade
      BY <1>2, <1>5, <1>8, <1>10, <2>1, <3>2
    <3> QED BY <3>1, <3>2
  <2> QED BY <1>8, <2>1 DEF CallNumbersUnique
<1>13. AtMostTwo'
  BY <1>1, <1>4 DEF CallsKept, AtMostTwo, calls
<1> QED BY <1>5, <1>11, <1>12, <1>13 DEF CallsKept

\* What is known of the results.
ResultsKept == ResultsHaveCalls /\ ReturnedOnce

\* A message that is no result leaves the results as they are.
LEMMA ResultsStay ==
  ASSUME HistoryTyped, ResultsKept,
         NEW msg \in Messages, Say(msg), msg.role # "toolResult", CallsMade \subseteq CallsMade'
  PROVE  ResultsKept'
<1> DEFINE n == Len(history) + 1
<1>1. /\ \A i \in DOMAIN history : i \in DOMAIN history' /\ history'[i] = history[i]
      /\ \A i \in DOMAIN history' : i \in DOMAIN history \/ i = n
      /\ history'[n] = msg
      /\ \A at \in CallsMade : CallAt(at)' = CallAt(at)
  BY SaidCalls
<1>2. \A at \in CallsMade : at[1] \in DOMAIN history
  BY CallsMadeFacts
<1> HIDE DEF n
<1>3. ResultsHaveCalls'
  <2>1. ASSUME NEW j \in DOMAIN history', history'[j].role = "toolResult"
        PROVE  /\ history'[j].real
               /\ \E at \in CallsMade' : at[1] < j /\ ~Failed(history'[at[1]]) /\ CallAt(at)'.id = history'[j].id
    <3>1. j \in DOMAIN history /\ history'[j] = history[j]
      BY <1>1, <2>1
    <3>2. history[j].real /\ \E at \in CallsMade : at[1] < j /\ ~Failed(history[at[1]])
              /\ CallAt(at).id = history[j].id
      BY <2>1, <3>1 DEF ResultsKept, ResultsHaveCalls
    <3>3. PICK at \in CallsMade : at[1] < j /\ ~Failed(history[at[1]]) /\ CallAt(at).id = history[j].id
      BY <3>2
    <3>4. at \in CallsMade' /\ history'[at[1]] = history[at[1]] /\ CallAt(at)' = CallAt(at)
      BY <1>1, <1>2
    <3> QED BY <3>1, <3>2, <3>3, <3>4
  <2> QED BY <2>1 DEF ResultsHaveCalls
<1>4. ReturnedOnce'
  <2>1. ASSUME NEW j \in DOMAIN history', NEW k \in DOMAIN history', history'[j].role = "toolResult",
               history'[k].role = "toolResult", history'[j].id = history'[k].id
        PROVE  j = k
    BY <1>1, <2>1 DEF ResultsKept, ReturnedOnce
  <2> QED BY <2>1 DEF ReturnedOnce
<1> QED BY <1>3, <1>4 DEF ResultsKept

\* A tool that has not returned yet returns for a call that was made.
LEMMA ResultAdded ==
  ASSUME HistoryTyped, ResultsKept, NEW at \in CallsMade, NEW msg \in Messages, Say(msg), msg.role = "toolResult",
         msg.real, msg.id = CallAt(at).id, ~Failed(history[at[1]]), ~Returned(msg.id), CallsMade' = CallsMade
  PROVE  ResultsKept'
<1> DEFINE n == Len(history) + 1
<1>1. /\ \A i \in DOMAIN history : i \in DOMAIN history' /\ history'[i] = history[i]
      /\ \A i \in DOMAIN history' : i \in DOMAIN history \/ i = n
      /\ history'[n] = msg /\ n \notin DOMAIN history
      /\ \A x \in CallsMade : CallAt(x)' = CallAt(x)
  BY SaidCalls
<1>2. \A x \in CallsMade : x[1] \in DOMAIN history /\ x[1] < n
  <2>1. DOMAIN history = 1..Len(history) /\ Len(history) \in Nat
    BY DEF HistoryTyped
  <2> QED BY <2>1, CallsMadeFacts
<1> HIDE DEF n
<1>3. ResultsHaveCalls'
  <2>1. ASSUME NEW j \in DOMAIN history', history'[j].role = "toolResult"
        PROVE  /\ history'[j].real
               /\ \E x \in CallsMade' : x[1] < j /\ ~Failed(history'[x[1]]) /\ CallAt(x)'.id = history'[j].id
    <3>1. CASE j \in DOMAIN history
      <4>1. history'[j] = history[j]
        BY <1>1, <3>1
      <4>2. history[j].real /\ \E x \in CallsMade : x[1] < j /\ ~Failed(history[x[1]])
                /\ CallAt(x).id = history[j].id
        BY <2>1, <3>1, <4>1 DEF ResultsKept, ResultsHaveCalls
      <4>3. PICK x \in CallsMade : x[1] < j /\ ~Failed(history[x[1]]) /\ CallAt(x).id = history[j].id
        BY <4>2
      <4>4. x \in CallsMade' /\ history'[x[1]] = history[x[1]] /\ CallAt(x)' = CallAt(x)
        BY <1>1, <1>2
      <4> QED BY <4>1, <4>2, <4>3, <4>4
    <3>2. CASE j = n
      <4>1. at[1] < j /\ history'[at[1]] = history[at[1]] /\ CallAt(at)' = CallAt(at) /\ at \in CallsMade'
        BY <1>1, <1>2, <3>2
      <4>2. history'[j] = msg
        BY <1>1, <3>2
      <4> QED BY <4>1, <4>2
    <3> QED BY <1>1, <3>1, <3>2
  <2> QED BY <2>1 DEF ResultsHaveCalls
<1>4. ReturnedOnce'
  <2>1. ASSUME NEW j \in DOMAIN history', NEW k \in DOMAIN history', history'[j].role = "toolResult",
               history'[k].role = "toolResult", history'[j].id = history'[k].id
        PROVE  j = k
    <3>1. CASE j \in DOMAIN history /\ k \in DOMAIN history
      BY <1>1, <2>1, <3>1 DEF ResultsKept, ReturnedOnce
    <3>2. CASE j = n /\ k \in DOMAIN history
      BY <1>1, <2>1, <3>2 DEF Returned
    <3>3. CASE j \in DOMAIN history /\ k = n
      BY <1>1, <2>1, <3>3 DEF Returned
    <3> QED BY <1>1, <3>1, <3>2, <3>3
  <2> QED BY <2>1 DEF ReturnedOnce
<1> QED BY <1>3, <1>4 DEF ResultsKept

\* At first nobody has called a tool.
LEMMA InitInv == ConversationInit => ConversationInv
<1> SUFFICES ASSUME ConversationInit PROVE ConversationInv
  OBVIOUS
<1>1. history = <<User(<<Image, Image, Text>>)>> /\ HistoryTyped
  BY InitTyped DEF ConversationInit
<1>2. DOMAIN history = {1} /\ history[1].role = "user"
  <2> DEFINE msg == User(<<Image, Image, Text>>)
  <2>1. msg.role = "user"
    BY DEF User
  <2> HIDE DEF msg
  <2>2. history = <<msg>>
    BY <1>1 DEF msg
  <2> QED BY <2>1, <2>2
<1>3. Calls(history[1]) = <<>> /\ DOMAIN Calls(history[1]) = {}
  BY <1>2 DEF Calls
<1>4. CallsMade = {}
  BY <1>2, <1>3 DEF CallsMade
<1> QED BY <1>1, <1>2, <1>3, <1>4 DEF ConversationInv, CallNumbersInOrder, CallNumbersUnique, AtMostTwo,
        ResultsHaveCalls, ReturnedOnce

\* Whoever speaks, the invariant stays true.
LEMMA NextInv == ASSUME ConversationInv, [ConversationNext]_history PROVE ConversationInv'
<1>0. HistoryTyped /\ CallsKept /\ ResultsKept /\ HistoryTyped'
  BY NextTyped DEF ConversationInv, CallsKept, ResultsKept
<1> SUFFICES CallsKept' /\ ResultsKept'
  BY <1>0 DEF ConversationInv, CallsKept, ResultsKept
<1>1. CASE UserSays
  <2>1. PICK parts \in Prompts : Say(User(parts))
    BY <1>1 DEF UserSays
  <2>2. parts \in Seq(Shows) \ {<<>>}
    BY Texts, Tuples DEF Prompts
  <2>3. User(parts) \in Messages /\ User(parts).role = "user" /\ Calls(User(parts)) = <<>>
    BY <2>2 DEF User, Messages, Spoken, Calls
  <2> QED BY <1>0, <2>1, <2>3, QuietKept, ResultsStay
<1>2. CASE ModelAnswers
  <2>0. PICK m \in Speakers : \E parts \in Answers(m) :
           \/ Say(Assistant(m, "ok", m.usage, parts))
           \/ Say(Assistant(m, "failed", 0, parts))
    BY <1>2 DEF ModelAnswers
  <2>1. PICK parts \in Answers(m) :
           \/ Say(Assistant(m, "ok", m.usage, parts))
           \/ Say(Assistant(m, "failed", 0, parts))
    BY <2>0
  <2>2. m \in Models /\ m.usage \in Nat
    BY ConversationAssumption
  <2>3. parts \in Seq(Says(m))
    BY <1>0, <2>2, MadeAnswers
  <2>4. PICK msg \in {Assistant(m, "ok", m.usage, parts), Assistant(m, "failed", 0, parts)} : Say(msg)
    BY <2>1
  <2>5. msg \in Messages /\ msg.role = "assistant"
    <3>1. Assistant(m, "ok", m.usage, parts) \in AnswersOf(m) /\ Assistant(m, "failed", 0, parts) \in AnswersOf(m)
      BY <2>2, <2>3 DEF Assistant, AnswersOf
    <3> QED BY <2>2, <3>1 DEF Messages, AnswersOf
  <2>6. \/ Calls(msg) = <<>>
        \/ Calls(msg) = <<MadeCall(m, Cardinality(CallsMade) + 1), MadeCall(m, Cardinality(CallsMade) + 2)>>
    BY <1>0, <2>2, AnswersCall
  <2>7. CASE Calls(msg) = <<>>
    BY <1>0, <2>4, <2>5, <2>7, QuietKept, ResultsStay
  <2>8. CASE Calls(msg) = <<MadeCall(m, Cardinality(CallsMade) + 1), MadeCall(m, Cardinality(CallsMade) + 2)>>
    <3>1. CallsKept' /\ CallsMade \subseteq CallsMade'
      BY <1>0, <2>2, <2>4, <2>5, <2>8, TwoCallsKept
    <3> QED BY <1>0, <2>4, <2>5, <3>1, ResultsStay
  <2> QED BY <2>6, <2>7, <2>8
<1>3. CASE ToolReturns
  <2>1. PICK at \in CallsMade : /\ ~Failed(history[at[1]]) /\ ~Returned(CallAt(at).id)
                                /\ Say(ToolResult(CallAt(at).id, Output(CallAt(at).id), TRUE))
    BY <1>3 DEF ToolReturns
  <2> DEFINE msg == ToolResult(CallAt(at).id, Output(CallAt(at).id), TRUE)
  <2>2. CallAt(at).id \in IDs
    BY <1>0, CallsMadeFacts
  <2>3. Output(CallAt(at).id) \in Seq(Shows)
    BY Texts DEF Output
  <2>4. msg \in Messages
    BY <2>2, <2>3 DEF ToolResult, Messages, Returns
  <2>5. msg.role = "toolResult" /\ msg.real /\ msg.id = CallAt(at).id /\ Calls(msg) = <<>>
    BY DEF ToolResult, Calls
  <2> HIDE DEF msg
  <2>6. Say(msg) /\ ~Returned(msg.id)
    BY <2>1, <2>5 DEF msg
  <2>7. CallsKept' /\ CallsMade' = CallsMade
    BY <1>0, <2>4, <2>5, <2>6, QuietKept
  <2>8. ResultsKept'
    BY <1>0, <2>1, <2>4, <2>5, <2>6, <2>7, ResultAdded
  <2> QED BY <2>7, <2>8
<1>4. CASE UNCHANGED history
  <2>1. CallsMade' = CallsMade /\ \A at : CallAt(at)' = CallAt(at)
    BY <1>4 DEF CallsMade, CallAt
  <2> QED BY <1>0, <1>4, <2>1 DEF CallsKept, ResultsKept, CallNumbersInOrder, CallNumbersUnique, AtMostTwo,
                                   ResultsHaveCalls, ReturnedOnce
<1> QED BY <1>1, <1>2, <1>3, <1>4 DEF ConversationNext

-----------------------------------------------------------------------------
(* The calls and results of a history that is ready for replay             *)

\* A sequence flattened element by element stays what it is.
LEMMA FlattenSingles ==
  ASSUME NEW E, NEW s \in Seq(E)
  PROVE  FlattenSeq([i \in 1..Len(s) |-> <<s[i]>>]) = s
<1> DEFINE ss == [i \in 1..Len(s) |-> <<s[i]>>]
<1>1. Len(s) \in Nat /\ DOMAIN s = 1..Len(s) /\ \A i \in 1..Len(s) : s[i] \in E /\ ss[i] = <<s[i]>>
  OBVIOUS
<1>2. ss \in Seq(Seq(E)) /\ Len(ss) = Len(s)
  <2>1. ss = [i \in 1..Len(s) |-> ss[i]] /\ \A i \in 1..Len(s) : ss[i] \in Seq(E)
    BY <1>1, Tuples
  <2> HIDE DEF ss
  <2> QED BY <1>1, <2>1, Listed
<1> HIDE DEF ss
<1>3. PICK f \in [0..Len(ss) -> Seq(E)] :
         /\ f[0] = <<>> /\ FlattenSeq(ss) = f[Len(ss)]
         /\ \A i \in 1..Len(ss) : f[i] = f[i - 1] \o ss[i]
  BY <1>2, Flattened
<1> DEFINE Holds(n) == Len(f[n]) = n /\ \A i \in 1..n : f[n][i] = s[i]
           A == {n \in Nat : n <= Len(s) => Holds(n)}
<1>4. 0 \in A
  BY <1>3
<1>5. ASSUME NEW n \in Nat, n \in A PROVE n + 1 \in A
  <2> SUFFICES ASSUME n + 1 <= Len(s) PROVE Holds(n + 1)
    OBVIOUS
  <2> DEFINE a == f[n]
             b == f[n + 1]
             x == s[n + 1]
  <2>1. n + 1 \in 1..Len(ss) /\ (n + 1) - 1 = n /\ n \in 0..Len(ss) /\ n + 1 \in 1..Len(s)
    BY <1>1, <1>2
  <2>2. Len(a) = n /\ \A i \in 1..n : a[i] = s[i]
    BY <1>1, <1>5
  <2>3. a \in Seq(E) /\ x \in E /\ b = a \o <<x>>
    BY <1>1, <1>3, <2>1
  <2> HIDE DEF a, b, x
  <2>4. Len(b) = n + 1 /\ b[n + 1] = x /\ \A i \in 1..n : b[i] = a[i]
    BY <2>2, <2>3
  <2>5. \A i \in 1..(n + 1) : b[i] = s[i]
    <3>1. \A i \in 1..(n + 1) : i \in 1..n \/ i = n + 1
      OBVIOUS
    <3> QED BY <2>2, <2>4, <3>1 DEF x
  <2> QED BY <2>4, <2>5 DEF b
<1>6. Nat \subseteq A
  <2> HIDE DEF A
  <2> QED BY <1>4, <1>5, NatInductionSet
<1>7. Holds(Len(s))
  BY <1>1, <1>6
<1>8. f[Len(s)] \in Seq(E) /\ FlattenSeq(ss) = f[Len(s)]
  BY <1>1, <1>2, <1>3
<1> DEFINE g == f[Len(s)]
<1>9. g \in Seq(E) /\ Len(g) = Len(s) /\ \A i \in 1..Len(s) : g[i] = s[i]
  BY <1>7, <1>8
<1> HIDE DEF g
<1>10. g = s
  BY <1>1, <1>9
<1> QED BY <1>8, <1>10 DEF g, ss

\* The history, message by message, made ready for m, before flush.
Transformed(m) == FlattenSeq([i \in DOMAIN history |-> <<TransformOne(history, i, m)>>])

\* TransformMessages keeps the messages in their places.
LEMMA TransformedEach ==
  ASSUME HistoryTyped, NEW m \in Models
  PROVE  /\ Transformed(m) \in Seq(MessagesTo(m)) /\ Len(Transformed(m)) = Len(history)
         /\ \A i \in DOMAIN history : Transformed(m)[i] = TransformOne(history, i, m)
<1> DEFINE s == [i \in 1..Len(history) |-> TransformOne(history, i, m)]
           ss == [i \in 1..Len(history) |-> <<s[i]>>]
<1>1. DOMAIN history = 1..Len(history) /\ Len(history) \in Nat
  BY DEF HistoryTyped
<1>2. s \in Seq(MessagesTo(m)) /\ Len(s) = Len(history)
  <2>1. \A i \in 1..Len(history) : s[i] \in MessagesTo(m)
    BY <1>1, OneTransformed
  <2>2. s = [i \in 1..Len(history) |-> s[i]]
    OBVIOUS
  <2> HIDE DEF s
  <2> QED BY <1>1, <2>1, <2>2, Listed
<1>3. Transformed(m) = FlattenSeq(ss)
  <2>1. [i \in DOMAIN history |-> <<TransformOne(history, i, m)>>] = ss
    BY <1>1
  <2> QED BY <2>1 DEF Transformed
<1>4. \A i \in DOMAIN history : s[i] = TransformOne(history, i, m)
  BY <1>1
<1> HIDE DEF s
<1>5. FlattenSeq(ss) = s
  <2>1. ss = [i \in 1..Len(s) |-> <<s[i]>>]
    BY <1>2
  <2> QED BY <1>2, <2>1, FlattenSingles
<1> QED BY <1>2, <1>3, <1>4, <1>5

\* The calls of an answer are its parts of that kind.
LEMMA CallsAreParts ==
  ASSUME NEW E, NEW msg, msg.role = "assistant", msg.parts \in Seq(E)
  PROVE  /\ \A c \in Range(Calls(msg)) : c \in Range(msg.parts) /\ c.kind = "call"
         /\ \A c \in Range(msg.parts) : c.kind = "call" => c \in Range(Calls(msg))
<1> DEFINE s == msg.parts
           K == {p \in Range(s) : p.kind = "call"}
           o == Only(s, K)
<1>1. Calls(msg) = o
  BY DEF Calls
<1>2. s \in Seq(E)
  OBVIOUS
<1>3. \A c \in K : c \in Range(s) /\ c.kind = "call"
  OBVIOUS
<1>4. \A c \in Range(s) : c.kind = "call" => c \in K
  OBVIOUS
<1> HIDE DEF s, K
<1>5. /\ \A i \in DOMAIN s : s[i] \in K => \E k \in DOMAIN o : o[k] = s[i]
      /\ \A k \in DOMAIN o : \E i \in DOMAIN s : s[i] \in K /\ o[k] = s[i]
  BY <1>2, OnlyFinds
<1> HIDE DEF o
<1>6. ASSUME NEW c \in Range(o) PROVE c \in K
  <2>1. PICK k \in DOMAIN o : o[k] = c
    BY DEF Range
  <2> QED BY <1>5, <2>1
<1>7. ASSUME NEW c \in Range(s), c \in K PROVE c \in Range(o)
  <2>1. PICK i \in DOMAIN s : s[i] = c
    BY DEF Range
  <2>2. PICK k \in DOMAIN o : o[k] = s[i]
    BY <1>5, <1>7, <2>1
  <2> QED BY <2>1, <2>2 DEF Range
<1> QED BY <1>1, <1>3, <1>4, <1>6, <1>7 DEF s

\* The id of a call of source in a request for m.
Mapped(id, source, m) == IF source = m THEN id ELSE NormalizeToolCallID(id, m, source)

\* The normalizers change the form of an id, never its number.
LEMMA MappedNumbers ==
  ASSUME NEW m \in Models, NEW id \in IDs, NEW source
  PROVE  Mapped(id, source, m) \in IDs /\ Mapped(id, source, m).n = id.n
<1>1. m.api \in Apis
  BY ConversationAssumption
<1>2. \A form : [id EXCEPT !.form = form].n = id.n
  BY DEF IDs
<1>3. Sanitized(id).n = id.n /\ CompletionsID(id).n = id.n /\ MistralID(id).n = id.n
  BY <1>2 DEF Sanitized, CompletionsID, MistralID
<1>4. GoogleID(id, m).n = id.n /\ NormalizePair(id, m, source).n = id.n
  BY <1>2, <1>3 DEF GoogleID, NormalizePair
<1>5. NormalizeToolCallID(id, m, source).n = id.n
  BY <1>1, <1>3, <1>4 DEF NormalizeToolCallID, Apis
<1> QED BY <1>5, NormalizedIDs DEF Mapped

\* A part that is a call after the transformation was that call before.
LEMMA BlockCalls ==
  ASSUME NEW m \in Models, NEW source \in Models, NEW b \in Says(source),
         NEW j \in DOMAIN TransformBlock(b, m, source), TransformBlock(b, m, source)[j].kind = "call"
  PROVE  b.kind = "call" /\ TransformBlock(b, m, source)[j].id = Mapped(b.id, source, m)
<1>1. b.kind \in {"redacted", "thinking", "text", "call"}
  BY DEF Says, Kinds
<1>2. CASE b.kind = "redacted"
  BY <1>2 DEF TransformBlock
<1>3. CASE b.kind = "thinking"
  BY <1>3 DEF TransformBlock, Text, Part
<1>4. CASE b.kind = "text"
  <2>1. TransformBlock(b, m, source) = <<IF source = m THEN b ELSE [b EXCEPT !.by = Nobody]>>
    BY <1>4 DEF TransformBlock
  <2>2. [b EXCEPT !.by = Nobody].kind = "text"
    BY <1>4 DEF Says, Kinds
  <2> DEFINE x == IF source = m THEN b ELSE [b EXCEPT !.by = Nobody]
  <2>3. x.kind = "text"
    BY <1>4, <2>2
  <2> HIDE DEF x
  <2>4. TransformBlock(b, m, source) = <<x>>
    BY <2>1 DEF x
  <2> QED BY <2>3, <2>4
<1>5. CASE b.kind = "call"
  <2>1. TransformBlock(b, m, source) = <<IF source = m
            THEN b ELSE Call(NormalizeToolCallID(b.id, m, source), Nobody)>>
    BY <1>5 DEF TransformBlock
  <2> QED BY <1>5, <2>1 DEF Mapped, Call
<1> QED BY <1>1, <1>2, <1>3, <1>4, <1>5

\* Each message keeps its role, an answer whether it failed, a result whether it is real.
LEMMA KindsKept ==
  ASSUME HistoryTyped, NEW m \in Models, NEW i \in DOMAIN history
  PROVE  LET msg == TransformOne(history, i, m)
         IN  /\ msg.role = history[i].role
             /\ Failed(msg) = Failed(history[i])
             /\ msg.role = "toolResult" => msg.id = MappedId(history, i, m) /\ msg.real = history[i].real
             /\ msg.role = "assistant" =>
                   /\ history[i].model \in Models /\ history[i] \in AnswersOf(history[i].model)
                   /\ msg.parts = FlattenSeq([b \in DOMAIN history[i].parts |->
                                                TransformBlock(history[i].parts[b], m, history[i].model)])
<1> DEFINE old == history[i]
           msg == TransformOne(history, i, m)
<1>1. old \in Messages
  BY DEF HistoryTyped
<1>2. CASE old \in Spoken
  <2>1. old.role = "user"
    BY <1>2 DEF Spoken
  <2>2. msg = User(DowngradeImages(old.parts, m))
    BY <2>1 DEF TransformOne
  <2>3. msg.role = "user"
    BY <2>2 DEF User
  <2> HIDE DEF msg, old
  <2> QED BY <2>1, <2>3 DEF Failed, msg, old
<1>3. CASE old \in Returns
  <2>1. old.role = "toolResult"
    BY <1>3 DEF Returns
  <2>2. msg = [old EXCEPT !.id = MappedId(history, i, m), !.parts = DowngradeImages(old.parts, m)]
    BY <2>1 DEF TransformOne
  <2>3. msg.role = "toolResult" /\ msg.id = MappedId(history, i, m) /\ msg.real = old.real
    <3> HIDE DEF msg, old
    <3> QED BY <1>3, <2>1, <2>2 DEF Returns
  <2> HIDE DEF msg, old
  <2> QED BY <2>1, <2>3 DEF Failed, msg, old
<1>4. CASE \E source \in Models : old \in AnswersOf(source)
  <2>1. PICK source \in Models : old \in AnswersOf(source)
    BY <1>4
  <2> DEFINE parts == FlattenSeq([b \in DOMAIN old.parts |-> TransformBlock(old.parts[b], m, old.model)])
  <2>2. old.role = "assistant" /\ old.model = source
    BY <2>1 DEF AnswersOf
  <2>3. msg = [old EXCEPT !.parts = parts]
    BY <2>2 DEF TransformOne
  <2>4. msg.role = "assistant" /\ msg.parts = parts /\ msg.stop = old.stop
    <3> HIDE DEF msg, old, parts
    <3> QED BY <2>1, <2>2, <2>3 DEF AnswersOf
  <2> HIDE DEF msg, parts
  <2>5. Failed(msg) = Failed(old)
    <3> HIDE DEF old
    <3> QED BY <2>2, <2>4 DEF Failed
  <2> QED BY <2>1, <2>2, <2>4, <2>5 DEF msg, parts
<1> HIDE DEF old
<1> QED BY <1>1, <1>2, <1>3, <1>4 DEF Messages

\* A call in a history that is ready for m is one that was made, under the id that m is given.
LEMMA CallsTraced ==
  ASSUME ConversationInv, NEW m \in Models, NEW i \in DOMAIN history, NEW c \in Range(Calls(Transformed(m)[i]))
  PROVE  \E at \in CallsMade : /\ at[1] = i /\ c.id = Mapped(CallAt(at).id, history[i].model, m)
                               /\ history[i].role = "assistant"
<1> DEFINE old == history[i]
           msg == Transformed(m)[i]
           source == old.model
           ss == [b \in DOMAIN old.parts |-> TransformBlock(old.parts[b], m, source)]
<1>0. HistoryTyped /\ AtMostTwo
  BY DEF ConversationInv
<1>1. msg = TransformOne(history, i, m) /\ msg \in MessagesTo(m)
  BY <1>0, TransformedEach, OneTransformed
<1>2. msg.role = "assistant"
  <2> SUFFICES ASSUME msg.role # "assistant" PROVE FALSE
    OBVIOUS
  <2>1. Calls(msg) = <<>>
    BY DEF Calls
  <2>2. Range(Calls(msg)) = {}
    BY <2>1 DEF Range
  <2> QED BY <2>2
<1>3. old.role = "assistant" /\ source \in Models /\ old \in AnswersOf(source) /\ msg.parts = FlattenSeq(ss)
  <2> HIDE DEF msg
  <2> QED BY <1>0, <1>1, <1>2, KindsKept
<1>4. old.parts \in Seq(Says(source))
  <2> HIDE DEF old
  <2> QED BY <1>3 DEF AnswersOf
<1>5. ss \in Seq(Seq(Says(m))) /\ DOMAIN ss = DOMAIN old.parts
  <2> DEFINE parts == old.parts
             n == Len(parts)
  <2>1. DOMAIN parts = 1..n /\ n \in Nat /\ \A b \in 1..n : parts[b] \in Says(source)
    <3> HIDE DEF old, source
    <3> QED BY <1>4
  <2> HIDE DEF n
  <2>2. \A b \in 1..n : ss[b] \in Seq(Says(m))
    BY <1>3, <2>1, BlocksTransformed
  <2>3. ss = [b \in 1..n |-> ss[b]]
    BY <2>1
  <2> HIDE DEF ss, parts
  <2> QED BY <2>1, <2>2, <2>3, Listed DEF parts
<1>6. c \in Range(msg.parts) /\ c.kind = "call"
  <2>1. msg.parts \in Seq(Says(m))
    <3> HIDE DEF ss
    <3> QED BY <1>3, <1>5, FlattenTyped
  <2> HIDE DEF ss
  <2> QED BY <1>2, <2>1, CallsAreParts
<1>7. \E b \in DOMAIN ss : \E j \in DOMAIN ss[b] : c = ss[b][j]
  <2> DEFINE flat == FlattenSeq(ss)
  <2>1. PICK k \in DOMAIN flat : flat[k] = c
    BY <1>3, <1>6 DEF Range
  <2> HIDE DEF ss
  <2>2. \A k1 \in DOMAIN flat : \E b \in DOMAIN ss : \E j \in DOMAIN ss[b] : flat[k1] = ss[b][j]
    BY <1>5, FlattenElements
  <2> QED BY <2>1, <2>2
<1>8. PICK b \in DOMAIN ss : \E j \in DOMAIN ss[b] : c = ss[b][j]
  BY <1>7
<1>9. PICK j \in DOMAIN ss[b] : c = ss[b][j]
  BY <1>8
<1>10. b \in DOMAIN old.parts /\ ss[b] = TransformBlock(old.parts[b], m, source) /\ old.parts[b] \in Says(source)
  <2>1. b \in DOMAIN old.parts
    BY <1>5
  <2>2. ss[b] = TransformBlock(old.parts[b], m, source)
    BY <2>1
  <2>3. old.parts[b] \in Says(source)
    <3> HIDE DEF old, source
    <3> QED BY <1>4, <2>1
  <2> QED BY <2>1, <2>2, <2>3
<1>11. old.parts[b].kind = "call" /\ c.id = Mapped(old.parts[b].id, source, m)
  <2> HIDE DEF ss, old, source
  <2>1. source \in Models /\ old.parts[b] \in Says(source)
    BY <1>3, <1>10
  <2>2. j \in DOMAIN TransformBlock(old.parts[b], m, source)
            /\ TransformBlock(old.parts[b], m, source)[j].kind = "call"
    BY <1>6, <1>9, <1>10
  <2>3. c = TransformBlock(old.parts[b], m, source)[j]
    BY <1>9, <1>10
  <2> QED BY <2>1, <2>2, <2>3, BlockCalls
<1>12. old.parts[b] \in Range(Calls(old))
  <2>1. old.parts[b] \in Range(old.parts)
    BY <1>10 DEF Range
  <2> HIDE DEF old, source
  <2> QED BY <1>3, <1>4, <1>11, <2>1, CallsAreParts
<1>13. PICK k \in DOMAIN Calls(old) : Calls(old)[k] = old.parts[b]
  BY <1>12 DEF Range
<1>14. k \in 1..2
  BY <1>0 DEF AtMostTwo
<1> DEFINE at == <<i, k>>
<1>15. at[1] = i /\ at[2] = k /\ at \in (DOMAIN history) \X (1..2)
  BY <1>14
<1> HIDE DEF at
<1>16. at \in CallsMade /\ CallAt(at) = old.parts[b]
  BY <1>13, <1>15 DEF CallsMade, CallAt
<1> QED BY <1>3, <1>11, <1>15, <1>16

\* A result in a history that is ready for m is that of a call made before, under the id the call has for m
\* (toolCallIDMap).
LEMMA ResultsTraced ==
  ASSUME ConversationInv, NEW m \in Models, NEW j \in DOMAIN history, history[j].role = "toolResult"
  PROVE  \E at \in CallsMade : /\ at[1] < j /\ CallAt(at).id = history[j].id
                               /\ Transformed(m)[j].id = Mapped(CallAt(at).id, history[at[1]].model, m)
                               /\ Transformed(m)[j].real
<1>0. HistoryTyped
  BY DEF ConversationInv
<1>1. Transformed(m)[j] = TransformOne(history, j, m)
  BY <1>0, TransformedEach
<1> DEFINE msg == Transformed(m)[j]
           id == history[j].id
<1>2. history[j].real /\ \E at \in CallsMade : at[1] < j /\ ~Failed(history[at[1]]) /\ CallAt(at).id = id
  BY DEF ConversationInv, ResultsHaveCalls
<1>3. msg.id = MappedId(history, j, m) /\ msg.real
  BY <1>0, <1>1, <1>2, KindsKept
<1>4. PICK at \in CallsMade : at[1] < j /\ CallAt(at).id = id
  BY <1>2
<1> DEFINE Made(k) == \E c \in DOMAIN Calls(history[k]) : Calls(history[k])[c].id = id
           makers == {k \in 1..(j - 1) : history[k].role = "assistant" /\ history[k].model # m /\ Made(k)}
<1>5. DOMAIN history = 1..Len(history) /\ Len(history) \in Nat /\ at[1] \in DOMAIN history
  BY <1>0, CallsMadeFacts DEF HistoryTyped
<1>6. history[at[1]].role = "assistant" /\ Made(at[1])
  <2>1. at[2] \in DOMAIN Calls(history[at[1]]) /\ Calls(history[at[1]])[at[2]].id = id
    BY <1>4 DEF CallsMade, CallAt
  <2>2. history[at[1]].role # "assistant" => Calls(history[at[1]]) = <<>>
    BY DEF Calls
  <2> QED BY <2>1, <2>2
<1>7. ASSUME NEW k \in makers PROVE k = at[1]
  <2>1. k \in DOMAIN history /\ Made(k)
    BY <1>5
  <2>2. PICK c \in DOMAIN Calls(history[k]) : Calls(history[k])[c].id = id
    BY <2>1
  <2>3. c \in 1..2
    BY <2>1 DEF ConversationInv, AtMostTwo
  <2> DEFINE x == <<k, c>>
  <2>4. x[1] = k /\ x[2] = c /\ x \in (DOMAIN history) \X (1..2)
    BY <2>1, <2>3
  <2> HIDE DEF x, id, makers
  <2>5. x \in CallsMade /\ CallAt(x).id = id
    BY <2>2, <2>4 DEF CallsMade, CallAt
  <2>6. CallAt(x).id.n = CallAt(at).id.n
    BY <1>4, <2>5
  <2>7. x = at
    BY <2>5, <2>6 DEF ConversationInv, CallNumbersUnique
  <2> QED BY <2>4, <2>7
<1>8. MappedId(history, j, m) = (IF makers = {}
          THEN id ELSE NormalizeToolCallID(id, m, history[CHOOSE k \in makers : TRUE].model))
  BY DEF MappedId
<1>9. makers = (IF history[at[1]].model = m THEN {} ELSE {at[1]})
  <2>1. at[1] \in 1..(j - 1)
    BY <1>4, <1>5
  <2>2. history[at[1]].model # m => at[1] \in makers
    BY <1>6, <2>1
  <2>3. history[at[1]].model = m => at[1] \notin makers
    OBVIOUS
  <2> HIDE DEF makers
  <2> QED BY <1>7, <2>2, <2>3
<1> HIDE DEF makers
<1>10. MappedId(history, j, m) = Mapped(id, history[at[1]].model, m)
  <2>1. CASE history[at[1]].model = m
    BY <1>8, <1>9, <2>1 DEF Mapped
  <2>2. CASE history[at[1]].model # m
    <3>1. makers # {} /\ (CHOOSE k \in makers : TRUE) \in makers
      BY <1>9, <2>2
    <3>2. (CHOOSE k \in makers : TRUE) = at[1]
      BY <1>7, <3>1
    <3> QED BY <1>8, <2>2, <3>1, <3>2 DEF Mapped
  <2> QED BY <2>1, <2>2
<1> QED BY <1>3, <1>4, <1>10

\* The messages or turns after number q, up to the first whose role is none of roles.
After(s, q, roles) == {u \in q + 1..Len(s) : \A v \in q + 1..u : s[v].role \in roles}
Tools == {"toolResult"}

\* Calls by number; a result is real and has the id of the call with its number; one result per number; and
\* whether a call was answered in time shows in h as it does in the history.
Unique(h) == \A i, k \in DOMAIN h : \A c \in Range(Calls(h[i])), d \in Range(Calls(h[k])) :
                c.id.n = d.id.n => i = k /\ c.id = d.id
Matched(h) == \A i, j \in DOMAIN h : h[j].role = "toolResult" =>
                h[j].real /\ \A c \in Range(Calls(h[i])) : c.id.n = h[j].id.n => c.id = h[j].id
Single(h) == \A j, k \in DOMAIN h :
                h[j].role = "toolResult" /\ h[k].role = "toolResult" /\ h[j].id.n = h[k].id.n => j = k
Timed(h) == \A i \in DOMAIN h : \A c \in Range(Calls(h[i])) :
                InTime(c.id.n) <=> \E j \in After(h, i, Tools) : h[j].id.n = c.id.n

\* A number has one call, after the transformation too.
LEMMA CallsUnique ==
  ASSUME ConversationInv, NEW m \in Models
  PROVE  Unique(Transformed(m))
<1> DEFINE h == Transformed(m)
<1>0. HistoryTyped /\ CallNumbersUnique
  BY DEF ConversationInv
<1>1. DOMAIN h = DOMAIN history
  <2>1. h \in Seq(MessagesTo(m)) /\ Len(h) = Len(history) /\ history \in Seq(Messages)
    BY <1>0, TransformedEach DEF HistoryTyped
  <2> HIDE DEF h
  <2> QED BY <2>1
<1>2. ASSUME NEW i \in DOMAIN h, NEW k \in DOMAIN h, NEW c \in Range(Calls(h[i])), NEW d \in Range(Calls(h[k])),
             c.id.n = d.id.n
      PROVE  i = k /\ c.id = d.id
  <2>1. PICK at \in CallsMade : at[1] = i /\ c.id = Mapped(CallAt(at).id, history[i].model, m)
    BY <1>1, CallsTraced
  <2>2. PICK bt \in CallsMade : bt[1] = k /\ d.id = Mapped(CallAt(bt).id, history[k].model, m)
    BY <1>1, CallsTraced
  <2>3. c.id.n = CallAt(at).id.n /\ d.id.n = CallAt(bt).id.n
    BY <1>0, <2>1, <2>2, CallsMadeFacts, MappedNumbers
  <2>4. at = bt
    BY <1>0, <1>2, <2>3 DEF CallNumbersUnique
  <2> HIDE DEF h
  <2> QED BY <2>1, <2>2, <2>4
<1> HIDE DEF h
<1> QED BY <1>2 DEF Unique, h

\* A call and its result are given the same id, whichever model made the call.
LEMMA ResultsMatched ==
  ASSUME ConversationInv, NEW m \in Models
  PROVE  Matched(Transformed(m)) /\ Single(Transformed(m))
<1> DEFINE h == Transformed(m)
<1>0. HistoryTyped /\ CallNumbersUnique /\ ReturnedOnce
  BY DEF ConversationInv
<1>1. DOMAIN h = DOMAIN history /\ \A i \in DOMAIN history : h[i].role = history[i].role
  <2>1. h \in Seq(MessagesTo(m)) /\ Len(h) = Len(history) /\ history \in Seq(Messages)
    BY <1>0, TransformedEach DEF HistoryTyped
  <2>2. ASSUME NEW i \in DOMAIN history PROVE h[i].role = history[i].role
    <3>1. h[i] = TransformOne(history, i, m)
      BY <1>0, TransformedEach
    <3> HIDE DEF h
    <3> QED BY <1>0, <3>1, KindsKept
  <2> HIDE DEF h
  <2> QED BY <2>1, <2>2
<1>2. ASSUME NEW i \in DOMAIN h, NEW j \in DOMAIN h, h[j].role = "toolResult"
      PROVE  h[j].real /\ \A c \in Range(Calls(h[i])) : c.id.n = h[j].id.n => c.id = h[j].id
  <2>1. PICK bt \in CallsMade : h[j].real /\ h[j].id = Mapped(CallAt(bt).id, history[bt[1]].model, m)
    BY <1>1, <1>2, ResultsTraced
  <2>2. ASSUME NEW c \in Range(Calls(h[i])), c.id.n = h[j].id.n PROVE c.id = h[j].id
    <3>1. PICK at \in CallsMade : at[1] = i /\ c.id = Mapped(CallAt(at).id, history[i].model, m)
      BY <1>1, CallsTraced
    <3>2. c.id.n = CallAt(at).id.n /\ h[j].id.n = CallAt(bt).id.n
      <4> HIDE DEF h
      <4> QED BY <1>0, <2>1, <3>1, CallsMadeFacts, MappedNumbers
    <3>3. at = bt
      BY <1>0, <2>2, <3>2 DEF CallNumbersUnique
    <3> HIDE DEF h
    <3> QED BY <2>1, <3>1, <3>3
  <2> QED BY <2>1, <2>2
<1>3. ASSUME NEW j \in DOMAIN h,
             NEW k \in DOMAIN h, h[j].role = "toolResult", h[k].role = "toolResult", h[j].id.n = h[k].id.n
      PROVE  j = k
  <2>1. PICK at \in CallsMade : CallAt(at).id = history[j].id
            /\ h[j].id = Mapped(CallAt(at).id, history[at[1]].model, m)
    BY <1>1, <1>3, ResultsTraced
  <2>2. PICK bt \in CallsMade : CallAt(bt).id = history[k].id
            /\ h[k].id = Mapped(CallAt(bt).id, history[bt[1]].model, m)
    BY <1>1, <1>3, ResultsTraced
  <2>3. h[j].id.n = CallAt(at).id.n /\ h[k].id.n = CallAt(bt).id.n
    <3> HIDE DEF h
    <3> QED BY <1>0, <2>1, <2>2, CallsMadeFacts, MappedNumbers
  <2>4. at = bt
    BY <1>0, <1>3, <2>3 DEF CallNumbersUnique
  <2>5. history[j].id = history[k].id
    BY <2>1, <2>2, <2>4
  <2>6. history[j].role = "toolResult" /\ history[k].role = "toolResult" /\ j \in DOMAIN history
            /\ k \in DOMAIN history
    BY <1>1, <1>3
  <2> QED BY <1>0, <2>5, <2>6 DEF ReturnedOnce
<1> HIDE DEF h
<1> QED BY <1>2, <1>3 DEF Matched, Single, h

\* A call was answered in time exactly if its result follows before anybody else speaks.
LEMMA CallsTimed ==
  ASSUME ConversationInv, NEW m \in Models
  PROVE  Timed(Transformed(m))
<1> DEFINE h == Transformed(m)
<1>0. HistoryTyped /\ CallNumbersUnique /\ AtMostTwo
  BY DEF ConversationInv
<1>1. DOMAIN h = DOMAIN history /\ (\A i \in DOMAIN history : h[i].role = history[i].role)
      /\ Len(h) = Len(history) /\ Len(history) \in Nat /\ DOMAIN history = 1..Len(history)
  <2>1. h \in Seq(MessagesTo(m)) /\ Len(h) = Len(history) /\ history \in Seq(Messages)
    BY <1>0, TransformedEach DEF HistoryTyped
  <2>2. ASSUME NEW i \in DOMAIN history PROVE h[i].role = history[i].role
    <3>1. h[i] = TransformOne(history, i, m)
      BY <1>0, TransformedEach
    <3> HIDE DEF h
    <3> QED BY <1>0, <3>1, KindsKept
  <2> HIDE DEF h
  <2> QED BY <2>1, <2>2
<1>2. \A j \in DOMAIN h : h[j].role = "toolResult" => h[j].id.n = history[j].id.n
  <2> SUFFICES ASSUME NEW j \in DOMAIN h, h[j].role = "toolResult" PROVE h[j].id.n = history[j].id.n
    OBVIOUS
  <2>1. PICK at \in CallsMade : CallAt(at).id = history[j].id
            /\ h[j].id = Mapped(CallAt(at).id, history[at[1]].model, m)
    BY <1>1, ResultsTraced
  <2> HIDE DEF h
  <2> QED BY <1>0, <2>1, CallsMadeFacts, MappedNumbers
<1>3. ASSUME NEW i \in DOMAIN h, NEW c \in Range(Calls(h[i]))
      PROVE  InTime(c.id.n) <=> \E j \in After(h, i, Tools) : h[j].id.n = c.id.n
  <2>1. PICK at \in CallsMade : at[1] = i /\ c.id = Mapped(CallAt(at).id, history[i].model, m)
    BY <1>1, CallsTraced
  <2>2. c.id.n = CallAt(at).id.n
    BY <1>0, <2>1, CallsMadeFacts, MappedNumbers
  <2>3. at[2] \in DOMAIN Calls(history[i]) /\ Calls(history[i])[at[2]].id.n = c.id.n
    BY <2>1, <2>2 DEF CallsMade, CallAt
  <2>4. ASSUME NEW k \in DOMAIN history,
               NEW d \in DOMAIN Calls(history[k]), Calls(history[k])[d].id.n = c.id.n PROVE k = i
    <3> DEFINE x == <<k, d>>
    <3>1. x[1] = k /\ x[2] = d /\ x \in (DOMAIN history) \X (1..2)
      BY <1>0 DEF AtMostTwo
    <3> HIDE DEF x
    <3>2. x \in CallsMade /\ CallAt(x).id.n = c.id.n
      BY <2>4, <3>1 DEF CallsMade, CallAt
    <3>3. x = at
      BY <1>0, <2>2, <3>2 DEF CallNumbersUnique
    <3> QED BY <2>1, <3>1, <3>3
  <2> DEFINE After1(j) == j \in i + 1..Len(history) /\ history[j].role = "toolResult" /\ history[j].id.n = c.id.n
                          /\ \A k \in i + 1..j : history[k].role = "toolResult"
  <2>5. InTime(c.id.n) <=> \E j : After1(j)
    <3> HIDE DEF h
    <3>1. ASSUME InTime(c.id.n) PROVE \E j : After1(j)
      <4>1. PICK k \in DOMAIN history : \E d \in DOMAIN Calls(history[k]) :
               /\ Calls(history[k])[d].id.n = c.id.n
               /\ \E j \in k + 1..Len(history) :
                     /\ history[j].role = "toolResult" /\ history[j].id.n = c.id.n
                     /\ \A l \in k + 1..j : history[l].role = "toolResult"
        BY <3>1 DEF InTime
      <4>2. k = i
        BY <2>4, <4>1
      <4> QED BY <4>1, <4>2
    <3>2. ASSUME NEW j, After1(j) PROVE InTime(c.id.n)
      <4>1. i \in DOMAIN history
        BY <1>1
      <4>2. j \in i + 1..Len(history)
        BY <3>2
      <4> QED BY <2>3, <3>2, <4>1, <4>2 DEF InTime
    <3> HIDE DEF After1
    <3> QED BY <3>1, <3>2
  <2>6. \A j : After1(j) <=> j \in After(h, i, Tools) /\ h[j].id.n = c.id.n
    <3> SUFFICES ASSUME NEW j PROVE After1(j) <=> j \in After(h, i, Tools) /\ h[j].id.n = c.id.n
      OBVIOUS
    <3> HIDE DEF h
    <3>1. i \in Nat
      BY <1>1
    <3>2. \A k \in i + 1..j : j \in i + 1..Len(history) => k \in DOMAIN history /\ h[k].role = history[k].role
      BY <1>1, <3>1
    <3>3. j \in i + 1..Len(history) => j \in DOMAIN h /\ j \in i + 1..j
      BY <1>1, <3>1
    <3> QED BY <1>1, <1>2, <3>2, <3>3 DEF After, Tools
  <2> HIDE DEF h, After1
  <2> QED BY <2>5, <2>6
<1> HIDE DEF h
<1> QED BY <1>3 DEF Timed, h

-----------------------------------------------------------------------------
(* What flush makes up                                                     *)

\* The ids that message i is answered for, the result that flush makes up for a call, and all that it makes up.
IdsAfter(h, i) == {h[j].id : j \in After(h, i, Tools)}
MadeUpFor(c) == ToolResult(c.id, <<Text>>, FALSE)
MadeUp(h, x) == \E i \in DOMAIN h : \E c \in Range(Calls(h[i])) : c.id \notin IdsAfter(h, i) /\ x = MadeUpFor(c)

\* The turn before message k ends there.
Stops(h, k) == k > Len(h) \/ h[k].role # "toolResult"

\* The tools that spoke between a turn and the message that ends it are all that answer it.
LEMMA RunEnds ==
  ASSUME NEW E, NEW h \in Seq(E), NEW k \in 1..(Len(h) + 1), Stops(h, k), NEW i \in 1..(k - 1),
         \A l \in i + 1..(k - 1) : h[l].role = "toolResult"
  PROVE  After(h, i, Tools) = i + 1..(k - 1)
<1>1. Len(h) \in Nat
  OBVIOUS
<1> DEFINE n == Len(h)
<1> HIDE DEF n
<1>2. After(h, i, Tools) = {u \in i + 1..n : \A v \in i + 1..u : h[v].role = "toolResult"}
  BY DEF After, Tools, n
<1>3. \A u \in i + 1..n : k <= u => ~(\A v \in i + 1..u : h[v].role = "toolResult")
  <2> SUFFICES ASSUME NEW u \in i + 1..n, k <= u PROVE ~(\A v \in i + 1..u : h[v].role = "toolResult")
    OBVIOUS
  <2>1. k \in i + 1..u /\ k <= n
    BY <1>1 DEF n
  <2> QED BY <1>1, <2>1 DEF Stops, n
<1>4. \A u \in i + 1..n : u < k => \A v \in i + 1..u : h[v].role = "toolResult"
  BY <1>1 DEF n
<1>5. i + 1..(k - 1) \subseteq i + 1..n
  BY <1>1 DEF n
<1>6. \A u \in i + 1..n : u \in i + 1..(k - 1) <=> u < k
  BY <1>1 DEF n
<1> QED BY <1>1, <1>2, <1>3, <1>4, <1>5, <1>6 DEF n

\* The open calls at message k are those of the last turn that no result behind it answers.
LEMMA OpenFinds ==
  ASSUME NEW m \in Models, NEW h \in Seq(MessagesTo(m)), NEW k \in 1..(Len(h) + 1), Ends(h, k)
  PROVE  LET last == LastTurn(h, k)
         IN  /\ last \in DOMAIN h /\ \A l \in last + 1..(k - 1) : h[l].role = "toolResult"
             /\ \A d \in DOMAIN Open(h, k) : Open(h, k)[d] \in Range(Calls(h[last]))
                    /\ Open(h, k)[d].id \notin IdsAfter(h, last)
             /\ \A c \in Range(Calls(h[last])) : c.id \notin IdsAfter(h, last)
                    => \E d \in DOMAIN Open(h, k) : Open(h, k)[d] = c
<1> DEFINE last == LastTurn(h, k)
           s == Calls(h[last])
           K == {c \in Range(s) : c.id \notin {h[j].id : j \in last + 1..(k - 1)}}
           o == Only(s, K)
<1>1. k \in Nat /\ DOMAIN h = 1..Len(h) /\ Len(h) \in Nat
  OBVIOUS
<1>2. last \in 1..(k - 1) /\ \A l \in 1..(k - 1) : h[l].role # "toolResult" => l <= last
  BY <1>1, LastTurnFacts DEF Ends
<1> HIDE DEF last
<1>3. last \in DOMAIN h /\ \A l \in last + 1..(k - 1) : h[l].role = "toolResult"
  <2>1. \A l \in last + 1..(k - 1) : l \in 1..(k - 1) /\ ~(l <= last)
    BY <1>1, <1>2
  <2> QED BY <1>1, <1>2, <2>1
<1>4. Stops(h, k)
  BY DEF Ends, Stops
<1>5. {h[j].id : j \in last + 1..(k - 1)} = IdsAfter(h, last)
  <2>1. After(h, last, Tools) = last + 1..(k - 1)
    BY <1>2, <1>3, <1>4, RunEnds
  <2> QED BY <2>1 DEF IdsAfter
<1>6. s \in Seq(CallsOf(m))
  <2>1. h[last] \in MessagesTo(m)
    BY <1>3
  <2> QED BY <2>1, TransformedCalls
<1>7. Open(h, k) = o
  BY DEF Open, last
<1>8. \A c : c \in K <=> c \in Range(s) /\ c.id \notin IdsAfter(h, last)
  BY <1>5
<1> HIDE DEF s, K
<1>9. /\ \A i \in DOMAIN s : s[i] \in K => \E d \in DOMAIN o : o[d] = s[i]
      /\ \A d \in DOMAIN o : \E i \in DOMAIN s : s[i] \in K /\ o[d] = s[i]
  BY <1>6, OnlyFinds
<1> HIDE DEF o
<1>10. \A d \in DOMAIN o : o[d] \in Range(s) /\ o[d].id \notin IdsAfter(h, last)
  <2> SUFFICES ASSUME NEW d \in DOMAIN o PROVE o[d] \in K
    BY <1>8
  <2> QED BY <1>9
<1>11. ASSUME NEW c \in Range(s), c.id \notin IdsAfter(h, last) PROVE \E d \in DOMAIN o : o[d] = c
  <2>1. PICK i \in DOMAIN s : s[i] = c
    BY DEF Range
  <2> QED BY <1>8, <1>9, <1>11, <2>1
<1> QED BY <1>3, <1>7, <1>10, <1>11 DEF s, last

\* All that flush appends is made up, each result for a call that nobody answered in time.
LEMMA FlushMakesUp ==
  ASSUME NEW m \in Models, NEW h \in Seq(MessagesTo(m)), NEW k \in 1..(Len(h) + 1)
  PROVE  /\ Flush(h, k) \in Seq(ReturnsTo(m))
         /\ \A d \in DOMAIN Flush(h, k) : MadeUp(h, Flush(h, k)[d]) /\ ~Flush(h, k)[d].real
<1> DEFINE o == Open(h, k)
           F == [c \in DOMAIN o |-> ToolResult(o[c].id, <<Text>>, FALSE)]
<1>1. CASE ~Ends(h, k)
  <2>1. Flush(h, k) = <<>>
    BY <1>1, FlushOpens
  <2> QED BY <2>1, FlushTyped
<1>2. CASE Ends(h, k)
  <2>1. Flush(h, k) = F /\ DOMAIN F = DOMAIN o
    BY <1>2, FlushOpens
  <2>2. ASSUME NEW d \in DOMAIN o PROVE MadeUp(h, F[d]) /\ ~F[d].real
    <3>1. F[d] = MadeUpFor(o[d])
      BY DEF MadeUpFor
    <3>2. LastTurn(h, k) \in DOMAIN h /\ o[d] \in Range(Calls(h[LastTurn(h, k)]))
              /\ o[d].id \notin IdsAfter(h, LastTurn(h, k))
      BY <1>2, OpenFinds
    <3> HIDE DEF F, o
    <3>3. MadeUp(h, F[d])
      BY <3>1, <3>2 DEF MadeUp
    <3>4. MadeUpFor(o[d]).real = FALSE
      BY DEF MadeUpFor, ToolResult
    <3> QED BY <3>1, <3>3, <3>4
  <2> HIDE DEF F, o
  <2> QED BY <2>1, <2>2, FlushTyped
<1> QED BY <1>1, <1>2

\* What flush appends for a call of the turn that ends.
FlushedFor(h, k, c) == \E d \in DOMAIN Flush(h, k) : Flush(h, k)[d] = MadeUpFor(c)

\* Flush makes up a result for every call of the turn that ends and that nobody answered in time.
LEMMA FlushAnswers ==
  ASSUME NEW m \in Models, NEW h \in Seq(MessagesTo(m)), NEW k \in 1..(Len(h) + 1), Stops(h, k),
         NEW i \in 1..(k - 1),
         h[i].role # "toolResult", ~Failed(h[i]), \A l \in i + 1..(k - 1) : h[l].role = "toolResult",
         NEW c \in Range(Calls(h[i])), c.id \notin IdsAfter(h, i)
  PROVE  FlushedFor(h, k, c)
<1>1. k \in Nat /\ DOMAIN h = 1..Len(h) /\ Len(h) \in Nat
  OBVIOUS
<1>2. i \in {j \in 1..(k - 1) : h[j].role # "toolResult"}
  OBVIOUS
<1>3. LastTurn(h, k) = i
  <2> DEFINE last == LastTurn(h, k)
  <2>1. last \in 1..(k - 1) /\ h[last].role # "toolResult" /\ i <= last
    BY <1>1, <1>2, LastTurnFacts
  <2> HIDE DEF last
  <2>2. ~(last \in i + 1..(k - 1))
    BY <2>1
  <2>3. last = i
    BY <1>1, <2>1, <2>2
  <2> QED BY <2>3 DEF last
<1>4. Ends(h, k)
  BY <1>2, <1>3 DEF Ends, Stops
<1> DEFINE o == Open(h, k)
           F == [d \in DOMAIN o |-> ToolResult(o[d].id, <<Text>>, FALSE)]
<1>5. PICK d \in DOMAIN o : o[d] = c
  BY <1>3, <1>4, OpenFinds
<1>6. Flush(h, k) = F
  BY <1>4, FlushOpens
<1>7. d \in DOMAIN F /\ F[d] = MadeUpFor(c)
  <2> HIDE DEF o
  <2> QED BY <1>5 DEF MadeUpFor
<1> HIDE DEF F
<1> QED BY <1>6, <1>7 DEF FlushedFor

-----------------------------------------------------------------------------
(* The answers that a history ready for replay holds                       *)

\* What followed message q of s follows it in t.
Stays(s, t, q, roles) == \A u \in After(s, q, roles) : u \in After(t, q, roles) /\ t[u] = s[u]

\* Appending keeps what follows a message, and adds to it where only such roles came since.
LEMMA AfterGrows ==
  ASSUME NEW E, NEW s \in Seq(E), NEW new \in Seq(E), NEW q \in DOMAIN s, NEW roles
  PROVE  /\ Stays(s, s \o new, q, roles)
         /\ ((\A u \in q + 1..Len(s) : s[u].role \in roles) /\ (\A d \in DOMAIN new : new[d].role \in roles)) =>
               /\ \A d \in DOMAIN new : Len(s) + d \in After(s \o new, q, roles)
                      /\ (s \o new)[Len(s) + d] = new[d]
               /\ \A u \in q + 1..Len(s \o new) : (s \o new)[u].role \in roles
<1> DEFINE t == s \o new
           a == Len(s)
           b == Len(new)
<1>1. a \in Nat /\ b \in Nat /\ DOMAIN s = 1..a /\ DOMAIN new = 1..b /\ Len(t) = a + b
      /\ (\A u \in 1..a : t[u] = s[u]) /\ (\A d \in 1..b : t[a + d] = new[d])
  OBVIOUS
<1> HIDE DEF t, a, b
<1>2. After(s, q, roles) = {u \in q + 1..a : \A v \in q + 1..u : s[v].role \in roles}
      /\ After(t, q, roles) = {u \in q + 1..(a + b) : \A v \in q + 1..u : t[v].role \in roles}
  BY <1>1 DEF After, a
<1>3. ASSUME NEW u \in After(s, q, roles) PROVE u \in After(t, q, roles) /\ t[u] = s[u]
  <2>1. u \in q + 1..a /\ u \in 1..a /\ u \in q + 1..(a + b)
    BY <1>1, <1>2, <1>3
  <2>2. \A v \in q + 1..u : v \in 1..a /\ s[v].role \in roles
    BY <1>1, <1>2, <1>3
  <2>3. \A v \in q + 1..u : t[v].role \in roles
    BY <1>1, <2>2
  <2> QED BY <1>1, <1>2, <2>1, <2>3
<1>4. ASSUME \A u \in q + 1..a : s[u].role \in roles, \A d \in 1..b : new[d].role \in roles
      PROVE  /\ \A d \in 1..b : a + d \in After(t, q, roles) /\ t[a + d] = new[d]
             /\ \A u \in q + 1..(a + b) : t[u].role \in roles
  <2>1. \A u \in q + 1..(a + b) : t[u].role \in roles
    <3> SUFFICES ASSUME NEW u \in q + 1..(a + b) PROVE t[u].role \in roles
      OBVIOUS
    <3>1. CASE u <= a
      <4>1. u \in 1..a /\ u \in q + 1..a
        BY <1>1, <3>1
      <4> QED BY <1>1, <1>4, <4>1
    <3>2. CASE u > a
      <4>1. u - a \in 1..b /\ a + (u - a) = u
        BY <1>1, <3>2
      <4>2. t[a + (u - a)] = new[u - a]
        BY <1>1, <4>1
      <4> QED BY <1>4, <4>1, <4>2
    <3> QED BY <1>1, <3>1, <3>2
  <2>2. \A d \in 1..b : a + d \in q + 1..(a + b) /\ \A v \in q + 1..(a + d) : v \in q + 1..(a + b)
    BY <1>1
  <2> QED BY <1>1, <1>2, <2>1, <2>2
<1>5. Stays(s, t, q, roles)
  BY <1>3 DEF Stays
<1> QED BY <1>1, <1>4, <1>5 DEF t, a, b

\* x is among the results that follow g[q].
Has(g, q, x) == \E u \in After(g, q, Tools) : g[u] = x

\* Appending takes no answer away.
LEMMA HasGrows ==
  ASSUME NEW E, NEW s \in Seq(E), NEW new \in Seq(E), NEW q \in DOMAIN s, NEW x, Has(s, q, x)
  PROVE  Has(s \o new, q, x)
<1>1. PICK u \in After(s, q, Tools) : s[u] = x
  BY DEF Has
<1> DEFINE t == s \o new
<1>2. Stays(s, t, q, Tools)
  BY AfterGrows
<1> HIDE DEF t
<1>3. u \in After(t, q, Tools) /\ t[u] = s[u]
  BY <1>1, <1>2 DEF Stays
<1> QED BY <1>1, <1>3 DEF Has, t

\* Nobody but the tools spoke between message i and message k.
Rests(h, i, k) == \A l \in i + 1..(k - 1) : h[l].role = "toolResult"

\* Only tools have spoken since message q; every unanswered call has a made-up result; message q is message i of
\* h, with all results up to message k.
Quiet(g, q) == \A u \in q + 1..Len(g) : g[u].role = "toolResult"
Filled(g, q, h, i) == \A c \in Range(Calls(h[i])) : c.id \notin IdsAfter(h, i) => Has(g, q, MadeUpFor(c))
Copied(g, q, h, i, k) ==
  /\ i \in 1..(k - 1) /\ i \in DOMAIN h /\ h[i] = g[q] /\ ~Failed(h[i])
  /\ \A j \in After(h, i, Tools) : j < k => Has(g, q, h[j])

\* The part of the answer that message i became, before and after flush at message k.
Before(g, h, k) ==
  \A q \in DOMAIN g : g[q].role = "assistant" => \E i \in 1..(k - 1) :
     Copied(g, q, h, i, k) /\ (IF Rests(h, i, k) THEN Quiet(g, q) ELSE Filled(g, q, h, i))
Flushed(g, h, k) ==
  \A q \in DOMAIN g : g[q].role = "assistant" => \E i \in 1..(k - 1) :
     Copied(g, q, h, i, k) /\ (IF Rests(h, i, k) /\ ~Stops(h, k) THEN Quiet(g, q) ELSE Filled(g, q, h, i))

\* Appending takes nothing away, and a result that is appended while only tools speak answers.
LEMMA CopiedGrows ==
  ASSUME NEW E, NEW g \in Seq(E), NEW new \in Seq(E), NEW q \in DOMAIN g, NEW h, NEW i, NEW k
  PROVE  /\ Copied(g, q, h, i, k) => Copied(g \o new, q, h, i, k)
         /\ Filled(g, q, h, i) => Filled(g \o new, q, h, i)
         /\ (Quiet(g, q) /\ \A d \in DOMAIN new : new[d].role = "toolResult") =>
               /\ Quiet(g \o new, q)
               /\ \A d \in DOMAIN new : Has(g \o new, q, new[d])
<1>1. (g \o new)[q] = g[q]
  OBVIOUS
<1>2. \A x : Has(g, q, x) => Has(g \o new, q, x)
  BY HasGrows
<1>3. ASSUME Quiet(g, q), \A d \in DOMAIN new : new[d].role = "toolResult"
      PROVE  Quiet(g \o new, q) /\ \A d \in DOMAIN new : Has(g \o new, q, new[d])
  <2> DEFINE t == g \o new
  <2>1. (\A u \in q + 1..Len(g) : g[u].role \in Tools) /\ (\A d \in DOMAIN new : new[d].role \in Tools)
    BY <1>3 DEF Quiet, Tools
  <2>2. /\ \A d \in DOMAIN new : Len(g) + d \in After(t, q, Tools) /\ t[Len(g) + d] = new[d]
        /\ \A u \in q + 1..Len(t) : t[u].role \in Tools
    BY <2>1, AfterGrows
  <2> HIDE DEF t
  <2>3. Quiet(t, q)
    BY <2>2 DEF Quiet, Tools
  <2>4. \A d \in DOMAIN new : Has(t, q, new[d])
    BY <2>2 DEF Has
  <2> QED BY <2>3, <2>4 DEF t
<1>4. Copied(g, q, h, i, k) => Copied(g \o new, q, h, i, k)
  <2> DEFINE t == g \o new
  <2> HIDE DEF t
  <2>1. t[q] = g[q] /\ \A x : Has(g, q, x) => Has(t, q, x)
    BY <1>1, <1>2 DEF t
  <2>2. Copied(g, q, h, i, k) => Copied(t, q, h, i, k)
    BY <2>1 DEF Copied
  <2> QED BY <2>2 DEF t
<1>5. Filled(g, q, h, i) => Filled(g \o new, q, h, i)
  <2> DEFINE t == g \o new
  <2> HIDE DEF t
  <2>1. \A x : Has(g, q, x) => Has(t, q, x)
    BY <1>2 DEF t
  <2> QED BY <2>1 DEF Filled, t
<1> QED BY <1>3, <1>4, <1>5

\* Flush at message k answers the turn that ends there.
LEMMA FlushStep ==
  ASSUME NEW m \in Models, NEW h \in Seq(MessagesTo(m)), NEW k \in 1..(Len(h) + 1),
         NEW g \in Seq(MessagesTo(m)), Before(g, h, k)
  PROVE  g \o Flush(h, k) \in Seq(MessagesTo(m)) /\ Flushed(g \o Flush(h, k), h, k)
<1> DEFINE E == MessagesTo(m)
           new == Flush(h, k)
           t == g \o new
<1>1. new \in Seq(ReturnsTo(m))
  BY FlushMakesUp
<1>2. \A d \in DOMAIN new : new[d].role = "toolResult"
  <2> HIDE DEF new
  <2>1. \A d \in DOMAIN new : new[d] \in ReturnsTo(m)
    BY <1>1
  <2> QED BY <2>1 DEF ReturnsTo
<1>3. new \in Seq(E)
  <2> HIDE DEF new
  <2>1. ReturnsTo(m) \subseteq E
    BY DEF MessagesTo
  <2> HIDE DEF E
  <2> QED BY <1>1, <2>1, Widened
<1>4. t \in Seq(E) /\ DOMAIN g = 1..Len(g) /\ Len(g) \in Nat /\ (\A q \in DOMAIN g : q \in DOMAIN t
          /\ t[q] = g[q])
      /\ (\A q \in DOMAIN t : q \in DOMAIN g \/ (q - Len(g) \in DOMAIN new /\ t[q] = new[q - Len(g)]))
  <2> HIDE DEF new, E
  <2>1. g \in Seq(E)
    BY DEF E
  <2> QED BY <1>3, <2>1
<1>5. ASSUME NEW q \in DOMAIN t, t[q].role = "assistant"
      PROVE  \E i \in 1..(k - 1) :
                Copied(t, q, h, i, k) /\ (IF Rests(h, i, k)
                    /\ ~Stops(h, k) THEN Quiet(t, q) ELSE Filled(t, q, h, i))
  <2>1. q \in DOMAIN g
    <3> HIDE DEF t
    <3> QED BY <1>2, <1>4, <1>5
  <2>2. g[q].role = "assistant"
    <3> HIDE DEF t
    <3> QED BY <1>4, <1>5, <2>1
  <2>3. PICK i \in 1..(k - 1) :
           Copied(g, q, h, i, k) /\ (IF Rests(h, i, k) THEN Quiet(g, q) ELSE Filled(g, q, h, i))
    BY <2>1, <2>2 DEF Before
  <2>4. /\ Copied(t, q, h, i, k)
        /\ Filled(g, q, h, i) => Filled(t, q, h, i)
        /\ Quiet(g, q) => Quiet(t, q) /\ \A d \in DOMAIN new : Has(t, q, new[d])
    <3> HIDE DEF new, E
    <3>1. g \in Seq(E)
      BY DEF E
    <3> QED BY <1>2, <1>3, <2>1, <2>3, <3>1, CopiedGrows
  <2> HIDE DEF t
  <2>5. ASSUME Rests(h, i, k), Stops(h, k) PROVE Filled(t, q, h, i)
    <3> SUFFICES ASSUME NEW c \in Range(Calls(h[i])), c.id \notin IdsAfter(h, i) PROVE Has(t, q, MadeUpFor(c))
      BY DEF Filled
    <3>1. h[i].role # "toolResult" /\ ~Failed(h[i])
      BY <2>2, <2>3 DEF Copied
    <3>2. FlushedFor(h, k, c)
      BY <2>5, <3>1, FlushAnswers DEF Rests
    <3>3. PICK d \in DOMAIN new : new[d] = MadeUpFor(c)
      BY <3>2 DEF FlushedFor
    <3> HIDE DEF new
    <3> QED BY <2>3, <2>4, <2>5, <3>3
  <2> HIDE DEF new
  <2> QED BY <2>3, <2>4, <2>5
<1> HIDE DEF t
<1> QED BY <1>4, <1>5 DEF Flushed, t

\* Replaying message k keeps the answers: a result goes behind its turn, a turn that failed is left out.
LEMMA ReplayStep ==
  ASSUME NEW m \in Models, NEW h \in Seq(MessagesTo(m)), NEW k \in 1..Len(h),
         NEW g \in Seq(MessagesTo(m)), Flushed(g, h, k)
  PROVE  g \o Replayed(h[k]) \in Seq(MessagesTo(m)) /\ Before(g \o Replayed(h[k]), h, k + 1)
<1> DEFINE E == MessagesTo(m)
           new == Replayed(h[k])
           t == g \o new
           x == h[k]
<1>0. k \in Nat /\ k \in DOMAIN h /\ Len(h) \in Nat /\ k <= Len(h) /\ DOMAIN h = 1..Len(h) /\ x \in E
  OBVIOUS
<1> HIDE DEF x
<1>1. new \in Seq(E) /\ (new = <<>> \/ (new = <<x>> /\ ~Failed(x)))
  <2> HIDE DEF E
  <2> QED BY <1>0, Tuples DEF Replayed, x
<1>2. Failed(x) => x.role = "assistant"
  BY DEF Failed
<1>3. x.role = "toolResult" => new = <<x>>
  BY <1>2 DEF Replayed, x
<1> HIDE DEF new
<1>4. t \in Seq(E) /\ DOMAIN g = 1..Len(g) /\ Len(g) \in Nat /\ (\A q \in DOMAIN g : q \in DOMAIN t
          /\ t[q] = g[q])
      /\ (\A q \in DOMAIN t : q \in DOMAIN g \/ (q = Len(g) + 1 /\ Len(t) = q /\ t[q] = x /\ ~Failed(x)))
  <2> HIDE DEF E
  <2>1. g \in Seq(E)
    BY DEF E
  <2>2. CASE new = <<>>
    <3>1. t = g
      BY <2>1, <2>2
    <3> HIDE DEF t
    <3> QED BY <2>1, <3>1
  <2>3. CASE new = <<x>> /\ ~Failed(x)
    <3>1. t = Append(g, x)
      BY <1>0, <2>1, <2>3
    <3> HIDE DEF t
    <3> QED BY <1>0, <2>1, <2>3, <3>1
  <2> HIDE DEF t
  <2> QED BY <1>1, <2>2, <2>3
<1>5. ~Stops(h, k) <=> x.role = "toolResult"
  BY <1>0 DEF Stops, x
<1>6. ASSUME NEW q \in DOMAIN t, t[q].role = "assistant"
      PROVE  \E i \in 1..((k + 1) - 1) :
                Copied(t, q, h, i, k + 1) /\ (IF Rests(h, i, k + 1) THEN Quiet(t, q) ELSE Filled(t, q, h, i))
  <2>1. CASE q \notin DOMAIN g
    <3>1. q = Len(g) + 1 /\ Len(t) = q /\ t[q] = x /\ ~Failed(x)
      <4> HIDE DEF t
      <4> QED BY <1>4, <1>6, <2>1
    <3> HIDE DEF t
    <3>2. Quiet(t, q)
      BY <1>4, <3>1 DEF Quiet
    <3>3. Copied(t, q, h, k, k + 1)
      <4>1. \A j \in After(h, k, Tools) : ~(j < k + 1)
        <5>1. \A j \in After(h, k, Tools) : j \in k + 1..Len(h)
          BY DEF After
        <5> QED BY <1>0, <5>1
      <4> QED BY <1>0, <3>1, <4>1 DEF Copied, x
    <3>4. Rests(h, k, k + 1)
      BY <1>0 DEF Rests
    <3>5. k \in 1..((k + 1) - 1)
      BY <1>0
    <3> QED BY <3>2, <3>3, <3>4, <3>5
  <2>2. CASE q \in DOMAIN g
    <3>1. g[q].role = "assistant"
      <4> HIDE DEF t
      <4> QED BY <1>4, <1>6, <2>2
    <3>2. PICK i \in 1..(k - 1) :
             Copied(g, q, h, i, k) /\ (IF Rests(h, i, k) /\ ~Stops(h, k) THEN Quiet(g, q) ELSE Filled(g, q, h, i))
      BY <2>2, <3>1 DEF Flushed
    <3>3. /\ Copied(t, q, h, i, k)
          /\ Filled(g, q, h, i) => Filled(t, q, h, i)
          /\ (Quiet(g, q) /\ \A d \in DOMAIN new : new[d].role = "toolResult") =>
                Quiet(t, q) /\ \A d \in DOMAIN new : Has(t, q, new[d])
      <4> HIDE DEF E
      <4>1. g \in Seq(E)
        BY DEF E
      <4> QED BY <1>1, <2>2, <3>2, <4>1, CopiedGrows
    <3> HIDE DEF t
    <3>4. i \in 1..((k + 1) - 1) /\ i \in Nat /\ i <= k - 1
      BY <1>0
    <3>5. Rests(h, i, k + 1) <=> Rests(h, i, k) /\ x.role = "toolResult"
      <4>1. \A l : l \in i + 1..((k + 1) - 1) <=> l \in i + 1..(k - 1) \/ l = k
        BY <1>0, <3>4
      <4> QED BY <4>1 DEF Rests, x
    <3>6. CASE Rests(h, i, k + 1)
      <4>1. Quiet(g, q) /\ new = <<x>> /\ x.role = "toolResult"
        BY <1>3, <1>5, <3>2, <3>5, <3>6
      <4>2. \A d \in DOMAIN new : new[d].role = "toolResult"
        BY <4>1
      <4>3. Quiet(t, q) /\ Has(t, q, x)
        BY <3>3, <4>1, <4>2
      <4>4. Copied(t, q, h, i, k + 1)
        <5>1. \A j \in After(h, i, Tools) : j < k + 1 => j < k \/ j = k
          <6>1. \A j \in After(h, i, Tools) : j \in i + 1..Len(h)
            BY DEF After
          <6> QED BY <1>0, <3>4, <6>1
        <5> QED BY <3>3, <3>4, <4>3, <5>1 DEF Copied, x
      <4> QED BY <3>4, <3>6, <4>3, <4>4
    <3>7. CASE ~Rests(h, i, k + 1)
      <4>1. Filled(t, q, h, i)
        BY <1>5, <3>2, <3>3, <3>5, <3>7
      <4>2. k \notin After(h, i, Tools)
        <5>1. ASSUME k \in After(h, i, Tools) PROVE FALSE
          <6>1. \A v \in i + 1..k : h[v].role = "toolResult"
            BY <5>1 DEF After, Tools
          <6>2. (k + 1) - 1 = k
            BY <1>0
          <6> QED BY <3>7, <6>1, <6>2 DEF Rests
        <5> QED BY <5>1
      <4>3. Copied(t, q, h, i, k + 1)
        <5>1. \A j \in After(h, i, Tools) : j < k + 1 => j < k
          <6>1. \A j \in After(h, i, Tools) : j \in i + 1..Len(h) /\ j # k
            BY <4>2 DEF After
          <6> QED BY <1>0, <3>4, <6>1
        <5> QED BY <3>3, <3>4, <5>1 DEF Copied
      <4> QED BY <3>4, <3>7, <4>1, <4>3
    <3> QED BY <3>6, <3>7
  <2> QED BY <2>1, <2>2
<1> HIDE DEF t
<1> QED BY <1>4, <1>6 DEF Before, t, new

\* Where a result comes from: it is a message of h, or it is made up.
Source(h, x) == (\E j \in DOMAIN h : x = h[j]) \/ (MadeUp(h, x) /\ ~x.real)
Sourced(g, h) == \A q \in DOMAIN g : g[q].role = "toolResult" => Source(h, g[q])

\* Results put together have their sources.
LEMMA SourcedGrows ==
  ASSUME NEW E, NEW g \in Seq(E), NEW new \in Seq(E), NEW h, Sourced(g, h), Sourced(new, h)
  PROVE  Sourced(g \o new, h)
<1> DEFINE t == g \o new
<1>1. \A q \in DOMAIN t : (q \in DOMAIN g /\ t[q] = g[q]) \/ (q - Len(g) \in DOMAIN new /\ t[q] = new[q - Len(g)])
  OBVIOUS
<1> HIDE DEF t
<1>2. Sourced(t, h)
  BY <1>1 DEF Sourced
<1> QED BY <1>2 DEF t

\* One round of the loop that inserts the missing results.
LEMMA PieceAdds ==
  ASSUME NEW m \in Models, NEW h \in Seq(MessagesTo(m)), NEW k \in 1..Len(h),
         NEW g \in Seq(MessagesTo(m)), Before(g, h, k), Sourced(g, h)
  PROVE  LET t == g \o (Flush(h, k) \o Replayed(h[k]))
         IN  Before(t, h, k + 1) /\ Sourced(t, h)
<1> DEFINE E == MessagesTo(m)
           a == Flush(h, k)
           b == Replayed(h[k])
<1>0. k \in 1..(Len(h) + 1) /\ h[k] \in E /\ k \in DOMAIN h
  OBVIOUS
<1>1. a \in Seq(ReturnsTo(m)) /\ \A d \in DOMAIN a : Source(h, a[d])
  BY <1>0, FlushMakesUp DEF Source
<1>2. a \in Seq(E)
  <2> HIDE DEF a
  <2>1. ReturnsTo(m) \subseteq E
    BY DEF MessagesTo
  <2> HIDE DEF E
  <2> QED BY <1>1, <2>1, Widened
<1>3. b \in Seq(E) /\ (b = <<>> \/ b = <<h[k]>>)
  <2> HIDE DEF E
  <2> QED BY <1>0, Tuples DEF Replayed
<1>4. Sourced(a, h)
  <2> HIDE DEF a
  <2> QED BY <1>1 DEF Sourced
<1>5. Sourced(b, h)
  <2> HIDE DEF b
  <2>1. Source(h, h[k])
    BY <1>0 DEF Source
  <2>2. \A d \in DOMAIN b : b[d] = h[k]
    BY <1>3
  <2> QED BY <2>1, <2>2 DEF Sourced
<1>6. g \o a \in Seq(E) /\ Flushed(g \o a, h, k)
  BY <1>0, FlushStep
<1>7. Before((g \o a) \o b, h, k + 1)
  BY <1>6, ReplayStep
<1>8. Sourced((g \o a) \o b, h)
  <2> HIDE DEF a, b, E
  <2>0. g \in Seq(E)
    BY DEF E
  <2> DEFINE c == g \o a
  <2>1. Sourced(c, h) /\ c \in Seq(E)
    BY <1>2, <1>4, <1>6, <2>0, SourcedGrows
  <2> HIDE DEF c
  <2>2. Sourced(c \o b, h)
    BY <1>3, <1>5, <2>1, SourcedGrows
  <2> QED BY <2>2 DEF c
<1>9. (g \o a) \o b = g \o (a \o b)
  <2> HIDE DEF a, b, E
  <2>1. g \in Seq(E) /\ a \in Seq(E) /\ b \in Seq(E)
    BY <1>2, <1>3 DEF E
  <2> QED BY <2>1, SMTT(30)
<1> HIDE DEF a, b
<1> QED BY <1>7, <1>8, <1>9 DEF a, b

\* The whole loop: every answer that is replayed keeps its results in time and gets the missing ones.
LEMMA Inserted ==
  ASSUME NEW m \in Models, NEW h \in Seq(MessagesTo(m))
  PROVE  LET r == InsertOrphanToolResults(h)
         IN  Flushed(r, h, Len(h) + 1) /\ Sourced(r, h) /\ r \in Seq(MessagesTo(m))
<1> DEFINE E == MessagesTo(m)
           n == Len(h)
           dd == [i \in DOMAIN h |-> Flush(h, i) \o Replayed(h[i])]
<1>0. n \in Nat /\ DOMAIN h = 1..n
  OBVIOUS
<1>1. dd \in Seq(Seq(E)) /\ Len(dd) = n /\ \A i \in 1..n : dd[i] = Flush(h, i) \o Replayed(h[i])
  <2>1. ASSUME NEW i \in 1..n PROVE dd[i] \in Seq(E)
    <3> DEFINE F == Flush(h, i)
               R == Replayed(h[i])
    <3>1. F \in Seq(ReturnsTo(m))
      BY <1>0, FlushMakesUp
    <3>2. ReturnsTo(m) \subseteq E
      BY DEF MessagesTo
    <3>3. R \in Seq(E)
      <4>1. h[i] \in E
        BY <1>0
      <4> HIDE DEF E
      <4> QED BY <4>1, Tuples DEF Replayed
    <3>4. dd[i] = F \o R
      BY <1>0
    <3> HIDE DEF F, R, dd, E
    <3>5. F \in Seq(E)
      BY <3>1, <3>2, Widened
    <3> QED BY <3>3, <3>4, <3>5
  <2>2. dd = [i \in 1..n |-> dd[i]] /\ \A i \in 1..n : dd[i] = Flush(h, i) \o Replayed(h[i])
    BY <1>0
  <2> HIDE DEF dd, E, n
  <2> QED BY <1>0, <2>1, <2>2, Listed
<1>2. InsertOrphanToolResults(h) = FlattenSeq(dd) \o Flush(h, n + 1)
  BY DEF InsertOrphanToolResults
<1> HIDE DEF dd
<1>3. PICK f \in [0..Len(dd) -> Seq(E)] :
         f[0] = <<>> /\ FlattenSeq(dd) = f[Len(dd)] /\ \A i \in 1..Len(dd) : f[i] = f[i - 1] \o dd[i]
  BY <1>1, Flattened
<1> DEFINE T == {k \in Nat : k <= n => Before(f[k], h, k + 1) /\ Sourced(f[k], h)}
<1>4. 0 \in T
  <2>1. f[0] = <<>> /\ DOMAIN <<>> = {}
    BY <1>3
  <2> QED BY <2>1 DEF Before, Sourced
<1>5. ASSUME NEW k \in Nat, k \in T PROVE k + 1 \in T
  <2> SUFFICES ASSUME k + 1 <= n PROVE Before(f[k + 1], h, (k + 1) + 1) /\ Sourced(f[k + 1], h)
    OBVIOUS
  <2> DEFINE i == k + 1
  <2>1. i \in 1..n /\ i - 1 = k /\ k <= n /\ k \in 0..n /\ i \in Nat
    BY <1>0
  <2>2. Before(f[k], h, i) /\ Sourced(f[k], h)
    BY <1>5, <2>1
  <2> HIDE DEF i
  <2>3. f[i] = f[k] \o (Flush(h, i) \o Replayed(h[i])) /\ f[k] \in Seq(E)
    <3>1. f[i] = f[i - 1] \o dd[i]
      BY <1>1, <1>3, <2>1
    <3>2. f[k] \in Seq(E)
      <4> HIDE DEF E
      <4> QED BY <1>1, <1>3, <2>1
    <3> QED BY <1>1, <2>1, <3>1, <3>2
  <2> DEFINE g == f[k]
  <2>4. g \in Seq(MessagesTo(m)) /\ Before(g, h, i) /\ Sourced(g, h)
            /\ f[i] = g \o (Flush(h, i) \o Replayed(h[i]))
    BY <2>2, <2>3
  <2> HIDE DEF g
  <2>5. Before(f[i], h, i + 1) /\ Sourced(f[i], h)
    BY <2>1, <2>4, PieceAdds
  <2> QED BY <2>5 DEF i
<1>6. Nat \subseteq T
  <2> HIDE DEF T
  <2> QED BY <1>4, <1>5, NatInductionSet
<1> DEFINE g == f[n]
           F == Flush(h, n + 1)
<1>7. Before(g, h, n + 1) /\ Sourced(g, h) /\ g \in Seq(E) /\ FlattenSeq(dd) = g
  <2>1. n \in 0..Len(dd)
    BY <1>0, <1>1
  <2>2. g \in Seq(E)
    <3> HIDE DEF E
    <3> QED BY <1>3, <2>1
  <2> QED BY <1>0, <1>1, <1>3, <1>6, <2>2
<1>8. n + 1 \in 1..(Len(h) + 1)
  BY <1>0
<1> HIDE DEF g
<1>9. g \o F \in Seq(E) /\ Flushed(g \o F, h, n + 1)
  BY <1>7, <1>8, FlushStep
<1>10. Sourced(g \o F, h)
  <2>1. F \in Seq(ReturnsTo(m)) /\ \A d \in DOMAIN F : Source(h, F[d])
    BY <1>8, FlushMakesUp DEF Source
  <2>2. ReturnsTo(m) \subseteq E
    BY DEF MessagesTo
  <2> HIDE DEF F, E
  <2>3. F \in Seq(E)
    BY <2>1, <2>2, Widened
  <2>4. Sourced(F, h)
    BY <2>1 DEF Sourced
  <2> QED BY <1>7, <2>3, <2>4, SourcedGrows
<1> HIDE DEF F
<1> QED BY <1>2, <1>7, <1>9, <1>10 DEF F

\* What a history that is ready for replay holds for every call.
Settled(r) ==
  \A q \in DOMAIN r : r[q].role = "assistant" => \A c \in Range(Calls(r[q])) :
     IF InTime(c.id.n)
     THEN \E u \in After(r, q, Tools) :
             /\ r[u].real /\ r[u].id = c.id
             /\ \A v \in DOMAIN r : r[v].role = "toolResult" /\ r[v].id.n = c.id.n => r[v] = r[u]
     ELSE Has(r, q, MadeUpFor(c))

\* A history that is ready for m holds, behind every answer that is replayed, one result for each call: the real
\* one if it came in time, and no other; else a made-up one.
LEMMA HistorySettled ==
  ASSUME ConversationInv, NEW m \in Models
  PROVE  Settled(TransformHistory(history, m))
<1> DEFINE h == Transformed(m)
           r == TransformHistory(history, m)
           k == Len(h) + 1
<1>1. h \in Seq(MessagesTo(m)) /\ Len(h) \in Nat /\ DOMAIN h = 1..Len(h)
  <2>1. h \in Seq(MessagesTo(m))
    BY TransformedEach DEF ConversationInv
  <2> HIDE DEF h
  <2> QED BY <2>1
<1>2. Unique(h) /\ Matched(h) /\ Single(h) /\ Timed(h)
  BY CallsUnique, ResultsMatched, CallsTimed
<1>3. Flushed(r, h, k) /\ Sourced(r, h)
  <2>1. r = InsertOrphanToolResults(h)
    BY DEF TransformHistory, Transformed
  <2> HIDE DEF r, h
  <2> QED BY <1>1, <2>1, Inserted
<1>4. Stops(h, k)
  BY <1>1 DEF Stops
<1> HIDE DEF h, r, k
<1>5. ASSUME NEW q \in DOMAIN r, r[q].role = "assistant", NEW c \in Range(Calls(r[q]))
      PROVE  IF InTime(c.id.n)
             THEN \E u \in After(r, q, Tools) :
                     /\ r[u].real /\ r[u].id = c.id
                     /\ \A v \in DOMAIN r : r[v].role = "toolResult" /\ r[v].id.n = c.id.n => r[v] = r[u]
             ELSE Has(r, q, MadeUpFor(c))
  <2>1. PICK i \in 1..(k - 1) : Copied(r, q, h, i, k) /\ Filled(r, q, h, i)
    BY <1>3, <1>4, <1>5 DEF Flushed
  <2>2. i \in DOMAIN h /\ h[i] = r[q] /\ c \in Range(Calls(h[i])) /\ \A j \in After(h, i, Tools) : Has(r, q, h[j])
    <3>1. \A j \in After(h, i, Tools) : j < k
      <4>1. \A j \in After(h, i, Tools) : j \in i + 1..Len(h)
        BY DEF After
      <4> QED BY <1>1, <4>1 DEF k
    <3> QED BY <1>5, <2>1, <3>1 DEF Copied
  <2>3. CASE ~InTime(c.id.n)
    <3>1. c.id \notin IdsAfter(h, i)
      <4>1. \A j \in After(h, i, Tools) : h[j].id.n # c.id.n
        BY <1>2, <2>2, <2>3 DEF Timed
      <4> QED BY <4>1 DEF IdsAfter
    <3> QED BY <2>1, <2>2, <2>3, <3>1 DEF Filled
  <2>4. CASE InTime(c.id.n)
    <3>1. PICK j \in After(h, i, Tools) : h[j].id.n = c.id.n
      BY <1>2, <2>2, <2>4 DEF Timed
    <3>2. j \in DOMAIN h /\ h[j].role = "toolResult"
      <4>1. j \in i + 1..Len(h) /\ \A v \in i + 1..j : h[v].role \in Tools
        BY <3>1 DEF After
      <4>2. j \in i + 1..j /\ j \in DOMAIN h
        BY <1>1, <2>2, <4>1
      <4> QED BY <4>1, <4>2 DEF Tools
    <3>3. h[j].real /\ h[j].id = c.id
      BY <1>2, <2>2, <3>1, <3>2 DEF Matched
    <3>4. PICK u \in After(r, q, Tools) : r[u] = h[j]
      BY <2>2, <3>1 DEF Has
    <3>5. ASSUME NEW v \in DOMAIN r, r[v].role = "toolResult", r[v].id.n = c.id.n PROVE r[v] = h[j]
      <4>1. Source(h, r[v])
        BY <1>3, <3>5 DEF Sourced
      <4>2. CASE \E l \in DOMAIN h : r[v] = h[l]
        <5>1. PICK l \in DOMAIN h : r[v] = h[l]
          BY <4>2
        <5>2. h[l].role = "toolResult" /\ h[l].id.n = h[j].id.n
          BY <3>1, <3>5, <5>1
        <5>3. l = j
          BY <1>2, <3>2, <5>2 DEF Single
        <5> QED BY <5>1, <5>3
      <4>3. CASE MadeUp(h, r[v])
        <5>1. PICK l \in DOMAIN h : \E d \in Range(Calls(h[l])) : d.id \notin IdsAfter(h, l)
                  /\ r[v] = MadeUpFor(d)
          BY <4>3 DEF MadeUp
        <5>2. PICK d \in Range(Calls(h[l])) : d.id \notin IdsAfter(h, l) /\ r[v] = MadeUpFor(d)
          BY <5>1
        <5>3. r[v].id = d.id
          BY <5>2 DEF MadeUpFor, ToolResult
        <5>4. l = i /\ d.id = c.id
          BY <1>2, <2>2, <3>5, <5>3 DEF Unique
        <5>5. c.id \in IdsAfter(h, i)
          BY <3>1, <3>3 DEF IdsAfter
        <5> QED BY <5>2, <5>4, <5>5
      <4> QED BY <4>1, <4>2, <4>3 DEF Source
    <3> QED BY <2>4, <3>3, <3>4, <3>5
  <2> QED BY <2>3, <2>4
<1> QED BY <1>5 DEF Settled, r

-----------------------------------------------------------------------------
(* The turns of the request, and the calls they answer                     *)

\* The roles of turns that answer.
Answering == {"results", "pictures"}

\* What a step of the conversion does to the turns it has.
Extends(old, new) ==
  /\ Len(old) <= Len(new)
  /\ \A u \in DOMAIN old : /\ new[u].role = old[u].role
                           /\ Range(old[u].parts) \subseteq Range(new[u].parts)
                           /\ old[u].role = "assistant" => new[u] = old[u]

\* The turns that answer turn t carry p.
TurnsHave(turns, t, p) == \E u \in After(turns, t, Answering) : p \in Range(turns[u].parts)

\* A step of the conversion takes no answer away.
LEMMA ExtendsHave ==
  ASSUME NEW A, NEW old \in Seq(A), NEW new \in Seq(A), Extends(old, new), NEW t \in DOMAIN old, NEW p,
         TurnsHave(old, t, p)
  PROVE  TurnsHave(new, t, p)
<1>1. PICK u \in After(old, t, Answering) : p \in Range(old[u].parts)
  BY DEF TurnsHave
<1>2. DOMAIN old = 1..Len(old) /\ Len(old) \in Nat /\ Len(new) \in Nat /\ Len(old) <= Len(new)
  BY DEF Extends
<1>3. u \in t + 1..Len(old) /\ \A v \in t + 1..u : old[v].role \in Answering
  BY <1>1 DEF After
<1>4. u \in t + 1..Len(new) /\ u \in DOMAIN old /\ \A v \in t + 1..u : v \in DOMAIN old
  BY <1>2, <1>3
<1>5. \A v \in t + 1..u : new[v].role \in Answering
  BY <1>3, <1>4 DEF Extends
<1>6. u \in After(new, t, Answering)
  BY <1>4, <1>5 DEF After
<1>7. p \in Range(new[u].parts)
  BY <1>1, <1>4 DEF Extends
<1> QED BY <1>6, <1>7 DEF TurnsHave

\* Appending turns changes none.
LEMMA ConcatExtends ==
  ASSUME NEW A, NEW old \in Seq(A), NEW added \in Seq(A)
  PROVE  Extends(old, old \o added)
<1> DEFINE new == old \o added
<1>1. Len(old) <= Len(new) /\ \A u \in DOMAIN old : new[u] = old[u]
  OBVIOUS
<1> HIDE DEF new
<1>2. Extends(old, new)
  BY <1>1 DEF Extends
<1> QED BY <1>2 DEF new

\* The result is in the last of the turns, or in one that comes after them.
Carries(old, new, r) ==
  /\ Extends(old, new)
  /\ \A u \in Len(old) + 1..Len(new) : new[u].role \in Answering
  /\ \E u \in DOMAIN new : u >= Len(old) /\ new[u].role = "results" /\ r \in Range(new[u].parts)

\* A part that is appended is there, and the others stay.
LEMMA Appended ==
  ASSUME NEW E, NEW s \in Seq(E), NEW r
  PROVE  Range(s) \subseteq Range(Append(s, r)) /\ r \in Range(Append(s, r))
<1> DEFINE t == Append(s, r)
<1>1. Len(s) \in Nat /\ DOMAIN s = 1..Len(s) /\ DOMAIN t = 1..Len(s) + 1 /\ t[Len(s) + 1] = r
      /\ \A i \in 1..Len(s) : t[i] = s[i]
  OBVIOUS
<1> HIDE DEF t
<1>2. Range(s) \subseteq Range(t)
  <2> SUFFICES ASSUME NEW x \in Range(s) PROVE x \in Range(t)
    OBVIOUS
  <2>1. PICK i \in DOMAIN s : s[i] = x
    BY DEF Range
  <2>2. i \in DOMAIN t /\ t[i] = x
    BY <1>1, <2>1
  <2> QED BY <2>2 DEF Range
<1>3. r \in Range(t)
  <2>1. Len(s) + 1 \in DOMAIN t
    BY <1>1
  <2> QED BY <1>1, <2>1 DEF Range
<1> QED BY <1>2, <1>3 DEF t

\* A result that is joined or appended is carried.
LEMMA JoinCarries ==
  ASSUME NEW C, NEW turns \in Seq(TurnsIn(Roles, C)), NEW joins \in BOOLEAN,
         joins => turns # <<>> /\ Last(turns).role = "results", NEW r \in C
  PROVE  Carries(turns, Join(turns, joins, r), r)
<1> DEFINE A == TurnsIn(Roles, C)
           n == Len(turns)
<1>0. n \in Nat /\ DOMAIN turns = 1..n
  OBVIOUS
<1>1. CASE ~joins
  <2> DEFINE x == Turn("results", <<r>>)
             new == Append(turns, x)
  <2>1. Join(turns, joins, r) = new
    BY <1>1 DEF Join
  <2>2. x.role = "results" /\ r \in Range(x.parts)
    <3>1. x.role = "results" /\ x.parts = <<r>> /\ 1 \in DOMAIN <<r>> /\ <<r>>[1] = r
      BY DEF Turn
    <3> QED BY <3>1 DEF Range
  <2> HIDE DEF x
  <2>3. Len(new) = n + 1 /\ new[n + 1] = x /\ DOMAIN new = 1..(n + 1) /\ \A u \in DOMAIN turns : new[u] = turns[u]
    BY <1>0
  <2> HIDE DEF new
  <2>4. Extends(turns, new)
    BY <1>0, <2>3 DEF Extends
  <2>5. \A u \in n + 1..Len(new) : u = n + 1
    BY <1>0, <2>3
  <2>6. n + 1 \in DOMAIN new /\ n + 1 >= n
    BY <1>0, <2>3
  <2> QED BY <2>1, <2>2, <2>3, <2>4, <2>5, <2>6 DEF Carries, Answering
<1>2. CASE joins
  <2> DEFINE last == turns[n]
             x == Turn("results", Append(last.parts, r))
             front == SubSeq(turns, 1, n - 1)
             new == front \o <<x>>
  <2>1. n > 0 /\ n \in DOMAIN turns /\ last.role = "results"
    BY <1>0, <1>2 DEF Last
  <2>2. Join(turns, joins, r) = new
    BY <1>2 DEF Join, Front, Last
  <2>3. last.parts \in Seq(C)
    <3>1. last \in A
      <4> HIDE DEF A
      <4>1. turns \in Seq(A)
        BY DEF A
      <4> QED BY <2>1, <4>1
    <3> HIDE DEF last
    <3> QED BY <3>1 DEF TurnsIn
  <2>4. x.role = "results" /\ Range(last.parts) \subseteq Range(x.parts) /\ r \in Range(x.parts)
    <3>1. x.role = "results" /\ x.parts = Append(last.parts, r)
      BY DEF Turn
    <3> DEFINE s == last.parts
    <3>2. s \in Seq(C)
      BY <2>3
    <3> HIDE DEF s
    <3>3. Range(s) \subseteq Range(Append(s, r)) /\ r \in Range(Append(s, r))
      BY <3>2, Appended
    <3> HIDE DEF x
    <3> QED BY <3>1, <3>3 DEF s
  <2> HIDE DEF x
  <2>5. Len(front) = n - 1 /\ (\A u \in 1..(n - 1) : front[u] = turns[u]) /\ front \in Seq(A)
    <3> HIDE DEF A
    <3>1. turns \in Seq(A)
      BY DEF A
    <3> QED BY <1>0, <2>1, <3>1
  <2> HIDE DEF front
  <2>6. Len(new) = n /\ new[n] = x /\ DOMAIN new = 1..n /\ \A u \in 1..(n - 1) : new[u] = turns[u]
    <3> DEFINE B == A \cup {x}
    <3>1. A \subseteq B /\ x \in B
      OBVIOUS
    <3> HIDE DEF A, B
    <3>2. front \in Seq(B)
      BY <2>5, <3>1, Widened
    <3>3. new = Append(front, x)
      BY <3>1, <3>2
    <3> HIDE DEF new
    <3>4. Len(new) = Len(front) + 1 /\ new[Len(front) + 1] = x /\ DOMAIN new = 1..(Len(front) + 1)
          /\ \A u \in 1..Len(front) : new[u] = front[u]
      BY <3>1, <3>2, <3>3
    <3>5. Len(front) = n - 1 /\ (n - 1) + 1 = n
      BY <1>0, <2>5
    <3> QED BY <2>5, <3>4, <3>5
  <2> HIDE DEF new
  <2>7. \A u \in DOMAIN turns : u \in 1..(n - 1) \/ u = n
    BY <1>0
  <2>8. Extends(turns, new)
    <3>1. \A u \in 1..(n - 1) : new[u] = turns[u]
      BY <2>6
    <3>2. new[n].role = turns[n].role /\ Range(turns[n].parts) \subseteq Range(new[n].parts)
              /\ turns[n].role # "assistant"
      BY <2>1, <2>4, <2>6
    <3> HIDE DEF last
    <3> QED BY <1>0, <2>6, <2>7, <3>1, <3>2 DEF Extends
  <2>9. \A u \in n + 1..Len(new) : FALSE
    BY <1>0, <2>6
  <2> HIDE DEF last
  <2> QED BY <1>0, <2>1, <2>2, <2>4, <2>6, <2>8, <2>9 DEF Carries
<1> QED BY <1>1, <1>2

\* Pictures behind a result change nothing.
LEMMA CarriesOn ==
  ASSUME NEW A, NEW old \in Seq(A), NEW new \in Seq(A), NEW pics \in Seq(A), NEW r, Carries(old, new, r),
         \A d \in DOMAIN pics : pics[d].role = "pictures"
  PROVE  Carries(old, new \o pics, r)
<1> DEFINE t == new \o pics
           a == Len(old)
           b == Len(new)
<1>1. a \in Nat /\ b \in Nat /\ DOMAIN old = 1..a /\ DOMAIN new = 1..b /\ DOMAIN t = 1..Len(t) /\ Len(t) \in Nat
      /\ b <= Len(t) /\ (\A u \in 1..b : t[u] = new[u]) /\ (\A u \in b + 1..Len(t) : u - b \in DOMAIN pics
             /\ t[u] = pics[u - b])
  OBVIOUS
<1>2. a <= b
  BY DEF Carries, Extends
<1> HIDE DEF t
<1>3. Extends(old, t)
  <2>1. \A u \in DOMAIN old : t[u] = new[u]
    BY <1>1, <1>2
  <2>2. Extends(old, new)
    BY DEF Carries
  <2>3. a <= Len(t)
    BY <1>1, <1>2
  <2> QED BY <2>1, <2>2, <2>3 DEF Extends
<1>4. \A u \in a + 1..Len(t) : t[u].role \in Answering
  <2> SUFFICES ASSUME NEW u \in a + 1..Len(t) PROVE t[u].role \in Answering
    OBVIOUS
  <2>1. CASE u <= b
    <3>1. u \in a + 1..Len(new) /\ u \in 1..b
      BY <1>1, <2>1
    <3> QED BY <1>1, <3>1 DEF Carries
  <2>2. CASE u > b
    <3>1. u \in b + 1..Len(t)
      BY <1>1, <2>2
    <3> QED BY <1>1, <3>1 DEF Answering
  <2> QED BY <1>1, <2>1, <2>2
<1>5. \E u \in DOMAIN t : u >= a /\ t[u].role = "results" /\ r \in Range(t[u].parts)
  <2>1. PICK u \in DOMAIN new : u >= a /\ new[u].role = "results" /\ r \in Range(new[u].parts)
    BY DEF Carries
  <2>2. u \in DOMAIN t /\ t[u] = new[u]
    BY <1>1
  <2> QED BY <2>1, <2>2
<1>6. Carries(old, t, r)
  BY <1>3, <1>4, <1>5 DEF Carries
<1> QED BY <1>6 DEF t

\* Every adapter carries the result of a tool, at the end of what it has.
LEMMA ReturnCarries ==
  ASSUME NEW m \in Models, NEW msgs \in Seq(MessagesTo(m)), NEW i \in 1..Len(msgs),
         NEW turns, Built(turns, m, msgs, i - 1),
         msgs[i].role = "toolResult"
  PROVE  Carries(turns, AddMessage(turns, msgs, i, m), ResultOf(msgs[i], m))
<1> DEFINE msg == msgs[i]
           W == Wire(m, msgs)
           result == AddMessage(turns, msgs, i, m)
           r == ResultOf(msg, m)
           j == Joins(turns, msgs, i, m)
           joined == Join(turns, j, r)
           A == PicturesFor(m)
           B == TurnsIn(Roles, W)
<1>1. msg \in ReturnsTo(m)
  <2>1. msg \in MessagesTo(m)
    OBVIOUS
  <2> QED BY <2>1, TypedApart
<1>2. turns \in Seq(B)
  BY DEF Built
<1>3. r \in W
  <2>1. r \in Carried(m)
    BY <1>1, ResultTyped
  <2>2. i \in DOMAIN msgs
    OBVIOUS
  <2> QED BY <2>1, <2>2 DEF Wire
<1>4. j \in BOOLEAN /\ (j => turns # <<>> /\ Last(turns).role = "results")
  <2>1. j \in BOOLEAN /\ (j => turns # <<>>)
    BY JoinsFilled
  <2>2. AfterResult(msgs, i) => i - 1 > 0 /\ msgs[i - 1].role = "toolResult"
    BY DEF AfterResult
  <2>3. AfterResult(msgs, i) /\ m.api \in {"anthropic", "bedrock"} => Last(turns).role = "results"
    BY <2>2 DEF Built
  <2> QED BY <2>1, <2>3 DEF Joins
<1>5. Reports(turns, result, msgs, i, m, msg)
  <2> HIDE DEF W, r
  <2> QED BY <1>1, <1>2, <1>3, <1>4, ReturnAdds DEF r
<1>6. PICK pics \in Seq(A) : result = joined \o pics
  BY <1>5 DEF Reports
<1>7. Carries(turns, joined, r) /\ joined \in Seq(B)
  <2> HIDE DEF j, r, W
  <2> QED BY <1>2, <1>3, <1>4, JoinCarries, JoinTyped
<1>8. A \subseteq B /\ \A d \in DOMAIN pics : pics[d].role = "pictures"
  <2>1. A \subseteq B
    <3> DEFINE I == {p \in Carried(m) : p.kind = "image"}
    <3>1. {"pictures"} \subseteq Roles /\ I \subseteq W
      BY DEF Roles, Wire
    <3> HIDE DEF W, I
    <3>2. TurnsIn({"pictures"}, I) \subseteq TurnsIn(Roles, W)
      BY <3>1, TurnsWidened
    <3> QED BY <3>2 DEF PicturesFor, I
  <2>2. \A x \in A : x.role = "pictures"
    BY DEF PicturesFor, TurnsIn
  <2> HIDE DEF A
  <2> QED BY <1>6, <2>1, <2>2
<1> HIDE DEF A, B, joined, result, r
<1>9. pics \in Seq(B)
  BY <1>6, <1>8, Widened
<1>10. Carries(turns, joined \o pics, r)
  BY <1>2, <1>7, <1>8, <1>9, CarriesOn
<1> QED BY <1>6, <1>10 DEF result, r

\* Turn t carries the calls of message q, and is answered as message q is.
Linked(turns, t, id, msgs, q, k, m) ==
  /\ msgs[q].role = "assistant" /\ \E c \in Range(Calls(msgs[q])) : id = SentId(c.id, m)
  /\ Rests(msgs, q, k + 1) => \A u \in t + 1..Len(turns) : turns[u].role \in Answering
  /\ \A v \in After(msgs, q, Tools) : v <= k => TurnsHave(turns, t, ResultOf(msgs[v], m))

\* Every call that the turns carry so far is that of an answer, and is answered as that is.
Walked(turns, msgs, k, m) ==
  \A t \in DOMAIN turns : turns[t].role = "assistant" => \A p \in Range(turns[t].parts) : p.kind = "call" =>
     \E q \in 1..k : Linked(turns, t, p.id, msgs, q, k, m)

\* The tools go on speaking as long as the next message is a result.
LEMMA RestsOn ==
  ASSUME NEW msgs, NEW i \in Nat \ {0}, NEW q \in 1..(i - 1)
  PROVE  Rests(msgs, q, i + 1) <=> Rests(msgs, q, (i - 1) + 1) /\ msgs[i].role = "toolResult"
<1>1. \A l : l \in q + 1..((i + 1) - 1) <=> l \in q + 1..(((i - 1) + 1) - 1) \/ l = i
  OBVIOUS
<1> QED BY <1>1 DEF Rests

\* A tool's result answers the turn that the tools have been answering.
LEMMA ReturnWalks ==
  ASSUME NEW m \in Models, NEW msgs \in Seq(MessagesTo(m)), NEW i \in 1..Len(msgs), NEW E,
         NEW old \in Seq(E), NEW new \in Seq(E),
         msgs[i].role = "toolResult", Carries(old, new, ResultOf(msgs[i], m)), Walked(old, msgs, i - 1, m)
  PROVE  Walked(new, msgs, i, m)
<1> DEFINE r == ResultOf(msgs[i], m)
           a == Len(old)
           b == Len(new)
<1>0. a \in Nat /\ b \in Nat /\ DOMAIN old = 1..a /\ DOMAIN new = 1..b /\ i \in Nat \ {0} /\ Len(msgs) \in Nat
  OBVIOUS
<1> HIDE DEF r
<1>1. Extends(old, new) /\ (\A u \in a + 1..b : new[u].role \in Answering) /\ a <= b
      /\ \E u \in DOMAIN new : u >= a /\ new[u].role = "results" /\ r \in Range(new[u].parts)
  BY DEF Carries, Extends, r
<1>2. ASSUME NEW t \in DOMAIN new, new[t].role = "assistant", NEW p \in Range(new[t].parts), p.kind = "call"
      PROVE  \E q \in 1..i : Linked(new, t, p.id, msgs, q, i, m)
  <2>1. t \in DOMAIN old
    <3>1. t \notin a + 1..b
      BY <1>1, <1>2 DEF Answering
    <3> QED BY <1>0, <3>1
  <2>2. old[t].role = "assistant" /\ new[t] = old[t]
    BY <1>1, <1>2, <2>1 DEF Extends
  <2>3. PICK q \in 1..(i - 1) : Linked(old, t, p.id, msgs, q, i - 1, m)
    BY <1>2, <2>1, <2>2 DEF Walked
  <2>4. q \in 1..i /\ q \in Nat
    BY <1>0
  <2>5. Rests(msgs, q, i + 1) => Rests(msgs, q, (i - 1) + 1)
    BY <1>0, RestsOn
  <2>6. ASSUME Rests(msgs, q, i + 1) PROVE \A u \in t + 1..b : new[u].role \in Answering
    <3> SUFFICES ASSUME NEW u \in t + 1..b PROVE new[u].role \in Answering
      OBVIOUS
    <3>1. CASE u <= a
      <4>1. u \in t + 1..a /\ u \in DOMAIN old
        BY <1>0, <2>1, <3>1
      <4>2. old[u].role \in Answering
        BY <2>3, <2>5, <2>6, <4>1 DEF Linked
      <4> QED BY <1>1, <4>1, <4>2 DEF Extends
    <3>2. CASE u > a
      <4>1. u \in a + 1..b
        BY <1>0, <2>1, <3>2
      <4> QED BY <1>1, <4>1
    <3> QED BY <1>0, <2>1, <3>1, <3>2
  <2>7. ASSUME NEW v \in After(msgs, q, Tools), v <= i PROVE TurnsHave(new, t, ResultOf(msgs[v], m))
    <3>1. v \in q + 1..Len(msgs) /\ \A l \in q + 1..v : msgs[l].role = "toolResult"
      BY <2>7 DEF After, Tools
    <3>2. CASE v # i
      <4>1. v <= i - 1
        BY <1>0, <2>4, <2>7, <3>1, <3>2
      <4>2. TurnsHave(old, t, ResultOf(msgs[v], m))
        BY <2>3, <2>7, <4>1 DEF Linked
      <4> QED BY <1>1, <2>1, <4>2, ExtendsHave
    <3>3. CASE v = i
      <4>1. Rests(msgs, q, i + 1)
        <5>1. (i + 1) - 1 = i
          BY <1>0
        <5> QED BY <3>1, <3>3, <5>1 DEF Rests
      <4>2. PICK u \in DOMAIN new : u >= a /\ new[u].role = "results" /\ r \in Range(new[u].parts)
        BY <1>1
      <4>3. u # t
        BY <1>2, <4>2
      <4>4. u \in t + 1..b
        BY <1>0, <2>1, <4>2, <4>3
      <4>5. \A w \in t + 1..u : new[w].role \in Answering
        BY <1>0, <2>6, <4>1, <4>4
      <4>6. u \in After(new, t, Answering)
        BY <4>4, <4>5 DEF After
      <4> QED BY <3>3, <4>2, <4>6 DEF TurnsHave, r
    <3> QED BY <3>2, <3>3
  <2>8. Linked(new, t, p.id, msgs, q, i, m)
    BY <2>3, <2>6, <2>7 DEF Linked
  <2> QED BY <2>4, <2>8
<1> QED BY <1>2 DEF Walked

\* A turn that answers, if there is one, comes last and carries calls of message i.
Asks(old, new, msgs, i, m) ==
  \A t \in DOMAIN new : t \in DOMAIN old \/ new[t].role # "assistant" \/
     (t = Len(new) /\ \A p \in Range(new[t].parts) : p.kind = "call" =>
        msgs[i].role = "assistant" /\ \E c \in Range(Calls(msgs[i])) : p.id = SentId(c.id, m))
     \/ \A p \in Range(new[t].parts) : p.kind # "call"

\* Who speaks ends the answers to the turn before, and may begin a turn with calls.
LEMMA SpeakWalks ==
  ASSUME NEW m \in Models, NEW msgs \in Seq(MessagesTo(m)), NEW i \in 1..Len(msgs), NEW E,
         NEW old \in Seq(E), NEW new \in Seq(E),
         msgs[i].role # "toolResult", Extends(old, new), Asks(old, new, msgs, i, m), Walked(old, msgs, i - 1, m)
  PROVE  Walked(new, msgs, i, m)
<1> DEFINE a == Len(old)
           b == Len(new)
<1>0. a \in Nat /\ b \in Nat /\ DOMAIN old = 1..a /\ DOMAIN new = 1..b /\ i \in Nat \ {0} /\ Len(msgs) \in Nat
  OBVIOUS
<1>2. ASSUME NEW t \in DOMAIN new, new[t].role = "assistant", NEW p \in Range(new[t].parts), p.kind = "call"
      PROVE  \E q \in 1..i : Linked(new, t, p.id, msgs, q, i, m)
  <2>1. CASE t \in DOMAIN old
    <3>2. old[t].role = "assistant" /\ new[t] = old[t]
      BY <1>2, <2>1 DEF Extends
    <3>3. PICK q \in 1..(i - 1) : Linked(old, t, p.id, msgs, q, i - 1, m)
      BY <1>2, <2>1, <3>2 DEF Walked
    <3>4. q \in 1..i /\ q \in Nat
      BY <1>0
    <3>5. ~Rests(msgs, q, i + 1)
      BY <1>0, RestsOn
    <3>7. ASSUME NEW v \in After(msgs, q, Tools), v <= i PROVE TurnsHave(new, t, ResultOf(msgs[v], m))
      <4>1. v \in q + 1..Len(msgs) /\ \A l \in q + 1..v : msgs[l].role = "toolResult"
        BY <3>7 DEF After, Tools
      <4>2. v \in q + 1..v
        BY <3>4, <4>1
      <4>3. v # i
        BY <4>1, <4>2
      <4>4. v <= i - 1
        BY <1>0, <3>4, <3>7, <4>1, <4>3
      <4>5. TurnsHave(old, t, ResultOf(msgs[v], m))
        BY <3>3, <3>7, <4>4 DEF Linked
      <4> QED BY <2>1, <4>5, ExtendsHave
    <3>8. Linked(new, t, p.id, msgs, q, i, m)
      BY <3>3, <3>5, <3>7 DEF Linked
    <3> QED BY <3>4, <3>8
  <2>2. CASE t \notin DOMAIN old
    <3>1. t = b /\ msgs[i].role = "assistant" /\ \E c \in Range(Calls(msgs[i])) : p.id = SentId(c.id, m)
      BY <1>2, <2>2 DEF Asks
    <3>2. \A u \in t + 1..b : FALSE
      BY <1>0, <3>1
    <3>3. \A v \in After(msgs, i, Tools) : ~(v <= i)
      <4>1. \A v \in After(msgs, i, Tools) : v \in i + 1..Len(msgs)
        BY DEF After
      <4> QED BY <1>0, <4>1
    <3>4. Linked(new, t, p.id, msgs, i, i, m)
      BY <3>1, <3>2, <3>3 DEF Linked
    <3>5. i \in 1..i
      BY <1>0
    <3> QED BY <3>4, <3>5
  <2> QED BY <2>1, <2>2
<1> QED BY <1>2 DEF Walked

\* A turn of the assistant that any adapter adds is the last, and its calls are those of the message.
LEMMA SpeakAsks ==
  ASSUME NEW m \in Models, NEW msgs \in Seq(MessagesTo(m)), NEW i \in 1..Len(msgs),
         NEW turns, Built(turns, m, msgs, i - 1),
         msgs[i].role # "toolResult"
  PROVE  LET new == AddMessage(turns, msgs, i, m)
         IN  Extends(turns, new) /\ Asks(turns, new, msgs, i, m)
<1> DEFINE msg == msgs[i]
           W == Wire(m, msgs)
           B == TurnsIn(Roles, W)
           S == Sent(m, msg.parts)
           A == TurnsIn(Talking, S)
           new == AddMessage(turns, msgs, i, m)
<1>1. msg \in MessagesTo(m)
  OBVIOUS
<1>2. turns \in Seq(B) /\ W \subseteq Carried(m)
  BY DEF Built, Wire
<1>3. turns \in Seq(TurnsIn(Roles, Carried(m)))
  <2>1. B \subseteq TurnsIn(Roles, Carried(m))
    <3> HIDE DEF W
    <3> QED BY <1>2, TurnsWidened
  <2> DEFINE D == TurnsIn(Roles, Carried(m))
  <2> HIDE DEF B, D
  <2> QED BY <1>2, <2>1, Widened DEF D
<1>4. A \subseteq B
  <2>1. Talking \subseteq Roles /\ S \subseteq W
    BY DEF Talking, Roles, Sent, Wire
  <2> HIDE DEF W, S
  <2> QED BY <2>1, TurnsWidened
<1>5. \A added \in Seq(A) : Extends(turns, turns \o added)
  <2> HIDE DEF A, B
  <2>1. ASSUME NEW added \in Seq(A) PROVE Extends(turns, turns \o added)
    <3>1. added \in Seq(B)
      BY <1>4, Widened
    <3> QED BY <1>2, <3>1, ConcatExtends
  <2> QED BY <2>1
<1>6. \A p \in S : p.kind = "call" => \E c \in Range(msg.parts) : c.kind = "call" /\ p.id = SentId(c.id, m)
  BY DEF Sent
<1>7. CASE msg.role = "assistant"
  <2>1. msg \in AnswersTo(m)
    BY <1>1, <1>7, TypedApart
  <2>2. PICK parts \in Seq(S) : new = turns \o Skipped("assistant", parts)
    <3>1. Replies(turns, new, m, msg)
      BY <2>1, RepliesTyped
    <3> QED BY <3>1 DEF Replies
  <2> DEFINE added == Skipped("assistant", parts)
  <2>3. added \in Seq(A)
    <3>1. "assistant" \in Talking
      BY DEF Talking
    <3> HIDE DEF S
    <3> QED BY <2>2, <3>1, SkippedTyped
  <2>4. Extends(turns, new)
    <3> HIDE DEF added, A, new
    <3> QED BY <1>5, <2>2, <2>3 DEF added
  <2>5. \A c \in Range(msg.parts) : c.kind = "call" => c \in Range(Calls(msg))
    <3>1. msg.parts \in Seq(Says(m))
      <4> HIDE DEF msg
      <4> QED BY <2>1 DEF AnswersTo
    <3> HIDE DEF msg
    <3> QED BY <1>7, <3>1, CallsAreParts
  <2>6. added = <<>> \/ added = <<Turn("assistant", parts)>>
    BY DEF Skipped
  <2>7. \A t \in DOMAIN new : t \in DOMAIN turns \/ (t = Len(new) /\ new[t] = Turn("assistant", parts))
    <3> DEFINE x == Turn("assistant", parts)
    <3>1. added \in Seq(B)
      <4> HIDE DEF added, A, B
      <4> QED BY <1>4, <2>3, Widened
    <3>2. CASE added = <<>>
      <4>1. new = turns
        <5> HIDE DEF added, B
        <5> QED BY <1>2, <2>2, <3>2 DEF added
      <4> QED BY <4>1
    <3>3. CASE added = <<x>>
      <4> HIDE DEF added, B, x, new
      <4>1. x \in B /\ new = Append(turns, x)
        <5>1. new = turns \o added
          BY <2>2 DEF added
        <5> QED BY <1>2, <3>1, <3>3, <5>1
      <4>2. Len(new) = Len(turns) + 1 /\ new[Len(turns) + 1] = x /\ DOMAIN new = 1..(Len(turns) + 1)
                /\ DOMAIN turns = 1..Len(turns) /\ Len(turns) \in Nat
        BY <1>2, <4>1
      <4>3. \A t \in DOMAIN new : t \in DOMAIN turns \/ t = Len(turns) + 1
        BY <4>2
      <4> QED BY <4>2, <4>3 DEF x
    <3> QED BY <2>6, <3>2, <3>3
  <2>8. \A p \in Range(Turn("assistant", parts).parts) : p \in S
    <3>1. Turn("assistant", parts).parts = parts
      BY DEF Turn
    <3> HIDE DEF S
    <3>2. \A p \in Range(parts) : p \in S
      BY <2>2 DEF Range
    <3> QED BY <3>1, <3>2
  <2> HIDE DEF new, S, msg
  <2>9. Asks(turns, new, msgs, i, m)
    <3>1. ASSUME NEW t \in DOMAIN new, t = Len(new), new[t] = Turn("assistant", parts),
                 NEW p \in Range(new[t].parts), p.kind = "call"
          PROVE  msgs[i].role = "assistant" /\ \E c \in Range(Calls(msgs[i])) : p.id = SentId(c.id, m)
      <4>1. p \in S
        BY <2>8, <3>1
      <4>2. PICK c \in Range(msg.parts) : c.kind = "call" /\ p.id = SentId(c.id, m)
        BY <1>6, <3>1, <4>1
      <4>3. c \in Range(Calls(msg))
        BY <2>5, <4>2
      <4> QED BY <1>7, <4>2, <4>3 DEF msg
    <3> QED BY <2>7, <3>1 DEF Asks
  <2> QED BY <2>4, <2>9 DEF new
<1>8. CASE msg.role # "assistant"
  <2>1. msg \in SpokenTo(m)
    BY <1>1, <1>8, TypedApart
  <2>2. \A c \in Range(msg.parts) : c.kind # "call"
    <3> DEFINE s == msg.parts
    <3>1. s \in Seq(Seen(m))
      <4> HIDE DEF msg
      <4> QED BY <2>1 DEF SpokenTo
    <3> HIDE DEF s
    <3>2. \A c \in Range(s) : c \in Seen(m)
      BY <3>1 DEF Range
    <3> QED BY <3>2 DEF Seen, Shows, s
  <2>3. PICK added \in Seq(A) : new = turns \o added
    <3>1. Speaks(turns, new, m, msg)
      BY <1>3, <2>1, SpeakAdds
    <3> QED BY <3>1 DEF Speaks, Talking
  <2>4. Extends(turns, new)
    <3> HIDE DEF A, new
    <3> QED BY <1>5, <2>3
  <2>5. \A x \in A : \A p \in Range(x.parts) : p.kind # "call"
    <3> SUFFICES ASSUME NEW x \in A, NEW p \in Range(x.parts) PROVE p.kind # "call"
      OBVIOUS
    <3>1. p \in S
      <4> HIDE DEF S
      <4>1. x.parts \in Seq(S)
        BY DEF TurnsIn
      <4> QED BY <4>1 DEF Range
    <3> HIDE DEF S
    <3> QED BY <1>6, <2>2, <3>1
  <2>6. \A t \in DOMAIN new : t \in DOMAIN turns \/ new[t] \in A
    <3> HIDE DEF A, B, new
    <3>1. added \in Seq(B)
      BY <1>4, <2>3, Widened
    <3>2. \A t \in DOMAIN new : t \in DOMAIN turns \/ (t - Len(turns) \in DOMAIN added
              /\ new[t] = added[t - Len(turns)])
      BY <1>2, <2>3, <3>1
    <3> QED BY <2>3, <3>2
  <2> HIDE DEF new, A
  <2>7. Asks(turns, new, msgs, i, m)
    BY <2>5, <2>6 DEF Asks
  <2> QED BY <2>4, <2>7 DEF new
<1> QED BY <1>7, <1>8

\* The whole conversion.
LEMMA TurnsWalked ==
  ASSUME NEW m \in Models, NEW msgs \in Seq(MessagesTo(m)), NEW f, Converts(f, m, msgs)
  PROVE  Walked(f[Len(msgs)], msgs, Len(msgs), m)
<1> DEFINE n == Len(msgs)
           T == {k \in Nat : k <= n => Walked(f[k], msgs, k, m)}
           B == TurnsIn(Roles, Wire(m, msgs))
<1>0. n \in Nat
  OBVIOUS
<1>1. 0 \in T
  <2>1. f[0] = <<>> /\ DOMAIN <<>> = {}
    BY DEF Converts
  <2> QED BY <2>1 DEF Walked
<1>2. ASSUME NEW k \in Nat, k \in T PROVE k + 1 \in T
  <2> SUFFICES ASSUME k + 1 <= n PROVE Walked(f[k + 1], msgs, k + 1, m)
    OBVIOUS
  <2> DEFINE i == k + 1
             old == f[i - 1]
             new == f[i]
  <2>1. i \in 1..n /\ i \in 1..Len(msgs) /\ i - 1 = k /\ k <= n /\ i - 1 \in 0..n /\ i \in 0..n
    BY <1>0
  <2> HIDE DEF i
  <2>2. Built(old, m, msgs, i - 1) /\ Built(new, m, msgs, i) /\ new = AddMessage(old, msgs, i, m)
    BY <2>1 DEF Converts
  <2>3. Walked(old, msgs, i - 1, m)
    BY <1>2, <2>1
  <2>4. old \in Seq(B) /\ new \in Seq(B)
    BY <2>2 DEF Built
  <2> HIDE DEF B, old, new
  <2>5. CASE msgs[i].role = "toolResult"
    <3>1. Carries(old, new, ResultOf(msgs[i], m))
      BY <2>1, <2>2, <2>5, ReturnCarries
    <3>2. Walked(new, msgs, i, m)
      BY <2>1, <2>3, <2>4, <2>5, <3>1, ReturnWalks
    <3> QED BY <3>2 DEF new, i
  <2>6. CASE msgs[i].role # "toolResult"
    <3>1. Extends(old, new) /\ Asks(old, new, msgs, i, m)
      BY <2>1, <2>2, <2>6, SpeakAsks
    <3>2. Walked(new, msgs, i, m)
      BY <2>1, <2>3, <2>4, <2>6, <3>1, SpeakWalks
    <3> QED BY <3>2 DEF new, i
  <2> QED BY <2>5, <2>6
<1>3. Nat \subseteq T
  <2> HIDE DEF T
  <2> QED BY <1>1, <1>2, NatInductionSet
<1> QED BY <1>0, <1>3

\* The results for a call are those the answering turns carry under its id.
LEMMA ResultsAre ==
  ASSUME NEW turns, NEW t, NEW id, NEW r
  PROVE  r \in ResultsFor(turns, t, id) <=> r.kind = "result" /\ r.id = id /\ TurnsHave(turns, t, r)
<1>1. Following(turns, t) = After(turns, t, Answering)
  BY DEF Following, After, Answering
<1>2. \A s : r \in Range(s) <=> r \in {s[i] : i \in DOMAIN s}
  BY DEF Range
<1>3. r \in ResultsFor(turns, t, id) <=>
         (\E u \in Following(turns, t) : r \in {turns[u].parts[i] : i \in DOMAIN turns[u].parts})
             /\ r.kind = "result" /\ r.id = id
  BY DEF ResultsFor
<1> QED BY <1>1, <1>2, <1>3 DEF TurnsHave

\* The id that is sent has the number of the call.
LEMMA SentNumbers ==
  ASSUME NEW m \in Models, NEW id \in IDs
  PROVE  SentId(id, m).n = id.n
BY SplitTyped DEF SentId

\* CallsAnswered for any models and any history: every call that a request carries is answered before anybody else
\* speaks, under its own id, once and by the real result if that came in time, else by a made-up one
\* (TransformMessages, convertMessages).
THEOREM CallsAnsweredHolds == ConversationSpec => []CallsAnswered
<1>1. ConversationInv => CallsAnswered
  <2> SUFFICES ASSUME ConversationInv, NEW m \in Models, NEW t \in DOMAIN ConvertMessages(history, m),
                      ConvertMessages(history, m)[t].role = "assistant",
                      NEW i \in DOMAIN ConvertMessages(history, m)[t].parts,
                      ConvertMessages(history, m)[t].parts[i].kind = "call"
               PROVE  LET turns == ConvertMessages(history, m)
                          id == turns[t].parts[i].id
                          results == ResultsFor(turns, t, id)
                      IN  IF InTime(id.n) THEN Cardinality(results) = 1 /\ \A r \in results : r.real
                          ELSE \E r \in results : ~r.real
    BY DEF CallsAnswered
  <2> DEFINE msgs == TransformHistory(history, m)
             turns == ConvertMessages(history, m)
             p == turns[t].parts[i]
             results == ResultsFor(turns, t, p.id)
             W == Wire(m, msgs)
             n == Len(msgs)
             InMessages(r) == \E v \in DOMAIN msgs : msgs[v].role = "toolResult" /\ r = ResultOf(msgs[v], m)
  <2>1. msgs \in Seq(MessagesTo(m)) /\ Settled(msgs)
    BY HistoryTransformed, HistorySettled DEF ConversationInv
  <2>2. PICK f : Converts(f, m, msgs) /\ turns = f[n]
    <3> HIDE DEF turns
    <3> QED BY <2>1, Folded DEF turns
  <2>3. turns \in Seq(TurnsIn(Roles, W)) /\ Walked(turns, msgs, n, m)
    <3>1. Len(msgs) \in 0..Len(msgs)
      BY <2>1
    <3> HIDE DEF turns
    <3> QED BY <2>1, <2>2, <3>1, TurnsWalked DEF Converts, Built
  <2>4. t \in DOMAIN turns /\ turns[t].role = "assistant" /\ p \in Range(turns[t].parts) /\ p.kind = "call"
    <3>1. p \in Range(turns[t].parts)
      BY DEF Range
    <3> QED BY <3>1
  <2> HIDE DEF turns, msgs, p
  <2>5. DOMAIN msgs = 1..n /\ n \in Nat
    BY <2>1
  <2>6. PICK q \in 1..n : Linked(turns, t, p.id, msgs, q, n, m)
    BY <2>3, <2>4 DEF Walked
  <2>7. PICK c \in Range(Calls(msgs[q])) : p.id = SentId(c.id, m)
    BY <2>6 DEF Linked
  <2>8. q \in DOMAIN msgs /\ msgs[q].role = "assistant" /\ c.id \in IDs /\ p.id.n = c.id.n
    <3>1. q \in DOMAIN msgs /\ msgs[q] \in MessagesTo(m) /\ msgs[q].role = "assistant"
      BY <2>1, <2>5, <2>6 DEF Linked
    <3> DEFINE s == Calls(msgs[q])
    <3>2. s \in Seq(CallsOf(m))
      BY <3>1, TransformedCalls
    <3> HIDE DEF s
    <3>3. c \in CallsOf(m)
      <4>1. c \in Range(s)
        BY DEF s
      <4> QED BY <3>2, <4>1 DEF Range
    <3>4. c.id \in IDs
      BY <3>3 DEF CallsOf
    <3> QED BY <2>7, <3>1, <3>4, SentNumbers
  <2>9. \A v \in After(msgs, q, Tools) : /\ v \in DOMAIN msgs /\ msgs[v].role = "toolResult"
                                         /\ TurnsHave(turns, t, ResultOf(msgs[v], m))
    <3> SUFFICES ASSUME NEW v \in After(msgs, q, Tools)
                 PROVE  v \in DOMAIN msgs /\ msgs[v].role = "toolResult"
                            /\ TurnsHave(turns, t, ResultOf(msgs[v], m))
      OBVIOUS
    <3>1. v \in q + 1..n /\ \A l \in q + 1..v : msgs[l].role = "toolResult"
      BY DEF After, Tools
    <3>2. v \in q + 1..v /\ v \in DOMAIN msgs /\ v <= n
      BY <2>5, <3>1
    <3> QED BY <2>6, <3>1, <3>2 DEF Linked
  <2>10. \A v \in DOMAIN msgs : msgs[v].role = "toolResult" =>
            LET r == ResultOf(msgs[v], m)
            IN  r.kind = "result" /\ r.id = SentId(msgs[v].id, m) /\ r.real = msgs[v].real
                    /\ r.id.n = msgs[v].id.n
    <3> SUFFICES ASSUME NEW v \in DOMAIN msgs, msgs[v].role = "toolResult"
                 PROVE  LET r == ResultOf(msgs[v], m)
                        IN  r.kind = "result" /\ r.id = SentId(msgs[v].id, m) /\ r.real = msgs[v].real
                                /\ r.id.n = msgs[v].id.n
      OBVIOUS
    <3>1. msgs[v] \in ReturnsTo(m)
      <4>1. msgs[v] \in MessagesTo(m)
        BY <2>1
      <4> QED BY <4>1, TypedApart
    <3>2. msgs[v].id \in IDs
      BY <3>1 DEF ReturnsTo
    <3> QED BY <3>1, <3>2, ResultTyped, SentNumbers
  <2>11. ASSUME NEW r \in results PROVE InMessages(r) /\ r.id = p.id
    <3>1. r.kind = "result" /\ r.id = p.id /\ TurnsHave(turns, t, r)
      BY ResultsAre
    <3>2. PICK u \in After(turns, t, Answering) : r \in Range(turns[u].parts)
      BY <3>1 DEF TurnsHave
    <3>3. u \in DOMAIN turns
      <4> DEFINE A == TurnsIn(Roles, W)
      <4>1. turns \in Seq(A)
        BY <2>3
      <4> HIDE DEF A
      <4>2. DOMAIN turns = 1..Len(turns) /\ Len(turns) \in Nat
        BY <4>1
      <4>3. u \in t + 1..Len(turns)
        BY DEF After
      <4> QED BY <2>4, <4>2, <4>3
    <3>4. r \in W
      <4> DEFINE A == TurnsIn(Roles, W)
                 s == turns[u].parts
      <4>1. turns[u] \in A
        <5> HIDE DEF A
        <5>1. turns \in Seq(A)
          BY <2>3 DEF A
        <5> QED BY <3>3, <5>1
      <4>2. s \in Seq(W)
        <5> HIDE DEF W
        <5> QED BY <4>1 DEF TurnsIn
      <4> HIDE DEF W, s
      <4>3. r \in Range(s)
        BY <3>2 DEF s
      <4> QED BY <4>2, <4>3 DEF Range
    <3> QED BY <3>1, <3>4 DEF Wire
  <2>12. CASE InTime(c.id.n)
    <3>1. PICK u \in After(msgs, q, Tools) :
             /\ msgs[u].real /\ msgs[u].id = c.id
             /\ \A v \in DOMAIN msgs : msgs[v].role = "toolResult" /\ msgs[v].id.n = c.id.n => msgs[v] = msgs[u]
      BY <2>1, <2>7, <2>8, <2>12 DEF Settled
    <3> DEFINE r0 == ResultOf(msgs[u], m)
    <3>2. r0.kind = "result" /\ r0.id = p.id /\ r0.real /\ TurnsHave(turns, t, r0)
      BY <2>7, <2>9, <2>10, <3>1
    <3> HIDE DEF r0
    <3>3. r0 \in results
      BY <3>2, ResultsAre
    <3>4. ASSUME NEW r \in results PROVE r = r0
      <4>1. InMessages(r) /\ r.id = p.id
        BY <2>11
      <4>2. PICK v \in DOMAIN msgs : msgs[v].role = "toolResult" /\ r = ResultOf(msgs[v], m)
        BY <4>1
      <4>3. msgs[v].id.n = c.id.n
        BY <2>8, <2>10, <4>1, <4>2
      <4>4. msgs[v] = msgs[u]
        BY <3>1, <4>2, <4>3
      <4> QED BY <4>2, <4>4 DEF r0
    <3> HIDE DEF results
    <3>5. results = {r0}
      BY <3>3, <3>4
    <3>6. Cardinality(results) = 1
      BY <3>5, FS_Singleton
    <3>7. \A r \in results : r.real
      BY <3>2, <3>5
    <3> QED BY <2>8, <2>12, <3>6, <3>7 DEF turns, p, results
  <2>13. CASE ~InTime(c.id.n)
    <3>1. Has(msgs, q, MadeUpFor(c))
      BY <2>1, <2>7, <2>8, <2>13 DEF Settled
    <3>2. PICK u \in After(msgs, q, Tools) : msgs[u] = MadeUpFor(c)
      BY <3>1 DEF Has
    <3>3. msgs[u].real = FALSE /\ msgs[u].id = c.id
      BY <3>2 DEF MadeUpFor, ToolResult
    <3> DEFINE r0 == ResultOf(msgs[u], m)
    <3>4. r0.kind = "result" /\ r0.id = p.id /\ r0.real = FALSE /\ TurnsHave(turns, t, r0)
      BY <2>7, <2>9, <2>10, <3>3
    <3> HIDE DEF r0
    <3>5. r0 \in results /\ ~r0.real
      BY <3>4, ResultsAre
    <3> QED BY <2>8, <2>13, <3>5 DEF turns, p, results
  <2> QED BY <2>12, <2>13
<1> QED BY <1>1, InitInv, NextInv, PTL DEF ConversationSpec
=============================================================================
