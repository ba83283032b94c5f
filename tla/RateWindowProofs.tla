-------------------------- MODULE RateWindowProofs --------------------------
(***************************************************************************)
(* Proofs about RateWindow: for any number of CPUs and sources, any set of *)
(* limits and increments, any widths and bounds, the packed word counts    *)
(* exactly what was admitted, nothing is admitted over the limit, what is  *)
(* dropped for its rate was over it, and a burst is bounded.               *)
(***************************************************************************)
EXTENDS RateWindow, FiniteSetTheorems, TLAPS

\* A packet under way has attempts left, and is within its limit by itself.
UnderWay ==
    \A c \in Cpu : pc[c] # "idle" => tries[c] < Retries /\ pkt[c].inc <= pkt[c].lim

\* A CPU comes to the compare-and-swap only with a word that lets it pass.
SwapJustified ==
    \A c \in Cpu : pc[c] = "swap" =>
        WindowOver(seen[c], pkt[c].now) \/ ~OverLimit(seen[c], pkt[c])

\* The inductive invariant.
IInv == TypeOK /\ CountExact /\ UnderWay /\ SwapJustified

-----------------------------------------------------------------------------
\* A tick fits the word (rate_state_tick).
LEMMA TickType == \A t \in Nat : Tick(t) \in 0..TickMod - 1
  BY RateAssumption DEF Tick

\* The initial states satisfy the invariant.
LEMMA InitInv == Init => IInv
<1>. SUFFICES ASSUME Init PROVE IInv
  OBVIOUS
<1>1. /\ Boot \in Time /\ Elem \subseteq Nat /\ Time \subseteq Nat
      /\ [tick |-> 0, count |-> 0] \in Word
  BY RateAssumption DEF Time, Elem, Word
<1>2. TypeOK
  BY <1>1, RateAssumption DEF Init, TypeOK
<1>3. CountExact /\ UnderWay /\ SwapJustified
  BY DEF Init, CountExact, UnderWay, SwapJustified
<1>. QED
  BY <1>2, <1>3 DEF IInv

\* An admitted packet leaves the word and the histories well typed, and adds
\* to the word what it adds to the history (the store of WINDOW_RATE_CHECK).
LEMMA PassKeeps ==
  ASSUME IInv, NEW c \in Cpu, NEW e \in Elem, NEW w \in Word, NEW total \in Nat,
         w.count = total, Pass(c, e, w, total)
  PROVE  /\ word' \in [Elem -> Word] /\ inWindow' \in [Elem -> Nat]
         /\ passed' \in [Source \X Time -> Nat]
         /\ \A x \in Elem : word'[x].count = inWindow'[x]
         /\ pc' = [pc EXCEPT ![c] = "idle"]
<1>1. /\ clock \in Time /\ pkt[c] \in Packet /\ pkt[c].src \in Source
      /\ pkt[c].inc \in Nat
  BY RateAssumption DEF IInv, TypeOK, Packet
<1>2. word' \in [Elem -> Word] /\ inWindow' \in [Elem -> Nat]
  BY <1>1 DEF IInv, TypeOK, Pass
<1>3. passed' \in [Source \X Time -> Nat]
  <2>1. <<pkt[c].src, clock>> \in Source \X Time
    BY <1>1
  <2>2. passed[<<pkt[c].src, clock>>] \in Nat
    BY <2>1 DEF IInv, TypeOK
  <2>. QED
    BY <1>1, <2>1, <2>2 DEF IInv, TypeOK, Pass
<1>4. \A x \in Elem : word'[x].count = inWindow'[x]
  BY DEF IInv, TypeOK, CountExact, Pass
<1>. QED
  BY <1>2, <1>3, <1>4 DEF Pass

\* Every step keeps the invariant.
LEMMA NextInv == IInv /\ [Next]_vars => IInv'
<1>. SUFFICES ASSUME IInv, [Next]_vars PROVE IInv'
  OBVIOUS
<1>. USE RateAssumption
<1>t. TypeOK /\ CountExact /\ UnderWay /\ SwapJustified
  BY DEF IInv
<1>n. MaxElem \in Nat /\ next \in Nat /\ Time \subseteq Nat
  BY <1>t DEF TypeOK, Time
<1>1. ASSUME NEW c \in Cpu, Arrive(c) PROVE IInv'
  <2>1. TypeOK'
    BY <1>1, <1>t DEF Arrive, TypeOK, Packet
  <2>2. CountExact'
    BY <1>1, <1>t DEF Arrive, CountExact
  <2>3. UnderWay'
    BY <1>1, <1>t DEF Arrive, UnderWay, TypeOK
  <2>4. SwapJustified'
    BY <1>1, <1>t DEF Arrive, SwapJustified, TypeOK
  <2>. QED
    BY <2>1, <2>2, <2>3, <2>4 DEF IInv
<1>2. ASSUME NEW c \in Cpu, Lookup(c) PROVE IInv'
  <2>1. TypeOK'
    BY <1>2, <1>t, <1>n DEF Lookup, TypeOK
  <2>2. CountExact' /\ UnderWay' /\ SwapJustified'
    BY <1>2, <1>t DEF Lookup, CountExact, UnderWay, SwapJustified, TypeOK
  <2>. QED
    BY <2>1, <2>2 DEF IInv
<1>3. ASSUME NEW c \in Cpu, Create(c) PROVE IInv'
  <2>p. pkt[c] \in Packet /\ pkt[c].now \in Nat /\ pkt[c].inc \in Nat
    BY <1>t, <1>n DEF TypeOK, Packet
  <2>1. CASE cur = 0
    <3>. DEFINE w == [tick |-> Tick(pkt[c].now), count |-> pkt[c].inc]
    <3>1. next + 1 \in Elem /\ w \in Word /\ w.count = pkt[c].inc
      BY <1>3, <2>1, <2>p, <1>n, TickType DEF Create, Elem, Word
    <3>2. /\ Pass(c, next + 1, w, pkt[c].inc)
          /\ next' = next + 1 /\ cur' = next + 1 /\ next < MaxElem
          /\ UNCHANGED <<tries, clock, pkt, ptr, seen>>
      BY <1>3, <2>1 DEF Create
    <3>. HIDE DEF w
    <3>3. /\ word' \in [Elem -> Word] /\ inWindow' \in [Elem -> Nat]
          /\ passed' \in [Source \X Time -> Nat]
          /\ \A x \in Elem : word'[x].count = inWindow'[x]
          /\ pc' = [pc EXCEPT ![c] = "idle"]
      BY <3>1, <3>2, <2>p, PassKeeps
    <3>4. TypeOK'
      BY <3>2, <3>3, <1>t, <1>n DEF TypeOK
    <3>5. CountExact' /\ UnderWay' /\ SwapJustified'
      BY <3>2, <3>3, <1>t DEF CountExact, UnderWay, SwapJustified, TypeOK
    <3>. QED
      BY <3>4, <3>5 DEF IInv
  <2>2. CASE cur # 0
    <3>1. tries[c] < Retries /\ tries[c] \in Nat
      BY <1>3, <1>t DEF Create, UnderWay, TypeOK
    <3>2. TypeOK'
      BY <1>3, <2>2, <3>1, <1>t DEF Create, Retry, TypeOK
    <3>3. CountExact' /\ UnderWay' /\ SwapJustified'
      BY <1>3, <2>2, <3>1, <1>t DEF Create, Retry, CountExact, UnderWay, SwapJustified, TypeOK
    <3>. QED
      BY <3>2, <3>3 DEF IInv
  <2>. QED
    BY <2>1, <2>2
<1>9. ASSUME NEW c \in Cpu, CreateFails(c) PROVE IInv'
  <2>1. tries[c] < Retries /\ tries[c] \in Nat
    BY <1>9, <1>t DEF CreateFails, UnderWay, TypeOK
  <2>2. TypeOK'
    BY <1>9, <2>1, <1>t DEF CreateFails, Retry, TypeOK
  <2>3. CountExact' /\ UnderWay' /\ SwapJustified'
    BY <1>9, <2>1, <1>t DEF CreateFails, Retry, CountExact, UnderWay, SwapJustified, TypeOK
  <2>. QED
    BY <2>2, <2>3 DEF IInv
<1>4. ASSUME NEW c \in Cpu, Read(c) PROVE IInv'
  <2>0. ptr[c] \in Elem /\ word[ptr[c]] \in Word
    BY <1>4, <1>t, <1>n DEF Read, TypeOK, Elem
  <2>1. TypeOK'
    BY <1>4, <2>0, <1>t DEF Read, TypeOK
  <2>2. CountExact' /\ UnderWay'
    BY <1>4, <1>t DEF Read, CountExact, UnderWay, TypeOK
  <2>3. SwapJustified'
    BY <1>4, <1>t DEF Read, SwapJustified, TypeOK
  <2>. QED
    BY <2>1, <2>2, <2>3 DEF IInv
<1>5. ASSUME NEW c \in Cpu, Swap(c) PROVE IInv'
  <2>p. /\ pkt[c] \in Packet /\ pkt[c].now \in Nat /\ pkt[c].inc \in Nat
        /\ ptr[c] \in Elem /\ seen[c] \in Word /\ inWindow[ptr[c]] \in Nat
    <3>1. pc[c] = "swap"
      BY <1>5 DEF Swap
    <3>2. ptr[c] \in Elem
      BY <3>1, <1>t, <1>n DEF TypeOK, Elem
    <3>3. seen[c] \in Word /\ inWindow[ptr[c]] \in Nat
      BY <3>2, <1>t DEF TypeOK
    <3>4. pkt[c] \in Packet /\ pkt[c].now \in Nat /\ pkt[c].inc \in Nat
      BY <1>t, <1>n DEF TypeOK, Packet
    <3>. QED
      BY <3>2, <3>3, <3>4
  <2>1. CASE Unchanged(c)
    <3>1. PICK w \in Word, total \in Nat : w.count = total /\ Pass(c, ptr[c], w, total)
      <4>1. CASE WindowOver(seen[c], pkt[c].now)
        <5>. DEFINE w == [tick |-> Tick(pkt[c].now), count |-> pkt[c].inc]
        <5>1. w \in Word /\ w.count = pkt[c].inc
          BY <2>p, TickType DEF Word
        <5>2. Pass(c, ptr[c], w, pkt[c].inc)
          BY <1>5, <2>1, <4>1 DEF Swap
        <5>. QED
          BY <5>1, <5>2, <2>p
      <4>2. CASE ~WindowOver(seen[c], pkt[c].now)
        <5>. DEFINE w == [tick |-> seen[c].tick, count |-> seen[c].count + pkt[c].inc]
        <5>1. w \in Word /\ w.count = seen[c].count + pkt[c].inc
          BY <2>p DEF Word
        <5>2. seen[c].count = inWindow[ptr[c]]
          BY <2>1, <2>p, <1>t DEF Unchanged, CountExact
        <5>3. Pass(c, ptr[c], w, inWindow[ptr[c]] + pkt[c].inc)
          BY <1>5, <2>1, <4>2 DEF Swap
        <5>. QED
          BY <5>1, <5>2, <5>3, <2>p
      <4>. QED
        BY <4>1, <4>2
    <3>2. /\ word' \in [Elem -> Word] /\ inWindow' \in [Elem -> Nat]
          /\ passed' \in [Source \X Time -> Nat]
          /\ \A x \in Elem : word'[x].count = inWindow'[x]
          /\ pc' = [pc EXCEPT ![c] = "idle"]
      BY <3>1, <2>p, PassKeeps
    <3>3. UNCHANGED <<tries, clock, cur, next, pkt, ptr, seen>>
      BY <1>5, <2>1 DEF Swap
    <3>4. TypeOK'
      BY <3>2, <3>3, <1>t DEF TypeOK
    <3>5. CountExact' /\ UnderWay' /\ SwapJustified'
      BY <3>2, <3>3, <1>t DEF CountExact, UnderWay, SwapJustified, TypeOK
    <3>. QED
      BY <3>4, <3>5 DEF IInv
  <2>2. CASE ~Unchanged(c)
    <3>1. tries[c] < Retries /\ tries[c] \in Nat
      BY <1>5, <1>t DEF Swap, UnderWay, TypeOK
    <3>2. TypeOK'
      BY <1>5, <2>2, <3>1, <1>t DEF Swap, Retry, TypeOK
    <3>3. CountExact' /\ UnderWay' /\ SwapJustified'
      BY <1>5, <2>2, <3>1, <1>t DEF Swap, Retry, CountExact, UnderWay, SwapJustified, TypeOK
    <3>. QED
      BY <3>2, <3>3 DEF IInv
  <2>. QED
    BY <2>1, <2>2
<1>6. CASE Evict
  BY <1>6, <1>t, <1>n DEF Evict, IInv, TypeOK, CountExact, UnderWay, SwapJustified
<1>7. CASE Elapse
  <2>1. clock' \in Time
    BY <1>7, <1>t DEF Elapse, TypeOK, Time
  <2>. QED
    BY <1>7, <2>1, <1>t DEF Elapse, IInv, TypeOK, CountExact, UnderWay, SwapJustified
<1>8. CASE UNCHANGED vars
  BY <1>8, <1>t DEF vars, IInv, TypeOK, CountExact, UnderWay, SwapJustified
<1>. QED
  BY <1>1, <1>2, <1>3, <1>4, <1>5, <1>6, <1>7, <1>8, <1>9 DEF Next

-----------------------------------------------------------------------------
\* Every variable keeps its type; in particular no CPU follows a null pointer
\* and no packet makes more than RATE_STATE_RETRIES attempts.
THEOREM TypeCorrect == Spec => []TypeOK
<1>1. IInv => TypeOK
  BY DEF IInv
<1>. QED
  BY InitInv, NextInv, <1>1, PTL DEF Spec

\* WINDOW_RATE_CHECK loses no update, whatever the CPUs interleave, also
\* through pointers to evicted elements: the count of the packed word is what
\* was admitted since its window opened.
THEOREM CountIsExact == Spec => []CountExact
<1>1. IInv => CountExact
  BY DEF IInv
<1>. QED
  BY InitInv, NextInv, <1>1, PTL DEF Spec

\* The step behind AdmittedWithinLimit.
LEMMA AdmittedStep ==
  ASSUME IInv, [Next]_vars, NEW e \in Elem, inWindow'[e] # inWindow[e]
  PROVE  \E c \in Cpu : pc[c] # "idle" /\ pc'[c] = "idle" /\ inWindow'[e] <= pkt[c].lim
<1>. USE RateAssumption
<1>t. TypeOK /\ CountExact /\ UnderWay /\ SwapJustified
  BY DEF IInv
<1>1. ASSUME NEW c \in Cpu, Create(c)
      PROVE  pc[c] # "idle" /\ pc'[c] = "idle" /\ inWindow'[e] <= pkt[c].lim
  <2>1. pc[c] # "idle" /\ pkt[c].inc <= pkt[c].lim
    BY <1>1, <1>t DEF Create, UnderWay
  <2>2. cur = 0
    BY <1>1 DEF Create
  <2>3. /\ inWindow' = [inWindow EXCEPT ![next + 1] = pkt[c].inc]
        /\ pc' = [pc EXCEPT ![c] = "idle"]
    BY <1>1, <2>2 DEF Create, Pass
  <2>4. inWindow \in [Elem -> Nat] /\ pc \in [Cpu -> {"idle", "lookup", "create", "read", "swap"}]
    BY <1>t DEF TypeOK
  <2>. QED
    BY <2>1, <2>3, <2>4
<1>2. ASSUME NEW c \in Cpu, Swap(c)
      PROVE  pc[c] # "idle" /\ pc'[c] = "idle" /\ inWindow'[e] <= pkt[c].lim
  <2>0. /\ inWindow \in [Elem -> Nat]
        /\ pc \in [Cpu -> {"idle", "lookup", "create", "read", "swap"}]
    BY <1>t DEF TypeOK
  <2>1. pc[c] = "swap" /\ pkt[c].inc <= pkt[c].lim
    BY <1>2, <1>t DEF Swap, UnderWay
  <2>2. Unchanged(c)
    BY <1>2 DEF Swap
  <2>3. PICK w, total :
          /\ Pass(c, ptr[c], w, total)
          /\ \/ total = pkt[c].inc
             \/ total = inWindow[ptr[c]] + pkt[c].inc /\ ~WindowOver(seen[c], pkt[c].now)
    BY <1>2, <2>2 DEF Swap
  <2>4. inWindow' = [inWindow EXCEPT ![ptr[c]] = total] /\ pc' = [pc EXCEPT ![c] = "idle"]
    BY <2>3 DEF Pass
  <2>5. e = ptr[c] /\ inWindow'[e] = total
    BY <2>0, <2>4
  <2>6. total <= pkt[c].lim
    <3>1. CASE total = pkt[c].inc
      BY <3>1, <2>1
    <3>2. CASE total = inWindow[ptr[c]] + pkt[c].inc /\ ~WindowOver(seen[c], pkt[c].now)
      <4>1. ~OverLimit(seen[c], pkt[c])
        BY <3>2, <2>1, <1>t DEF SwapJustified
      <4>2. seen[c].count = inWindow[ptr[c]]
        BY <2>2, <2>5, <1>t DEF Unchanged, CountExact
      <4>3. pkt[c].inc \in Nat /\ pkt[c].lim \in Nat /\ inWindow[ptr[c]] \in Nat
        BY <2>5, <1>t DEF TypeOK, Packet
      <4>. QED
        BY <3>2, <4>1, <4>2, <4>3 DEF OverLimit
    <3>. QED
      BY <3>1, <3>2, <2>3
  <2>. QED
    BY <2>0, <2>1, <2>4, <2>5, <2>6
<1>3. \E c \in Cpu : Create(c) \/ Swap(c)
  BY DEF Next, vars, Arrive, Lookup, CreateFails, Read, Evict, Elapse
<1>. QED
  BY <1>1, <1>2, <1>3

\* No CPU admits a packet into a window that is full by the packet's own
\* limit: the verdict taken on the word that was read still holds when the
\* compare-and-swap succeeds.
THEOREM WithinLimit == Spec => AdmittedWithinLimit
<1>1. IInv /\ [Next]_vars =>
        [\A e \in Elem : inWindow'[e] # inWindow[e] =>
           \E c \in Cpu : pc[c] # "idle" /\ pc'[c] = "idle" /\ inWindow'[e] <= pkt[c].lim]_vars
  BY AdmittedStep
<1>. QED
  BY InitInv, NextInv, <1>1, PTL DEF Spec, AdmittedWithinLimit

-----------------------------------------------------------------------------
(* Sums over finite sets, and ticks. *)

\* Induction: a set that contains 0 and with a number the next one contains
\* every number of an interval from 0.
LEMMA Induction ==
  ASSUME NEW m \in Nat, NEW T, 0 \in T, \A n \in 0..(m - 1) : n \in T => n + 1 \in T
  PROVE  \A n \in 0..m : n \in T
<1>. DEFINE R == OpToRel(<, Nat)
            B == {n \in 0..m : n \notin T}
<1>1. IsWellFoundedOn(R, Nat)
  BY NatLessThanWellFounded, Zenon
<1>2. SUFFICES ASSUME B # {} PROVE FALSE
  OBVIOUS
<1>3. B \subseteq Nat
  OBVIOUS
<1>4. PICK x \in B : \A y \in B : ~(<<y, x>> \in R)
  <2>. HIDE DEF R, B
  <2>. QED
    BY <1>1, <1>2, <1>3, WFMin
<1>5. x \in 0..m /\ x # 0 /\ x - 1 \in 0..(m - 1)
  OBVIOUS
<1>6. x - 1 \in B
  BY <1>5
<1>7. <<x - 1, x>> \in R
  BY <1>5 DEF OpToRel
<1>. QED
  BY <1>4, <1>6, <1>7

\* Induction over the subsets of a finite set.
LEMMA SubsetInduction ==
  ASSUME NEW S, IsFiniteSet(S), NEW T,
         \A U \in SUBSET S : (\A V \in SUBSET U : V # U => V \in T) => U \in T
  PROVE  \A U \in SUBSET S : U \in T
<1>. DEFINE R == StrictSubsetOrdering(S)
            F == FiniteSubsetsOf(S)
            B == {U \in SUBSET S : U \notin T}
<1>1. IsWellFoundedOn(R, F)
  BY FS_StrictSubsetOrderingWellFounded
<1>2. SUFFICES ASSUME B # {} PROVE FALSE
  OBVIOUS
<1>3. B \subseteq F
  BY FS_Subset DEF FiniteSubsetsOf
<1>4. PICK U \in B : \A V \in B : ~(<<V, U>> \in R)
  <2>. HIDE DEF R, F, B
  <2>. QED
    BY <1>1, <1>2, <1>3, WFMin
<1>5. ASSUME NEW V \in SUBSET U, V # U PROVE V \in T
  <2>1. <<V, U>> \in R
    BY <1>5 DEF StrictSubsetOrdering
  <2>. QED
    BY <1>4, <2>1
<1>. QED
  BY <1>5

\* The element that a sum takes first, and the recursion of a sum.
First(s) == CHOOSE x \in s : TRUE

IsSum(f, S, g) ==
    g = [s \in SUBSET S |-> IF s = {} THEN 0 ELSE f[First(s)] + g[s \ {First(s)}]]

LEMMA FirstIn == \A s : s # {} => First(s) \in s
  BY DEF First

\* The recursion has one solution.
LEMMA SumUnique ==
  ASSUME NEW S, NEW U, IsFiniteSet(S), S \subseteq U, NEW f, NEW f2, NEW g, NEW g2,
         IsSum(f, S, g), IsSum(f2, U, g2), \A x \in S : f[x] = f2[x]
  PROVE  \A s \in SUBSET S : g[s] = g2[s]
<1>. DEFINE T == {s \in SUBSET S : g[s] = g2[s]}
<1>1. ASSUME NEW s \in SUBSET S, \A t \in SUBSET s : t # s => t \in T
      PROVE  s \in T
  <2>0. g[s] = (IF s = {} THEN 0 ELSE f[First(s)] + g[s \ {First(s)}])
    BY DEF IsSum
  <2>1. g2[s] = (IF s = {} THEN 0 ELSE f2[First(s)] + g2[s \ {First(s)}])
    <3>1. s \in SUBSET U
      OBVIOUS
    <3>. QED
      BY <3>1 DEF IsSum
  <2>2. CASE s = {}
    BY <2>0, <2>1, <2>2
  <2>3. CASE s # {}
    <3>1. First(s) \in s
      BY <2>3, FirstIn
    <3>2. s \ {First(s)} \in T
      BY <3>1, <1>1
    <3>. QED
      BY <2>0, <2>1, <3>1, <3>2, <2>3
  <2>. QED
    BY <2>2, <2>3
<1>2. \A s \in SUBSET S : s \in T
  <2>. HIDE DEF T
  <2>. QED
    BY <1>1, SubsetInduction
<1>. QED
  BY <1>2

\* Solutions for the subsets of at most n elements.
IsPart(f, S, n, g) ==
    g = [s \in {u \in SUBSET S : Cardinality(u) <= n} |->
           IF s = {} THEN 0 ELSE f[First(s)] + g[s \ {First(s)}]]

LEMMA SumExists ==
  ASSUME NEW S, IsFiniteSet(S), NEW f
  PROVE  \E g : IsSum(f, S, g)
<1>. DEFINE T == {n \in Nat : \E g : IsPart(f, S, n, g)}
            m == Cardinality(S)
            D(n) == {u \in SUBSET S : Cardinality(u) <= n}
<1>c. /\ m \in Nat
      /\ \A u \in SUBSET S : IsFiniteSet(u) /\ Cardinality(u) \in Nat /\ Cardinality(u) <= m
  BY FS_Subset, FS_CardinalityType
<1>0. 0 \in T
  <2>1. \A u \in D(0) : u = {}
    BY <1>c, FS_EmptySet
  <2>2. IsPart(f, S, 0, [s \in D(0) |-> 0])
    BY <2>1 DEF IsPart
  <2>. QED
    BY <2>2
<1>1. ASSUME NEW n \in Nat, n \in T PROVE n + 1 \in T
  <2>1. PICK g : IsPart(f, S, n, g)
    BY <1>1
  <2>. DEFINE h == [s \in D(n + 1) |-> IF s = {} THEN 0 ELSE f[First(s)] + g[s \ {First(s)}]]
  <2>2. \A s \in D(n) : s \in D(n + 1) /\ h[s] = g[s]
    <3>. SUFFICES ASSUME NEW s \in D(n) PROVE s \in D(n + 1) /\ h[s] = g[s]
      OBVIOUS
    <3>1. s \in D(n + 1)
      BY <1>c
    <3>2. g[s] = IF s = {} THEN 0 ELSE f[First(s)] + g[s \ {First(s)}]
      BY <2>1 DEF IsPart
    <3>. QED
      BY <3>1, <3>2
  <2>3. ASSUME NEW s \in D(n + 1), s # {} PROVE s \ {First(s)} \in D(n)
    <3>1. First(s) \in s /\ IsFiniteSet(s) /\ Cardinality(s) \in Nat
      BY <2>3, <1>c, FirstIn
    <3>2. Cardinality(s \ {First(s)}) = Cardinality(s) - 1
      BY <3>1, FS_RemoveElement
    <3>. QED
      BY <3>1, <3>2
  <2>4. h = [s \in D(n + 1) |-> IF s = {} THEN 0 ELSE f[First(s)] + h[s \ {First(s)}]]
    <3>1. \A s \in D(n + 1) : s # {} => h[s \ {First(s)}] = g[s \ {First(s)}]
      BY <2>2, <2>3
    <3>. QED
      BY <3>1
  <2>5. IsPart(f, S, n + 1, h)
    BY <2>4 DEF IsPart
  <2>. QED
    BY <2>5
<1>2. m \in T
  <2>. HIDE DEF T
  <2>1. \A n \in 0..m : n \in T
    BY <1>0, <1>1, <1>c, Induction
  <2>. QED
    BY <1>c, <2>1
<1>3. PICK g : IsPart(f, S, m, g)
  BY <1>2
<1>4. {u \in SUBSET S : Cardinality(u) <= m} = SUBSET S
  BY <1>c
<1>. QED
  BY <1>3, <1>4 DEF IsPart, IsSum

\* What SumFunctionOnSet computes over a finite set.
LEMMA SumIs ==
  ASSUME NEW S, IsFiniteSet(S), NEW f
  PROVE  \E g : IsSum(f, S, g) /\ SumFunctionOnSet(f, S) = g[S]
<1>. DEFINE it == CHOOSE g : IsSum(f, S, g)
<1>1. IsSum(f, S, it)
  <2>1. PICK g : IsSum(f, S, g)
    BY SumExists
  <2>. QED
    BY <2>1, Zenon
<1>2. SumFunctionOnSet(f, S) = it[S]
  BY DEF SumFunctionOnSet, FoldFunctionOnSet, MapThenFoldSet, IsSum, First
<1>. QED
  BY <1>1, <1>2

\* The sum over no index, and the sum by its first index.
LEMMA SumUnfold ==
  ASSUME NEW S, IsFiniteSet(S), NEW f
  PROVE  SumFunctionOnSet(f, S) =
           IF S = {} THEN 0 ELSE f[First(S)] + SumFunctionOnSet(f, S \ {First(S)})
<1>1. PICK g : IsSum(f, S, g) /\ SumFunctionOnSet(f, S) = g[S]
  BY SumIs
<1>2. g[S] = IF S = {} THEN 0 ELSE f[First(S)] + g[S \ {First(S)}]
  BY <1>1 DEF IsSum
<1>. DEFINE R == S \ {First(S)}
<1>3. IsFiniteSet(R) /\ R \in SUBSET S
  BY FS_Subset
<1>4. PICK h : IsSum(f, R, h) /\ SumFunctionOnSet(f, R) = h[R]
  <2>. HIDE DEF R
  <2>. QED
    BY <1>3, SumIs
<1>5. h[R] = g[R]
  <2>1. \A s \in SUBSET R : h[s] = g[s]
    <3>. HIDE DEF R
    <3>. QED
      BY <1>1, <1>3, <1>4, SumUnique
  <2>. QED
    BY <2>1
<1>. QED
  BY <1>1, <1>2, <1>4, <1>5

\* The sum depends only on the values at the indices.
LEMMA SumSame ==
  ASSUME NEW S, IsFiniteSet(S), NEW f, NEW g, \A x \in S : f[x] = g[x]
  PROVE  SumFunctionOnSet(f, S) = SumFunctionOnSet(g, S)
<1>1. PICK a : IsSum(f, S, a) /\ SumFunctionOnSet(f, S) = a[S]
  BY SumIs
<1>2. PICK b : IsSum(g, S, b) /\ SumFunctionOnSet(g, S) = b[S]
  BY SumIs
<1>3. \A s \in SUBSET S : a[s] = b[s]
  BY <1>1, <1>2, SumUnique
<1>. QED
  BY <1>1, <1>2, <1>3

\* A sum of naturals is a natural.
LEMMA SumType ==
  ASSUME NEW S, IsFiniteSet(S), NEW f, \A x \in S : f[x] \in Nat
  PROVE  SumFunctionOnSet(f, S) \in Nat
<1>. DEFINE T == {s \in SUBSET S : SumFunctionOnSet(f, s) \in Nat}
<1>1. ASSUME NEW s \in SUBSET S, \A t \in SUBSET s : t # s => t \in T
      PROVE  s \in T
  <2>1. SumFunctionOnSet(f, s) =
          IF s = {} THEN 0 ELSE f[First(s)] + SumFunctionOnSet(f, s \ {First(s)})
    <3>1. IsFiniteSet(s)
      BY FS_Subset
    <3>. QED
      BY <3>1, SumUnfold
  <2>2. s # {} => First(s) \in s /\ s \ {First(s)} \in T
    BY <1>1, FirstIn
  <2>. QED
    BY <2>1, <2>2
<1>2. \A s \in SUBSET S : s \in T
  <2>. HIDE DEF T
  <2>. QED
    BY <1>1, SubsetInduction
<1>. QED
  BY <1>2

\* The sum by any index.
LEMMA SumRemove ==
  ASSUME NEW S, IsFiniteSet(S), NEW f, \A x \in S : f[x] \in Nat, NEW x \in S
  PROVE  SumFunctionOnSet(f, S) = f[x] + SumFunctionOnSet(f, S \ {x})
<1>. DEFINE Sum(s) == SumFunctionOnSet(f, s)
            T == {s \in SUBSET S : \A y \in s : Sum(s) = f[y] + Sum(s \ {y})}
<1>0. \A s \in SUBSET S : IsFiniteSet(s) /\ Sum(s) \in Nat
  <2>. SUFFICES ASSUME NEW s \in SUBSET S PROVE IsFiniteSet(s) /\ Sum(s) \in Nat
    OBVIOUS
  <2>1. IsFiniteSet(s) /\ \A z \in s : f[z] \in Nat
    BY FS_Subset
  <2>. QED
    BY <2>1, SumType
<1>u. \A s \in SUBSET S : s # {} => Sum(s) = f[First(s)] + Sum(s \ {First(s)})
  BY <1>0, SumUnfold
<1>. HIDE DEF Sum
<1>1. ASSUME NEW s \in SUBSET S, \A t \in SUBSET s : t # s => t \in T
      PROVE  s \in T
  <2>. SUFFICES ASSUME NEW y \in s PROVE Sum(s) = f[y] + Sum(s \ {y})
    OBVIOUS
  <2>. DEFINE z == First(s)
  <2>1. z \in s /\ Sum(s) = f[z] + Sum(s \ {z})
    BY FirstIn, <1>u
  <2>. HIDE DEF z
  <2>2. CASE y = z
    BY <2>1, <2>2
  <2>3. CASE y # z
    <3>1. s \ {z} \in T /\ s \ {y} \in T
      BY <2>1, <1>1
    <3>2. /\ Sum(s \ {z}) = f[y] + Sum((s \ {z}) \ {y})
          /\ Sum(s \ {y}) = f[z] + Sum((s \ {y}) \ {z})
      BY <3>1, <2>1, <2>3
    <3>3. (s \ {z}) \ {y} = (s \ {y}) \ {z} /\ (s \ {z}) \ {y} \in SUBSET S
      OBVIOUS
    <3>4. f[y] \in Nat /\ f[z] \in Nat /\ Sum((s \ {z}) \ {y}) \in Nat
      BY <3>3, <2>1, <1>0
    <3>. QED
      BY <2>1, <3>2, <3>3, <3>4
  <2>. QED
    BY <2>2, <2>3
<1>2. \A s \in SUBSET S : s \in T
  <2>. HIDE DEF T
  <2>. QED
    BY <1>1, SubsetInduction
<1>. QED
  BY <1>2 DEF Sum

\* A sum of naturals over more indices is no smaller.
LEMMA SumMonotone ==
  ASSUME NEW S, IsFiniteSet(S), NEW f, \A x \in S : f[x] \in Nat, NEW R \in SUBSET S
  PROVE  SumFunctionOnSet(f, R) <= SumFunctionOnSet(f, S)
<1>. DEFINE Sum(s) == SumFunctionOnSet(f, s)
            T == {s \in SUBSET S : \A r \in SUBSET s : Sum(r) <= Sum(s)}
<1>0. \A s \in SUBSET S : IsFiniteSet(s) /\ Sum(s) \in Nat
  <2>. SUFFICES ASSUME NEW s \in SUBSET S PROVE IsFiniteSet(s) /\ Sum(s) \in Nat
    OBVIOUS
  <2>1. IsFiniteSet(s) /\ \A z \in s : f[z] \in Nat
    BY FS_Subset
  <2>. QED
    BY <2>1, SumType
<1>u. ASSUME NEW s \in SUBSET S, NEW x \in s
      PROVE  Sum(s) = f[x] + Sum(s \ {x})
  <2>1. IsFiniteSet(s) /\ \A z \in s : f[z] \in Nat
    BY <1>0
  <2>. QED
    BY <2>1, SumRemove
<1>. HIDE DEF Sum
<1>1. ASSUME NEW s \in SUBSET S, \A t \in SUBSET s : t # s => t \in T
      PROVE  s \in T
  <2>. SUFFICES ASSUME NEW r \in SUBSET s PROVE Sum(r) <= Sum(s)
    OBVIOUS
  <2>1. CASE r = s
    BY <2>1, <1>0
  <2>2. CASE r # s
    <3>1. PICK x \in s : x \notin r
      BY <2>2
    <3>2. s \ {x} \in T /\ r \in SUBSET (s \ {x})
      BY <3>1, <1>1
    <3>3. Sum(r) <= Sum(s \ {x})
      BY <3>2
    <3>4. Sum(s) = f[x] + Sum(s \ {x})
      BY <1>u
    <3>5. f[x] \in Nat /\ Sum(r) \in Nat /\ Sum(s \ {x}) \in Nat
      BY <1>0
    <3>. QED
      BY <3>3, <3>4, <3>5
  <2>. QED
    BY <2>1, <2>2
<1>2. \A s \in SUBSET S : s \in T
  <2>. HIDE DEF T
  <2>. QED
    BY <1>1, SubsetInduction
<1>. QED
  BY <1>2 DEF Sum

\* What is added at one index is added to the sum.
LEMMA SumAdd ==
  ASSUME NEW S, IsFiniteSet(S), NEW f, \A y \in S : f[y] \in Nat, NEW x \in S, NEW k \in Nat,
         NEW g, \A y \in S : g[y] = IF y = x THEN f[y] + k ELSE f[y]
  PROVE  SumFunctionOnSet(g, S) = SumFunctionOnSet(f, S) + k
<1>. DEFINE R == S \ {x}
<1>1. IsFiniteSet(R) /\ (\A y \in R : f[y] = g[y] /\ f[y] \in Nat) /\ \A y \in S : g[y] \in Nat
  BY FS_Subset
<1>2. SumFunctionOnSet(f, S) = f[x] + SumFunctionOnSet(f, R)
  BY SumRemove
<1>3. SumFunctionOnSet(g, S) = g[x] + SumFunctionOnSet(g, R)
  BY <1>1, SumRemove
<1>4. SumFunctionOnSet(f, R) = SumFunctionOnSet(g, R) /\ SumFunctionOnSet(f, R) \in Nat
  <2>. HIDE DEF R
  <2>1. SumFunctionOnSet(f, R) = SumFunctionOnSet(g, R)
    BY <1>1, SumSame
  <2>2. SumFunctionOnSet(f, R) \in Nat
    BY <1>1, SumType
  <2>. QED
    BY <2>1, <2>2
<1>. QED
  BY <1>2, <1>3, <1>4

\* Ticks less than a turn of the counter apart have the difference of their
\* times, whether or not the counter wrapped in between ((__u32)(a - b)).
LEMMA MinusTicks ==
  ASSUME NEW a \in Nat, NEW b \in Nat, b <= a, a - b < TickMod
  PROVE  Minus(Tick(a), Tick(b)) = a - b
<1>. DEFINE qa == a \div TickMod
            qb == b \div TickMod
            ra == a % TickMod
            rb == b % TickMod
            d  == a - b
            M  == TickMod
<1>1. /\ a = M * qa + ra /\ qa \in Int /\ ra \in 0..M - 1
      /\ b = M * qb + rb /\ qb \in Int /\ rb \in 0..M - 1
      /\ M \in Nat /\ M > 0 /\ d \in 0..M - 1
  BY RateAssumption
<1>. HIDE DEF qa, qb, ra, rb
<1>2. d = M * (qa - qb) + (ra - rb)
  BY <1>1
<1>3. M * (qa - qb) < 2 * M /\ M * (qa - qb) > 0 - M
  BY <1>1, <1>2
<1>4. qa - qb = 0 \/ qa - qb = 1
  BY <1>1, <1>3
<1>5. ra + M - rb = d + M \/ ra + M - rb = d
  BY <1>1, <1>2, <1>4
<1>6. (d + M) % M = d /\ d % M = d
  BY <1>1
<1>. QED
  BY <1>5, <1>6 DEF Minus, Tick, ra, rb

-----------------------------------------------------------------------------
(* Drops are justified. *)

\* No check under way lags more than MaxLag ticks.
InTime ==
    \A c \in Cpu : pc[c] # "idle" => pkt[c].now <= clock /\ clock - pkt[c].now <= MaxLag

\* The tick of an element stands for a time since which at least its count
\* was admitted.
Since(e, t) ==
    t <= clock /\ word[e].tick = Tick(t) /\ inWindow[e] <= Admitted(Source, t, clock)

Opened == \A e \in 1..next : \E t \in Time : Since(e, t)

\* The inductive invariant behind DropJustified.
DInv == IInv /\ InTime /\ Opened

\* The indices of Admitted.
Span(t, u) == Source \X {x \in Time : t <= x /\ x <= u}

LEMMA SpanFinite ==
  ASSUME IsFiniteSet(Source), NEW t, NEW u
  PROVE  IsFiniteSet(Span(t, u)) /\ Span(t, u) \subseteq Source \X Time
<1>1. IsFiniteSet(Time)
  BY RateAssumption, FS_Interval DEF Time
<1>. DEFINE X == {x \in Time : t <= x /\ x <= u}
<1>2. IsFiniteSet(X)
  BY <1>1, FS_Subset
<1>3. IsFiniteSet(Source \X X)
  <2>. HIDE DEF X
  <2>. QED
    BY <1>2, FS_Product
<1>. QED
  BY <1>3 DEF Span

LEMMA AdmittedIs ==
  \A t, u : Admitted(Source, t, u) = SumFunctionOnSet(passed, Span(t, u))
  BY DEF Admitted, Span

LEMMA AdmittedType ==
  ASSUME IsFiniteSet(Source), IInv, NEW t, NEW u
  PROVE  Admitted(Source, t, u) \in Nat
<1>1. \A x \in Span(t, u) : passed[x] \in Nat
  BY SpanFinite DEF IInv, TypeOK
<1>2. SumFunctionOnSet(passed, Span(t, u)) \in Nat
  BY <1>1, SpanFinite, SumType
<1>. QED
  BY <1>2, AdmittedIs

\* A longer interval holds no less.
LEMMA AdmittedMonotone ==
  ASSUME IsFiniteSet(Source), IInv, NEW t \in Int, NEW u \in Int, NEW t2 \in Int, NEW u2 \in Int,
         t2 <= t, u <= u2
  PROVE  Admitted(Source, t, u) <= Admitted(Source, t2, u2)
<1>1. Span(t, u) \in SUBSET Span(t2, u2)
  <2>1. Time \subseteq Int
    BY RateAssumption DEF Time
  <2>. SUFFICES ASSUME NEW y \in Source, NEW x \in Time, t <= x, x <= u
                PROVE  t2 <= x /\ x <= u2
    BY DEF Span
  <2>2. x \in Int
    BY <2>1
  <2>. QED
    BY <2>2
<1>2. IsFiniteSet(Span(t2, u2)) /\ \A x \in Span(t2, u2) : passed[x] \in Nat
  BY SpanFinite DEF IInv, TypeOK
<1>3. SumFunctionOnSet(passed, Span(t, u)) <= SumFunctionOnSet(passed, Span(t2, u2))
  BY <1>1, <1>2, SumMonotone
<1>. QED
  BY <1>3, AdmittedIs

\* A packet that passes counts in every interval up to now.
LEMMA PassAdds ==
  ASSUME IsFiniteSet(Source), IInv, NEW c \in Cpu, NEW e, NEW w, NEW total,
         Pass(c, e, w, total), clock' = clock, NEW t \in Time, t <= clock
  PROVE  Admitted(Source, t, clock)' = Admitted(Source, t, clock) + pkt[c].inc
<1>. DEFINE S == Span(t, clock)
            x == <<pkt[c].src, clock>>
            k == pkt[c].inc
<1>1. clock \in Time /\ clock <= clock /\ pkt[c].src \in Source /\ k \in Nat
  <2>1. clock \in Time /\ pkt[c] \in Packet /\ clock \in Nat
    BY RateAssumption DEF IInv, TypeOK, Time
  <2>2. pkt[c].src \in Source /\ pkt[c].inc \in Nat
    BY <2>1, RateAssumption DEF Packet
  <2>. QED
    BY <2>1, <2>2
<1>2. x \in S /\ x \in Source \X Time
  BY <1>1 DEF Span
<1>3. IsFiniteSet(S) /\ S \subseteq Source \X Time
  BY SpanFinite
<1>4. passed \in [Source \X Time -> Nat] /\ passed' = [passed EXCEPT ![x] = @ + k]
  BY DEF IInv, TypeOK, Pass
<1>. HIDE DEF S, x, k
<1>5. \A y \in S : passed[y] \in Nat /\ passed'[y] = IF y = x THEN passed[y] + k ELSE passed[y]
  BY <1>2, <1>3, <1>4
<1>6. SumFunctionOnSet(passed', S) = SumFunctionOnSet(passed, S) + k
  BY <1>1, <1>2, <1>3, <1>5, SumAdd
<1>7. Admitted(Source, t, clock)' = SumFunctionOnSet(passed', S)
  BY DEF Admitted, S, Span
<1>. QED
  BY <1>6, <1>7, AdmittedIs DEF S, k

\* A packet that passes keeps every element's window.
LEMMA PassOpened ==
  ASSUME IsFiniteSet(Source), DInv, NEW c \in Cpu, pc[c] # "idle", NEW e \in Elem,
         NEW w \in Word, NEW total \in Nat,
         Pass(c, e, w, total), clock' = clock, next' \in Nat, \A x \in 1..next' : x \in Elem,
         \A x \in 1..next' : x # e => x \in 1..next,
         \/ w.tick = Tick(pkt[c].now) /\ total = pkt[c].inc
         \/ /\ e \in 1..next
            /\ w.tick = word[e].tick /\ total = inWindow[e] + pkt[c].inc
  PROVE  Opened'
<1>. SUFFICES ASSUME NEW x \in 1..next' PROVE \E t \in Time : Since(x, t)'
  BY DEF Opened
<1>0. /\ word \in [Elem -> Word] /\ inWindow \in [Elem -> Nat] /\ clock \in Nat
      /\ pkt[c].inc \in Nat /\ pkt[c].now \in Time /\ pkt[c].now <= clock
      /\ Time \subseteq Nat
  <2>1. pkt[c] \in Packet /\ clock \in Time /\ Time \subseteq Nat
    BY RateAssumption DEF DInv, IInv, TypeOK, Time
  <2>2. pkt[c].inc \in Nat /\ pkt[c].now \in Time
    BY <2>1, RateAssumption DEF Packet
  <2>. QED
    BY <2>1, <2>2 DEF DInv, IInv, TypeOK, InTime
<1>1. word' = [word EXCEPT ![e] = w] /\ inWindow' = [inWindow EXCEPT ![e] = total]
  BY DEF Pass
<1>a. \A t \in Time : t <= clock =>
        /\ Admitted(Source, t, clock) \in Nat
        /\ Admitted(Source, t, clock)' = Admitted(Source, t, clock) + pkt[c].inc
  BY PassAdds, AdmittedType DEF DInv
<1>2. CASE x # e
  <2>1. PICK t \in Time : Since(x, t)
    BY <1>2 DEF DInv, Opened
  <2>2. word'[x] = word[x] /\ inWindow'[x] = inWindow[x] /\ inWindow[x] \in Nat
    BY <1>0, <1>1, <1>2
  <2>3. Since(x, t)'
    BY <2>1, <2>2, <1>0, <1>a DEF Since
  <2>. QED
    BY <2>3
<1>3. CASE x = e /\ w.tick = Tick(pkt[c].now) /\ total = pkt[c].inc
  <2>1. word'[x] = w /\ inWindow'[x] = total
    BY <1>0, <1>1, <1>3
  <2>2. PICK t \in Time : t = pkt[c].now
    BY <1>0
  <2>3. /\ Admitted(Source, t, clock) \in Nat
        /\ Admitted(Source, t, clock)' = Admitted(Source, t, clock) + pkt[c].inc
    BY <2>2, <1>0, <1>a
  <2>4. Since(x, t)'
    BY <2>1, <2>2, <2>3, <1>0, <1>3 DEF Since
  <2>. QED
    BY <2>4
<1>4. CASE x = e /\ e \in 1..next /\ w.tick = word[e].tick /\ total = inWindow[e] + pkt[c].inc
  <2>1. PICK t \in Time : Since(e, t)
    BY <1>4 DEF DInv, Opened
  <2>2. word'[x] = w /\ inWindow'[x] = total /\ inWindow[e] \in Nat
    BY <1>0, <1>1, <1>4
  <2>3. Since(x, t)'
    BY <2>1, <2>2, <1>0, <1>a, <1>4 DEF Since
  <2>. QED
    BY <2>3
<1>. QED
  BY <1>2, <1>3, <1>4

LEMMA DInvInit == Init => DInv
<1>. SUFFICES ASSUME Init PROVE DInv
  OBVIOUS
<1>1. InTime /\ Opened
  BY RateAssumption DEF Init, InTime, Opened
<1>. QED
  BY <1>1, InitInv DEF DInv

\* A step that admits nothing keeps every element's window.
LEMMA QuietOpened ==
  ASSUME IsFiniteSet(Source), DInv, IInv',
         UNCHANGED <<next, word, inWindow, passed>>, clock <= clock'
  PROVE  Opened'
<1>. SUFFICES ASSUME NEW e \in 1..next PROVE \E t \in Time : Since(e, t)'
  BY DEF Opened
<1>1. PICK t \in Time : Since(e, t)
  BY DEF DInv, Opened
<1>0. t \in Int /\ clock \in Int /\ clock' \in Int /\ inWindow[e] \in Nat
  <2>1. Time \subseteq Int
    BY RateAssumption DEF Time
  <2>2. e \in Elem
    BY RateAssumption DEF DInv, IInv, TypeOK, Elem
  <2>. QED
    BY <2>1, <2>2 DEF DInv, IInv, TypeOK
<1>2. PICK u \in Int : u = clock'
  BY <1>0
<1>3. Admitted(Source, t, clock) <= Admitted(Source, t, u)
  BY <1>0, <1>2, AdmittedMonotone DEF DInv
<1>4. Admitted(Source, t, clock)' = Admitted(Source, t, u)
  BY <1>2 DEF Admitted
<1>5. Admitted(Source, t, clock) \in Nat /\ Admitted(Source, t, u) \in Nat
  BY AdmittedType DEF DInv
<1>6. Since(e, t)'
  BY <1>0, <1>1, <1>2, <1>3, <1>4, <1>5 DEF Since
<1>. QED
  BY <1>6

LEMMA InTimeNext == IInv /\ InTime /\ [Next]_vars => InTime'
<1>. SUFFICES ASSUME IInv, InTime, [Next]_vars, NEW d \in Cpu, pc'[d] # "idle"
              PROVE  pkt'[d].now <= clock' /\ clock' - pkt'[d].now <= MaxLag
  BY DEF InTime
<1>0. /\ pc \in [Cpu -> {"idle", "lookup", "create", "read", "swap"}]
      /\ pkt \in [Cpu -> Packet] /\ clock \in Nat /\ pkt[d].now \in Nat /\ MaxLag \in Nat
  <2>1. Time \subseteq Nat
    BY RateAssumption DEF Time
  <2>. QED
    BY <2>1, RateAssumption DEF IInv, TypeOK, Packet
<1>1. pc[d] # "idle" => pkt[d].now <= clock /\ clock - pkt[d].now <= MaxLag
  BY DEF InTime
<1>2. ASSUME NEW c \in Cpu, Arrive(c)
      PROVE  pkt'[d].now <= clock' /\ clock' - pkt'[d].now <= MaxLag
  <2>1. PICK s \in Source, i \in Incs, l \in Limits :
          pkt' = [pkt EXCEPT ![c] = [src |-> s, now |-> clock, inc |-> i, lim |-> l]]
    BY <1>2 DEF Arrive
  <2>2. clock' = clock /\ pc' = [pc EXCEPT ![c] = "lookup"]
    BY <1>2 DEF Arrive
  <2>3. CASE c = d
    <3>1. pkt'[d].now = clock
      BY <2>1, <2>3, <1>0
    <3>. QED
      BY <3>1, <2>2, <1>0
  <2>4. CASE c # d
    <3>1. pkt'[d] = pkt[d] /\ pc'[d] = pc[d]
      BY <2>1, <2>2, <2>4, <1>0
    <3>. QED
      BY <3>1, <2>2, <1>0, <1>1
  <2>. QED
    BY <2>3, <2>4
<1>3. ASSUME NEW c \in Cpu, Lookup(c) \/ Create(c) \/ CreateFails(c) \/ Read(c) \/ Swap(c)
      PROVE  pkt'[d].now <= clock' /\ clock' - pkt'[d].now <= MaxLag
  <2>1. clock' = clock /\ pkt' = pkt
    BY <1>3 DEF Lookup, Create, CreateFails, Read, Swap
  <2>2. pc[c] # "idle" /\ \A b \in Cpu : b # c => pc'[b] = pc[b]
    BY <1>3, <1>0 DEF Lookup, Create, CreateFails, Read, Swap, Retry, Pass
  <2>3. pc[d] # "idle"
    BY <2>2
  <2>. QED
    BY <2>1, <2>3, <1>1
<1>4. CASE Elapse
  <2>1. clock' = clock + 1 /\ pc' = pc /\ pkt' = pkt
    BY <1>4 DEF Elapse
  <2>2. clock - pkt[d].now < MaxLag
    BY <1>4, <2>1 DEF Elapse
  <2>. QED
    BY <2>1, <2>2, <1>0, <1>1
<1>5. CASE Evict \/ UNCHANGED vars
  BY <1>5, <1>1 DEF Evict, vars
<1>. QED
  BY <1>2, <1>3, <1>4, <1>5 DEF Next

LEMMA OpenedNext == IsFiniteSet(Source) /\ DInv /\ [Next]_vars => Opened'
<1>. SUFFICES ASSUME IsFiniteSet(Source), DInv, [Next]_vars PROVE Opened'
  OBVIOUS
<1>0. IInv /\ IInv' /\ TypeOK /\ clock \in Nat /\ next \in Nat /\ Time \subseteq Nat
  <2>1. IInv' /\ Time \subseteq Nat
    BY NextInv, RateAssumption DEF DInv, Time
  <2>. QED
    BY <2>1, RateAssumption DEF DInv, IInv, TypeOK
<1>1. ASSUME NEW c \in Cpu, Arrive(c) \/ Lookup(c) \/ CreateFails(c) \/ Read(c) PROVE Opened'
  BY <1>1, <1>0, QuietOpened DEF Arrive, Lookup, CreateFails, Read
<1>2. CASE Evict \/ Elapse \/ UNCHANGED vars
  <2>1. UNCHANGED <<next, word, inWindow, passed>> /\ clock <= clock'
    BY <1>0, <1>2 DEF Evict, Elapse, vars
  <2>. QED
    BY <2>1, <1>0, QuietOpened
<1>3. ASSUME NEW c \in Cpu, Create(c) PROVE Opened'
  <2>1. CASE cur = 0
    <3>. DEFINE w == [tick |-> Tick(pkt[c].now), count |-> pkt[c].inc]
    <3>0. pkt[c] \in Packet /\ pkt[c].now \in Nat /\ pkt[c].inc \in Nat
      BY <1>0, RateAssumption DEF TypeOK, Packet
    <3>1. /\ pc[c] # "idle" /\ next + 1 \in Elem /\ w \in Word
          /\ w.tick = Tick(pkt[c].now)
      BY <1>3, <2>1, <3>0, <1>0, TickType, RateAssumption DEF Create, Elem, Word
    <3>2. /\ Pass(c, next + 1, w, pkt[c].inc) /\ clock' = clock /\ next' = next + 1
      BY <1>3, <2>1 DEF Create
    <3>. HIDE DEF w
    <3>3. /\ next' \in Nat /\ \A x \in 1..next' : x \in Elem
          /\ \A x \in 1..next' : x # next + 1 => x \in 1..next
      BY <3>1, <3>2, <1>0, RateAssumption DEF Elem
    <3>. QED
      BY <3>0, <3>1, <3>2, <3>3, PassOpened
  <2>2. CASE cur # 0
    BY <1>3, <2>2, <1>0, QuietOpened DEF Create
  <2>. QED
    BY <2>1, <2>2
<1>4. ASSUME NEW c \in Cpu, Swap(c) PROVE Opened'
  <2>1. CASE Unchanged(c)
    <3>. DEFINE e == ptr[c]
    <3>0. /\ pc[c] = "swap" /\ e \in 1..next /\ e \in Elem
          /\ pkt[c] \in Packet /\ pkt[c].now \in Nat /\ pkt[c].inc \in Nat
      <4>1. pc[c] = "swap"
        BY <1>4 DEF Swap
      <4>2. e \in 1..next /\ e \in Elem
        BY <4>1, <1>0, RateAssumption DEF TypeOK, Elem
      <4>. QED
        BY <4>1, <4>2, <1>0, RateAssumption DEF TypeOK, Packet
    <3>1. seen[c] = word[e] /\ word[e] \in Word /\ inWindow[e] \in Nat
      BY <2>1, <3>0, <1>0 DEF Unchanged, TypeOK
    <3>2. /\ clock' = clock /\ next' \in Nat /\ \A x \in 1..next' : x \in Elem
          /\ \A x \in 1..next' : x # e => x \in 1..next
      BY <1>4, <1>0, RateAssumption DEF Swap, TypeOK, Elem
    <3>3. CASE WindowOver(seen[c], pkt[c].now)
      <4>. DEFINE w == [tick |-> Tick(pkt[c].now), count |-> pkt[c].inc]
      <4>1. w \in Word /\ w.tick = Tick(pkt[c].now)
        BY <3>0, TickType DEF Word
      <4>2. Pass(c, e, w, pkt[c].inc)
        BY <1>4, <2>1, <3>3 DEF Swap
      <4>. HIDE DEF w, e
      <4>. QED
        BY <4>1, <4>2, <3>0, <3>2, PassOpened
    <3>4. CASE ~WindowOver(seen[c], pkt[c].now)
      <4>. DEFINE w == [tick |-> seen[c].tick, count |-> seen[c].count + pkt[c].inc]
                  total == inWindow[e] + pkt[c].inc
      <4>1. w \in Word /\ w.tick = word[e].tick /\ total \in Nat /\ total = inWindow[e] + pkt[c].inc
        BY <3>0, <3>1 DEF Word
      <4>2. Pass(c, e, w, total)
        BY <1>4, <2>1, <3>4 DEF Swap
      <4>. HIDE DEF w, e, total
      <4>. QED
        BY <4>1, <4>2, <3>0, <3>2, PassOpened
    <3>. QED
      BY <3>3, <3>4
  <2>2. CASE ~Unchanged(c)
    BY <1>4, <2>2, <1>0, QuietOpened DEF Swap
  <2>. QED
    BY <2>1, <2>2
<1>. QED
  BY <1>1, <1>2, <1>3, <1>4 DEF Next

\* The step behind DropJustified.
LEMMA DropStep ==
  ASSUME IsFiniteSet(Source), MaxTime < TickMod, DInv, [Next]_vars, NEW c \in Cpu, LimitDrop(c)
  PROVE  Admitted(Source, clock + 1 - Window - MaxLag, clock) + pkt[c].inc > pkt[c].lim
<1>. USE RateAssumption
<1>0. /\ IInv /\ TypeOK /\ CountExact /\ Time \subseteq Nat
      /\ pc \in [Cpu -> {"idle", "lookup", "create", "read", "swap"}]
      /\ pc[c] = "read" /\ pc'[c] = "idle"
  BY DEF DInv, IInv, TypeOK, Time, LimitDrop
<1>1. Read(c)
  <2>1. ASSUME NEW d \in Cpu, Arrive(d) PROVE FALSE
    BY <2>1, <1>0 DEF Arrive
  <2>2. ASSUME NEW d \in Cpu, Lookup(d) PROVE FALSE
    BY <2>2, <1>0 DEF Lookup
  <2>3. ASSUME NEW d \in Cpu, Create(d) PROVE FALSE
    BY <2>3, <1>0 DEF Create, Pass, Retry
  <2>7. ASSUME NEW d \in Cpu, CreateFails(d) PROVE FALSE
    BY <2>7, <1>0 DEF CreateFails, Retry
  <2>4. ASSUME NEW d \in Cpu, Swap(d) PROVE FALSE
    BY <2>4, <1>0 DEF Swap, Pass, Retry
  <2>5. ASSUME NEW d \in Cpu, Read(d) PROVE d = c
    BY <2>5, <1>0 DEF Read
  <2>6. ~(Evict \/ Elapse \/ UNCHANGED vars)
    BY <1>0 DEF Evict, Elapse, vars
  <2>. QED
    BY <2>1, <2>2, <2>3, <2>4, <2>5, <2>6, <2>7 DEF Next
<1>. DEFINE e == ptr[c]
            w == word[e]
            now == pkt[c].now
<1>2. /\ e \in Elem /\ e \in 1..next /\ w \in Word /\ inWindow[e] \in Nat /\ w.count = inWindow[e]
      /\ pkt[c] \in Packet /\ now \in Time /\ pkt[c].inc \in Nat /\ pkt[c].lim \in Nat
      /\ clock \in Time
  <2>1. e \in Elem /\ e \in 1..next
    BY <1>0 DEF TypeOK, Elem
  <2>2. w \in Word /\ inWindow[e] \in Nat /\ w.count = inWindow[e]
    BY <2>1, <1>0 DEF TypeOK, CountExact
  <2>3. pkt[c] \in Packet /\ clock \in Time
    BY <1>0 DEF TypeOK
  <2>. QED
    BY <2>1, <2>2, <2>3 DEF Packet
<1>3. ~WindowOver(w, now) /\ OverLimit(w, pkt[c])
  <2>1. pc' = [pc EXCEPT ![c] =
                 IF ~WindowOver(w, now) /\ OverLimit(w, pkt[c]) THEN "idle" ELSE "swap"]
    BY <1>1 DEF Read
  <2>. HIDE DEF w, now
  <2>. QED
    BY <2>1, <1>0
<1>4. PICK t \in Time : Since(e, t)
  BY <1>2 DEF DInv, Opened
<1>5. now <= clock /\ clock - now <= MaxLag
  BY <1>0 DEF DInv, InTime
<1>6. t >= clock + 1 - Window - MaxLag
  <2>0. now \in Nat /\ t \in Nat /\ clock \in Nat
    BY <1>0, <1>2
  <2>1. CASE t > now
    BY <2>0, <2>1, <1>5
  <2>2. CASE t <= now
    <3>1. now - t < TickMod
      BY <1>2, <2>0 DEF Time
    <3>2. Minus(Tick(now), Tick(t)) = now - t
      <4>. HIDE DEF now
      <4>. QED
        BY <2>0, <2>2, <3>1, MinusTicks
    <3>3. now - t < Window
      <4>1. w.tick = Tick(t)
        BY <1>4 DEF Since
      <4>2. ~(now - t >= Window)
        BY <1>3, <3>2, <4>1 DEF WindowOver
      <4>. QED
        BY <4>2, <2>0
    <3>. QED
      BY <3>3, <2>0, <1>5
  <2>. QED
    BY <2>0, <2>1, <2>2
<1>7. Admitted(Source, t, clock) <= Admitted(Source, clock + 1 - Window - MaxLag, clock)
  <2>1. /\ t \in Int /\ clock \in Int /\ clock + 1 - Window - MaxLag \in Int
        /\ clock <= clock /\ clock + 1 - Window - MaxLag <= t
    BY <1>0, <1>2, <1>6
  <2>. QED
    BY <2>1, <1>0, AdmittedMonotone
<1>8. inWindow[e] <= Admitted(Source, t, clock)
  BY <1>4 DEF Since
<1>9. inWindow[e] + pkt[c].inc > pkt[c].lim
  BY <1>2, <1>3 DEF OverLimit
<1>10. /\ Admitted(Source, t, clock) \in Nat
       /\ Admitted(Source, clock + 1 - Window - MaxLag, clock) \in Nat
  BY <1>0, AdmittedType
<1>. QED
  BY <1>2, <1>7, <1>8, <1>9, <1>10

\* WINDOW_RATE_CHECK drops a packet for its rate only when at least the limit,
\* this packet included, was admitted within the last window, give or take the
\* lag of a check: no lost or doubled count, no stale element and no wrap of
\* the 32-bit tick makes it drop a source that kept below its limit.  It holds
\* over a run shorter than one turn of the tick counter; after a full turn an
\* element that was left alone looks fresh again.
THEOREM DropsAreJustified ==
  IsFiniteSet(Source) /\ MaxTime < TickMod => (Spec => DropJustified)
<1>. SUFFICES ASSUME IsFiniteSet(Source), MaxTime < TickMod PROVE Spec => DropJustified
  OBVIOUS
<1>1. DInv /\ [Next]_vars => DInv'
  BY NextInv, InTimeNext, OpenedNext DEF DInv
<1>2. DInv /\ [Next]_vars =>
        [\A c \in Cpu : LimitDrop(c) =>
           Admitted(Source, clock + 1 - Window - MaxLag, clock) + pkt[c].inc > pkt[c].lim]_vars
  BY DropStep
<1>. QED
  BY DInvInit, <1>1, <1>2, PTL DEF Spec, DropJustified

-----------------------------------------------------------------------------
(* How much can pass in the time of one window. *)

\* Finitely many sources, a run shorter than a turn of the tick counter, checks
\* that lag at most half a window, and a largest limit.
BurstCase ==
    /\ IsFiniteSet(Source) /\ MaxTime < TickMod /\ 2 * MaxLag <= Window
    /\ \E l \in Limits : \A k \in Limits : k <= l

\* No element has counted more than the largest limit.
Capped == \A e \in Elem : inWindow[e] <= MaxLimit

\* k windows of an element have closed since time t, and the one that is open
\* at time c started at p.  Windows of before t and openings from the past
\* only; or one opening that is not from the past, at b, and those from the
\* past after it; or two, the second of which was a window after t - MaxLag.
Closed(t, k, p, c) ==
    \/ p <= t - 1 - k /\ (k >= 1 => p >= t - MaxLag)
    \/ \E b \in Int : /\ b - MaxLag <= p /\ p <= b /\ b <= c
                      /\ p >= t - MaxLag /\ k <= 1 + (b - p)
    \/ \E b \in Int : /\ b - MaxLag <= p /\ p <= b /\ b <= c
                      /\ b >= t - MaxLag + Window /\ k <= 2 + MaxLag + (b - p)

LEMMA LagType == MaxLag \in Nat /\ Window \in Nat /\ Window >= 1
  BY RateAssumption

LEMMA ClosedFew ==
  ASSUME NEW t \in Int, NEW k \in Nat, NEW p \in Int, NEW c \in Int,
         c <= t + Window - 1, Closed(t, k, p, c)
  PROVE  k + 1 <= BurstWindows
<1>1. CASE p <= t - 1 - k /\ (k >= 1 => p >= t - MaxLag)
  BY <1>1, LagType DEF BurstWindows
<1>2. CASE \E b \in Int : /\ b - MaxLag <= p /\ p <= b /\ b <= c
                          /\ p >= t - MaxLag /\ k <= 1 + (b - p)
  BY <1>2, LagType DEF BurstWindows
<1>3. CASE \E b \in Int : /\ b - MaxLag <= p /\ p <= b /\ b <= c
                          /\ b >= t - MaxLag + Window /\ k <= 2 + MaxLag + (b - p)
  BY <1>3, LagType DEF BurstWindows
<1>. QED
  BY <1>1, <1>2, <1>3 DEF Closed

LEMMA ClosedLater ==
  ASSUME NEW t \in Int, NEW k \in Nat, NEW p \in Int, NEW c \in Int, NEW c2 \in Int,
         c <= c2, Closed(t, k, p, c)
  PROVE  Closed(t, k, p, c2)
  BY DEF Closed

\* A window that starts at n after one at p: a window later, or from the past.
LEMMA ClosedNext ==
  ASSUME NEW t \in Int, NEW k \in Nat, NEW p \in Int, NEW c \in Int, NEW n \in Int,
         2 * MaxLag <= Window, t <= c, c <= t + Window - 1, n <= c, c - n <= MaxLag,
         n >= p + Window \/ n < p, Closed(t, k, p, c)
  PROVE  Closed(t, k + 1, n, c)
<1>1. CASE p <= t - 1 - k /\ (k >= 1 => p >= t - MaxLag)
  <2>1. CASE n < p
    BY <1>1, <2>1, LagType DEF Closed
  <2>2. CASE n >= p + Window /\ k = 0
    BY <2>2, LagType DEF Closed
  <2>3. CASE n >= p + Window /\ k >= 1
    BY <1>1, <2>3, LagType DEF Closed
  <2>. QED
    BY <2>1, <2>2, <2>3
<1>2. ASSUME NEW b \in Int, b - MaxLag <= p, p <= b, b <= c, p >= t - MaxLag, k <= 1 + (b - p)
      PROVE  Closed(t, k + 1, n, c)
  <2>1. CASE n < p
    BY <1>2, <2>1, LagType DEF Closed
  <2>2. CASE n >= p + Window
    BY <1>2, <2>2, LagType DEF Closed
  <2>. QED
    BY <2>1, <2>2
<1>3. ASSUME NEW b \in Int, b - MaxLag <= p, p <= b, b <= c,
             b >= t - MaxLag + Window, k <= 2 + MaxLag + (b - p)
      PROVE  Closed(t, k + 1, n, c)
  <2>1. n < p
    BY <1>3, LagType
  <2>. QED
    BY <1>3, <2>1, LagType DEF Closed
<1>. QED
  BY <1>1, <1>2, <1>3 DEF Closed

\* A word is over for a packet that is a window later, or that comes from
\* before the window was opened.
LEMMA OverWhen ==
  ASSUME MaxTime < TickMod, NEW p \in Time, NEW n \in Time, NEW w \in Word,
         w.tick = Tick(p), WindowOver(w, n)
  PROVE  n >= p + Window \/ n < p
<1>1. p \in Nat /\ n \in Nat /\ Window \in Nat
  BY RateAssumption DEF Time
<1>2. SUFFICES ASSUME p <= n PROVE n >= p + Window
  BY <1>1
<1>3. n - p < TickMod
  BY <1>1, RateAssumption DEF Time
<1>4. Minus(Tick(n), Tick(p)) = n - p
  BY <1>1, <1>2, <1>3, MinusTicks
<1>5. n - p >= Window
  BY <1>4 DEF WindowOver
<1>. QED
  BY <1>1, <1>5

LEMMA Times ==
  ASSUME NEW m \in Nat, NEW a \in Nat, NEW b \in Nat, a <= b
  PROVE  a * m \in Nat /\ a * m <= b * m /\ (a + 1) * m = a * m + m
<1>1. a * m \in Nat /\ b * m \in Nat /\ (b - a) * m \in Nat
  OBVIOUS
<1>2. b * m = a * m + (b - a) * m /\ (a + 1) * m = a * m + m
  OBVIOUS
<1>. QED
  BY <1>1, <1>2

LEMMA LimitMax ==
  ASSUME BurstCase
  PROVE  MaxLimit \in Nat /\ BurstWindows \in Nat /\ BurstWindows * MaxLimit \in Nat
         /\ \A l \in Limits : l <= MaxLimit
<1>1. MaxLimit \in Limits /\ \A l \in Limits : l <= MaxLimit
  BY DEF BurstCase, MaxLimit
<1>2. MaxLimit \in Nat /\ BurstWindows \in Nat
  BY <1>1, RateAssumption DEF BurstWindows
<1>3. BurstWindows * MaxLimit \in Nat
  BY <1>2
<1>. QED
  BY <1>1, <1>2, <1>3

LEMMA CappedInv == BurstCase => (Init => Capped) /\ (IInv /\ Capped /\ [Next]_vars => Capped')
<1>. SUFFICES ASSUME BurstCase PROVE (Init => Capped) /\ (IInv /\ Capped /\ [Next]_vars => Capped')
  OBVIOUS
<1>1. Init => Capped
  BY LimitMax DEF Init, Capped
<1>2. ASSUME IInv, Capped, [Next]_vars, NEW e \in Elem PROVE inWindow'[e] <= MaxLimit
  <2>1. CASE inWindow'[e] = inWindow[e]
    BY <1>2, <2>1 DEF Capped
  <2>2. CASE inWindow'[e] # inWindow[e]
    <3>1. PICK c \in Cpu : inWindow'[e] <= pkt[c].lim
      BY <1>2, <2>2, AdmittedStep
    <3>2. pkt[c].lim \in Limits /\ pkt[c].lim \in Nat
      BY <1>2, RateAssumption DEF IInv, TypeOK, Packet
    <3>3. inWindow'[e] \in Nat
      <4>1. IInv'
        BY <1>2, NextInv
      <4>. QED
        BY <4>1 DEF IInv, TypeOK
    <3>. QED
      BY <3>1, <3>2, <3>3, LimitMax
  <2>. QED
    BY <2>1, <2>2
<1>. QED
  BY <1>1, <1>2 DEF Capped

\* The sum over the first n elements.
LEMMA SumNext ==
  ASSUME NEW n \in Nat, NEW f, \A x \in 1..(n + 1) : f[x] \in Nat
  PROVE  SumFunctionOnSet(f, 1..(n + 1)) = f[n + 1] + SumFunctionOnSet(f, 1..n)
<1>1. IsFiniteSet(1..(n + 1)) /\ n + 1 \in 1..(n + 1)
  BY FS_Interval
<1>2. (1..(n + 1)) \ {n + 1} = 1..n
  OBVIOUS
<1>3. SumFunctionOnSet(f, 1..(n + 1)) = f[n + 1] + SumFunctionOnSet(f, (1..(n + 1)) \ {n + 1})
  BY <1>1, SumRemove
<1>. QED
  BY <1>2, <1>3

LEMMA SumBound ==
  ASSUME NEW n \in Nat, NEW f, NEW b \in Nat, \A x \in 1..n : f[x] \in Nat /\ f[x] <= b
  PROVE  SumFunctionOnSet(f, 1..n) <= n * b
<1>. DEFINE T == {i \in 0..n : SumFunctionOnSet(f, 1..i) <= i * b}
<1>1. 0 \in T
  <2>1. 1..0 = {} /\ IsFiniteSet({})
    BY FS_EmptySet
  <2>2. SumFunctionOnSet(f, 1..0) = 0
    BY <2>1, SumUnfold
  <2>. QED
    BY <2>2
<1>2. ASSUME NEW i \in 0..(n - 1), i \in T PROVE i + 1 \in T
  <2>1. SumFunctionOnSet(f, 1..(i + 1)) = f[i + 1] + SumFunctionOnSet(f, 1..i)
    <3>1. i \in Nat /\ \A x \in 1..(i + 1) : f[x] \in Nat
      OBVIOUS
    <3>. QED
      BY <3>1, SumNext
  <2>2. SumFunctionOnSet(f, 1..i) \in Nat
    <3>1. IsFiniteSet(1..i) /\ \A x \in 1..i : f[x] \in Nat
      BY FS_Interval
    <3>. QED
      BY <3>1, SumType
  <2>3. f[i + 1] \in Nat /\ f[i + 1] <= b
    OBVIOUS
  <2>4. (i + 1) * b = i * b + b /\ i * b \in Nat
    BY Times
  <2>5. SumFunctionOnSet(f, 1..i) <= i * b
    BY <1>2
  <2>6. SumFunctionOnSet(f, 1..(i + 1)) <= (i + 1) * b
    BY <2>1, <2>2, <2>3, <2>4, <2>5
  <2>. QED
    BY <2>6
<1>3. \A i \in 0..n : i \in T
  <2>. HIDE DEF T
  <2>. QED
    BY <1>1, <1>2, Induction
<1>. QED
  BY <1>3

LEMMA SumZero ==
  ASSUME NEW S, IsFiniteSet(S), NEW f, \A x \in S : f[x] = 0
  PROVE  SumFunctionOnSet(f, S) = 0
<1>. DEFINE T == {s \in SUBSET S : SumFunctionOnSet(f, s) = 0}
<1>1. ASSUME NEW s \in SUBSET S, \A u \in SUBSET s : u # s => u \in T
      PROVE  s \in T
  <2>1. SumFunctionOnSet(f, s) =
          IF s = {} THEN 0 ELSE f[First(s)] + SumFunctionOnSet(f, s \ {First(s)})
    <3>1. IsFiniteSet(s)
      BY FS_Subset
    <3>. QED
      BY <3>1, SumUnfold
  <2>2. s # {} => First(s) \in s /\ s \ {First(s)} \in T
    BY <1>1, FirstIn
  <2>. QED
    BY <2>1, <2>2
<1>2. \A s \in SUBSET S : s \in T
  <2>. HIDE DEF T
  <2>. QED
    BY <1>1, SubsetInduction
<1>. QED
  BY <1>2

\* The clock is in the time of one window from t.
During(t) == t <= clock /\ clock <= t + Window - 1

\* What element e may have admitted during the window from t: nothing before
\* it; in it, the largest limit for each window that closed and the count of
\* the open one.
Spent(t, e, x) ==
    /\ clock < t => x = 0
    /\ During(t) => \E p \in Time, k \in Nat :
         /\ p <= clock /\ word[e].tick = Tick(p)
         /\ x <= k * MaxLimit + inWindow[e] /\ Closed(t, k, p, clock)
    /\ x <= BurstWindows * MaxLimit

\* What was admitted during the window from t, shared out among the elements.
Shared(t, v, n) == Admitted(Source, t, t + Window - 1) <= SumFunctionOnSet(v, 1..n)

Burst(t) ==
    \E v \in [Elem -> Nat] : Shared(t, v, next) /\ \A e \in 1..next : Spent(t, e, v[e])

\* The inductive invariant behind BurstBound.
BInv == DInv /\ Capped /\ \A t \in Time : Burst(t)

LEMMA BurstTypes ==
  ASSUME BurstCase, BInv
  PROVE  /\ IInv /\ TypeOK /\ IsFiniteSet(Source) /\ MaxTime < TickMod
         /\ Time \subseteq Nat /\ clock \in Time /\ next \in Nat /\ 1..next \subseteq Elem
         /\ word \in [Elem -> Word] /\ inWindow \in [Elem -> Nat]
         /\ MaxLag \in Nat /\ Window \in Nat /\ Window >= 1
  BY RateAssumption DEF BurstCase, BInv, DInv, IInv, TypeOK, Time, Elem

LEMMA BurstInit == BurstCase /\ Init => \A t \in Time : Burst(t)
<1>. SUFFICES ASSUME BurstCase, Init, NEW t \in Time PROVE Burst(t)
  OBVIOUS
<1>1. Admitted(Source, t, t + Window - 1) = 0
  <2>1. IsFiniteSet(Span(t, t + Window - 1)) /\ Span(t, t + Window - 1) \subseteq Source \X Time
    BY SpanFinite DEF BurstCase
  <2>2. \A x \in Span(t, t + Window - 1) : passed[x] = 0
    BY <2>1 DEF Init
  <2>3. SumFunctionOnSet(passed, Span(t, t + Window - 1)) = 0
    BY <2>1, <2>2, SumZero
  <2>. QED
    BY <2>3, AdmittedIs
<1>2. next = 0 /\ 1..0 = {} /\ IsFiniteSet({})
  BY FS_EmptySet DEF Init
<1>3. PICK v \in [Elem -> Nat] : TRUE
  <2>1. [e \in Elem |-> 0] \in [Elem -> Nat]
    OBVIOUS
  <2>. QED
    BY <2>1
<1>4. SumFunctionOnSet(v, 1..next) = 0
  BY <1>2, SumUnfold
<1>. QED
  BY <1>1, <1>2, <1>3, <1>4 DEF Burst, Shared

\* A step that admits nothing, and does not move the clock.
LEMMA BurstStill ==
  ASSUME NEW t, Burst(t), UNCHANGED <<clock, next, word, inWindow, passed>>
  PROVE  Burst(t)'
<1>1. PICK v \in [Elem -> Nat] : Shared(t, v, next) /\ \A e \in 1..next : Spent(t, e, v[e])
  BY DEF Burst
<1>2. Shared(t, v, next)'
  BY <1>1 DEF Shared, Admitted
<1>3. \A e \in 1..next : Spent(t, e, v[e])'
  BY <1>1 DEF Spent, During
<1>. QED
  BY <1>2, <1>3 DEF Burst

\* The clock ticks: the windows that are open when time t comes are the first.
LEMMA BurstElapse ==
  ASSUME BurstCase, BInv, Elapse, NEW t \in Time
  PROVE  Burst(t)'
<1>0. clock \in Nat /\ clock' = clock + 1 /\ t \in Nat /\ Time \subseteq Nat
  BY BurstTypes DEF Elapse
<1>1. PICK v \in [Elem -> Nat] : Shared(t, v, next) /\ \A e \in 1..next : Spent(t, e, v[e])
  BY DEF BInv, Burst
<1>u. UNCHANGED <<next, word, inWindow, passed>>
  BY DEF Elapse
<1>2. Shared(t, v, next)'
  BY <1>1, <1>u DEF Shared, Admitted
<1>3. ASSUME NEW e \in 1..next PROVE Spent(t, e, v[e])'
  <2>0. Spent(t, e, v[e]) /\ inWindow[e] \in Nat
    BY <1>1, BurstTypes
  <2>1. clock' < t => v[e] = 0
    BY <2>0, <1>0 DEF Spent
  <2>2. v[e] <= BurstWindows * MaxLimit
    BY <2>0 DEF Spent
  <2>3. ASSUME During(t)'
        PROVE  \E p \in Time, k \in Nat :
                 /\ p <= clock' /\ word'[e].tick = Tick(p)
                 /\ v[e] <= k * MaxLimit + inWindow'[e] /\ Closed(t, k, p, clock')
    <3>0. t <= clock' /\ clock' <= t + Window - 1
      BY <2>3 DEF During
    <3>1. CASE clock < t
      <4>1. PICK p \in Time : Since(e, p)
        BY DEF BInv, DInv, Opened
      <4>2. p <= clock /\ word[e].tick = Tick(p) /\ p \in Nat
        BY <4>1, <1>0 DEF Since
      <4>3. v[e] <= 0 * MaxLimit + inWindow[e]
        BY <2>0, <3>1, LimitMax DEF Spent
      <4>4. Closed(t, 0, p, clock')
        BY <4>2, <3>1, <1>0 DEF Closed
      <4>. QED
        BY <4>2, <4>3, <4>4, <1>0, <1>u
    <3>2. CASE ~(clock < t)
      <4>1. During(t)
        BY <3>0, <3>2, <1>0, BurstTypes DEF During
      <4>2. PICK p \in Time, k \in Nat :
               /\ p <= clock /\ word[e].tick = Tick(p)
               /\ v[e] <= k * MaxLimit + inWindow[e] /\ Closed(t, k, p, clock)
        BY <4>1, <2>0 DEF Spent
      <4>3. Closed(t, k, p, clock') /\ p <= clock'
        <5>1. p \in Int /\ t \in Int /\ clock \in Int /\ clock' \in Int /\ clock <= clock'
          BY <1>0
        <5>. QED
          BY <4>2, <5>1, <1>0, ClosedLater
      <4>. QED
        BY <4>2, <4>3, <1>u
    <3>. QED
      BY <3>1, <3>2
  <2>. QED
    BY <2>1, <2>2, <2>3 DEF Spent
<1>. QED
  BY <1>1, <1>2, <1>3, <1>u DEF Burst

\* A packet that passes during the window from t adds to what was admitted in
\* it, and any other does not.
LEMMA PassShared ==
  ASSUME IsFiniteSet(Source), IInv, NEW c \in Cpu, NEW e, NEW w, NEW total,
         Pass(c, e, w, total), clock' = clock, NEW t \in Time
  PROVE  Admitted(Source, t, t + Window - 1)' =
           IF During(t) THEN Admitted(Source, t, t + Window - 1) + pkt[c].inc
           ELSE Admitted(Source, t, t + Window - 1)
<1>. DEFINE S == Span(t, t + Window - 1)
            x == <<pkt[c].src, clock>>
            k == pkt[c].inc
<1>1. clock \in Time /\ pkt[c].src \in Source /\ k \in Nat
  <2>1. clock \in Time /\ pkt[c] \in Packet
    BY DEF IInv, TypeOK
  <2>. QED
    BY <2>1, RateAssumption DEF Packet
<1>2. x \in Source \X Time /\ (x \in S <=> During(t))
  BY <1>1 DEF Span, During
<1>3. IsFiniteSet(S) /\ S \subseteq Source \X Time
  BY SpanFinite
<1>4. passed \in [Source \X Time -> Nat] /\ passed' = [passed EXCEPT ![x] = @ + k]
  BY DEF IInv, TypeOK, Pass
<1>7. Admitted(Source, t, t + Window - 1)' = SumFunctionOnSet(passed', S)
  BY DEF Admitted, Span
<1>8. Admitted(Source, t, t + Window - 1) = SumFunctionOnSet(passed, S)
  BY AdmittedIs
<1>. HIDE DEF S, x, k
<1>5. \A y \in S : passed[y] \in Nat /\ passed'[y] = IF y = x THEN passed[y] + k ELSE passed[y]
  BY <1>2, <1>3, <1>4
<1>6. CASE During(t)
  <2>1. SumFunctionOnSet(passed', S) = SumFunctionOnSet(passed, S) + k
    BY <1>1, <1>2, <1>3, <1>5, <1>6, SumAdd
  <2>. QED
    BY <1>6, <1>7, <1>8, <2>1 DEF k
<1>9. CASE ~During(t)
  <2>1. \A y \in S : passed'[y] = passed[y]
    BY <1>2, <1>5, <1>9
  <2>2. SumFunctionOnSet(passed', S) = SumFunctionOnSet(passed, S)
    BY <1>3, <2>1, SumSame
  <2>. QED
    BY <1>7, <1>8, <1>9, <2>2
<1>. QED
  BY <1>6, <1>9

LEMMA SumAddFirst ==
  ASSUME NEW n \in Nat, 1..n \subseteq Elem, NEW f \in [Elem -> Nat], NEW e \in 1..n,
         NEW d \in Nat
  PROVE  SumFunctionOnSet([f EXCEPT ![e] = @ + d], 1..n) = SumFunctionOnSet(f, 1..n) + d
<1>. DEFINE S == 1..n
            g == [f EXCEPT ![e] = @ + d]
<1>1. IsFiniteSet(S) /\ \A y \in S : f[y] \in Nat
  BY FS_Interval
<1>2. \A y \in S : g[y] = IF y = e THEN f[y] + d ELSE f[y]
  OBVIOUS
<1>. HIDE DEF g
<1>3. SumFunctionOnSet(g, S) = SumFunctionOnSet(f, S) + d
  BY <1>1, <1>2, SumAdd
<1>. QED
  BY <1>3 DEF g

\* A packet that passes: what it adds fits the windows of its element.
LEMMA BurstPass ==
  ASSUME BurstCase, BInv, Capped', NEW t \in Time, NEW c \in Cpu, NEW e \in Elem,
         NEW w \in Word, NEW total \in Nat, Pass(c, e, w, total), clock' = clock,
         next' \in Nat, 1..next' \subseteq Elem, e \in 1..next',
         NEW v \in [Elem -> Nat], Shared(t, v, next'),
         \A x \in 1..next' : x # e => Spent(t, x, v[x]),
         clock < t => v[e] = 0, v[e] <= BurstWindows * MaxLimit,
         During(t) => \E p \in Time, k \in Nat :
           /\ p <= clock /\ w.tick = Tick(p)
           /\ v[e] + pkt[c].inc <= k * MaxLimit + total /\ Closed(t, k, p, clock)
  PROVE  Burst(t)'
<1>0. /\ word \in [Elem -> Word] /\ inWindow \in [Elem -> Nat] /\ clock \in Nat /\ t \in Nat
      /\ Time \subseteq Nat /\ IInv /\ IsFiniteSet(Source) /\ Window \in Nat
      /\ pkt[c].inc \in Nat
  <2>1. pkt[c] \in Packet
    BY BurstTypes DEF TypeOK
  <2>. QED
    BY <2>1, BurstTypes, RateAssumption DEF Packet
<1>1. word' = [word EXCEPT ![e] = w] /\ inWindow' = [inWindow EXCEPT ![e] = total]
  BY DEF Pass
<1>2. word'[e] = w /\ inWindow'[e] = total /\ total <= MaxLimit
  BY <1>0, <1>1 DEF Capped
<1>3. \A x \in 1..next' : x # e => word'[x] = word[x] /\ inWindow'[x] = inWindow[x]
  BY <1>0, <1>1
<1>a. During(t)' = During(t)
  BY DEF During
<1>d. PICK d \in Nat : d = IF During(t) THEN pkt[c].inc ELSE 0
  BY <1>0
<1>4. PICK u \in [Elem -> Nat] : u = [v EXCEPT ![e] = @ + d]
  <2>1. v[e] + d \in Nat
    OBVIOUS
  <2>2. [v EXCEPT ![e] = v[e] + d] \in [Elem -> Nat]
    BY <2>1
  <2>. QED
    BY <2>2
<1>5. \A x \in 1..next' : v[x] \in Nat /\ u[x] = IF x = e THEN v[x] + d ELSE v[x]
  BY <1>4
<1>6. Shared(t, u, next)'
  <2>1. IsFiniteSet(1..next')
    BY FS_Interval
  <2>2. SumFunctionOnSet(u, 1..next') = SumFunctionOnSet(v, 1..next') + d
    <3>1. PICK n \in Nat : n = next'
      OBVIOUS
    <3>2. e \in 1..n /\ 1..n \subseteq Elem
      BY <3>1
    <3>3. SumFunctionOnSet([v EXCEPT ![e] = v[e] + d], 1..n) = SumFunctionOnSet(v, 1..n) + d
      BY <3>2, SumAddFirst
    <3>4. SumFunctionOnSet(u, 1..n) = SumFunctionOnSet(v, 1..n) + d
      BY <3>3, <1>4, Zenon
    <3>. QED
      BY <3>1, <3>4
  <2>3. Admitted(Source, t, t + Window - 1)' = Admitted(Source, t, t + Window - 1) + d
    <3>1. Admitted(Source, t, t + Window - 1) \in Nat
      BY <1>0, AdmittedType
    <3>. QED
      BY <1>0, <1>d, <3>1, PassShared
  <2>4. Admitted(Source, t, t + Window - 1) \in Nat /\ SumFunctionOnSet(v, 1..next') \in Nat
    BY <1>0, <1>5, <2>1, AdmittedType, SumType
  <2>5. Admitted(Source, t, t + Window - 1) <= SumFunctionOnSet(v, 1..next')
    BY DEF Shared
  <2>6. Admitted(Source, t, t + Window - 1)' <= SumFunctionOnSet(u, 1..next')
    <3>. QED
      BY <1>4, <2>2, <2>3, <2>4, <2>5
  <2>. QED
    BY <2>6 DEF Shared
<1>7. ASSUME NEW x \in 1..next', x # e PROVE Spent(t, x, u[x])'
  <2>1. Spent(t, x, v[x]) /\ u[x] = v[x]
    BY <1>5, <1>7
  <2>2. word'[x] = word[x] /\ inWindow'[x] = inWindow[x]
    BY <1>3, <1>7
  <2>3. Spent(t, x, v[x])'
    BY <2>1, <2>2, <1>a DEF Spent
  <2>. QED
    BY <2>1, <2>3
<1>8. Spent(t, e, u[e])'
  <2>1. u[e] = v[e] + d /\ v[e] \in Nat
    BY <1>5
  <2>2. CASE During(t)
    <3>1. PICK p \in Time, k \in Nat :
            /\ p <= clock /\ w.tick = Tick(p)
            /\ v[e] + pkt[c].inc <= k * MaxLimit + total /\ Closed(t, k, p, clock)
      BY <2>2
    <3>2. u[e] = v[e] + pkt[c].inc
      BY <2>1, <2>2, <1>d
    <3>3. k + 1 <= BurstWindows
      <4>1. p \in Int /\ t \in Int /\ clock \in Int /\ clock <= t + Window - 1
        BY <1>0, <2>2 DEF During
      <4>. QED
        BY <3>1, <4>1, ClosedFew
    <3>4. /\ k * MaxLimit \in Nat /\ (k + 1) * MaxLimit = k * MaxLimit + MaxLimit
          /\ (k + 1) * MaxLimit <= BurstWindows * MaxLimit
      <4>1. MaxLimit \in Nat /\ BurstWindows \in Nat /\ k + 1 \in Nat
        BY LimitMax
      <4>2. k * MaxLimit \in Nat /\ (k + 1) * MaxLimit = k * MaxLimit + MaxLimit
        BY <4>1, Times
      <4>3. (k + 1) * MaxLimit <= BurstWindows * MaxLimit
        BY <4>1, <3>3, Times
      <4>. QED
        BY <4>2, <4>3
    <3>5. u[e] <= BurstWindows * MaxLimit
      <4>. DEFINE A == k * MaxLimit
                  B == BurstWindows * MaxLimit
                  y == u[e]
      <4>1. /\ A \in Nat /\ B \in Nat /\ A + MaxLimit <= B /\ MaxLimit \in Nat
            /\ y <= A + total /\ y \in Nat
        BY <3>1, <3>2, <3>4, <1>0, <2>1, LimitMax
      <4>. HIDE DEF A, B, y
      <4>2. y <= B
        BY <4>1, <1>2
      <4>. QED
        BY <4>2 DEF y, B
    <3>6. ~(clock' < t)
      BY <2>2, <1>0 DEF During
    <3>7. /\ p <= clock' /\ word'[e].tick = Tick(p)
          /\ u[e] <= k * MaxLimit + inWindow'[e] /\ Closed(t, k, p, clock')
      BY <3>1, <3>2, <1>2
    <3>. QED
      BY <3>5, <3>6, <3>7 DEF Spent
  <2>3. CASE ~During(t)
    <3>1. u[e] = v[e]
      BY <2>1, <2>3, <1>d
    <3>. QED
      BY <3>1, <2>3, <1>a DEF Spent
  <2>. QED
    BY <2>2, <2>3
<1>9. \A x \in 1..next' : Spent(t, x, u[x])'
  BY <1>7, <1>8
<1>. QED
  BY <1>4, <1>6, <1>9 DEF Burst

LEMMA BurstCreate ==
  ASSUME BurstCase, BInv, [Next]_vars, NEW c \in Cpu, Create(c), cur = 0, NEW t \in Time
  PROVE  Burst(t)'
<1>0. /\ IInv /\ TypeOK /\ next \in Nat /\ clock \in Time /\ Time \subseteq Nat /\ t \in Nat
      /\ MaxLag \in Nat /\ MaxElem \in Nat
  BY BurstTypes, RateAssumption
<1>1. PICK w \in Word, i \in Nat, n \in Time :
        /\ i = pkt[c].inc /\ n = pkt[c].now /\ w.tick = Tick(n)
        /\ Pass(c, next + 1, w, i)
  <2>1. pkt[c] \in Packet
    BY <1>0 DEF TypeOK
  <2>2. pkt[c].inc \in Nat /\ pkt[c].now \in Time /\ pkt[c].now \in Nat
    BY <2>1, <1>0, RateAssumption DEF Packet
  <2>. DEFINE w == [tick |-> Tick(pkt[c].now), count |-> pkt[c].inc]
  <2>3. w \in Word /\ w.tick = Tick(pkt[c].now)
    BY <2>2, TickType DEF Word
  <2>4. Pass(c, next + 1, w, pkt[c].inc)
    BY DEF Create
  <2>. HIDE DEF w
  <2>. QED
    BY <2>2, <2>3, <2>4
<1>2. clock' = clock /\ next' = next + 1 /\ next < MaxElem /\ pc[c] = "create"
  BY DEF Create
<1>3. next' \in Nat /\ 1..next' \subseteq Elem /\ next + 1 \in 1..next' /\ next + 1 \in Elem
  BY <1>0, <1>2 DEF Elem
<1>4. n <= clock /\ clock - n <= MaxLag
  BY <1>1, <1>2 DEF BInv, DInv, InTime
<1>5. Capped'
  BY CappedInv DEF BInv, DInv
<1>6. PICK v \in [Elem -> Nat] : Shared(t, v, next) /\ \A e \in 1..next : Spent(t, e, v[e])
  BY DEF BInv, Burst
<1>7. PICK u \in [Elem -> Nat] : u = [v EXCEPT ![next + 1] = 0]
  OBVIOUS
<1>8. u[next + 1] = 0 /\ \A x \in 1..next : u[x] = v[x]
  BY <1>0, <1>3, <1>7 DEF Elem
<1>9. Shared(t, u, next')
  <2>1. SumFunctionOnSet(u, 1..(next + 1)) = u[next + 1] + SumFunctionOnSet(u, 1..next)
    <3>1. \A x \in 1..(next + 1) : u[x] \in Nat
      BY <1>2, <1>3
    <3>. QED
      BY <1>0, <3>1, SumNext
  <2>2. SumFunctionOnSet(u, 1..next) = SumFunctionOnSet(v, 1..next)
    <3>1. IsFiniteSet(1..next)
      BY <1>0, FS_Interval
    <3>. QED
      BY <1>8, <3>1, SumSame
  <2>3. SumFunctionOnSet(v, 1..next) \in Nat
    <3>1. IsFiniteSet(1..next) /\ \A x \in 1..next : v[x] \in Nat
      <4>1. IsFiniteSet(1..next) /\ 1..next \subseteq Elem
        <5>1. IsFiniteSet(1..next)
          BY <1>0, FS_Interval
        <5>. QED
          BY <5>1, BurstTypes
      <4>. QED
        BY <4>1
    <3>. QED
      BY <3>1, SumType
  <2>4. SumFunctionOnSet(u, 1..next') = SumFunctionOnSet(v, 1..next)
    BY <2>1, <2>2, <2>3, <1>2, <1>8
  <2>. QED
    BY <2>4, <1>6 DEF Shared
<1>10. \A x \in 1..next' : x # next + 1 => Spent(t, x, u[x])
  <2>. SUFFICES ASSUME NEW x \in 1..next', x # next + 1 PROVE Spent(t, x, u[x])
    OBVIOUS
  <2>1. x \in 1..next
    BY <1>0, <1>2
  <2>. QED
    BY <2>1, <1>6, <1>8
<1>11. u[next + 1] <= BurstWindows * MaxLimit
  BY <1>8, LimitMax
<1>12. During(t) => \E p \in Time, k \in Nat :
         /\ p <= clock /\ w.tick = Tick(p)
         /\ u[next + 1] + pkt[c].inc <= k * MaxLimit + i /\ Closed(t, k, p, clock)
  <2>1. u[next + 1] + pkt[c].inc <= 0 * MaxLimit + i
    BY <1>1, <1>8, LimitMax
  <2>2. During(t) => Closed(t, 0, n, clock)
    <3>1. n \in Int /\ clock \in Int
      BY <1>0
    <3>. QED
      BY <3>1, <1>4, <1>0 DEF During, Closed
  <2>. QED
    BY <2>1, <2>2, <1>1, <1>4
<1>. QED
  BY <1>1, <1>2, <1>3, <1>5, <1>8, <1>9, <1>10, <1>11, <1>12, BurstPass

LEMMA BurstSwap ==
  ASSUME BurstCase, BInv, [Next]_vars, NEW c \in Cpu, Swap(c), Unchanged(c), NEW t \in Time
  PROVE  Burst(t)'
<1>0. /\ IInv /\ TypeOK /\ CountExact /\ next \in Nat /\ clock \in Time /\ Time \subseteq Nat
      /\ t \in Nat /\ MaxTime < TickMod /\ 2 * MaxLag <= Window
      /\ 1..next \subseteq Elem
  BY BurstTypes DEF BInv, DInv, IInv, BurstCase
<1>c. clock' = clock /\ next' = next /\ pc[c] = "swap"
  BY DEF Swap
<1>1. PICK e \in Elem : e = ptr[c] /\ e \in 1..next
  BY <1>0, <1>c, RateAssumption DEF TypeOK, Elem
<1>2. PICK i \in Nat, n \in Time : i = pkt[c].inc /\ n = pkt[c].now
  <2>1. pkt[c] \in Packet
    BY <1>0 DEF TypeOK
  <2>. QED
    BY <2>1, <1>0, RateAssumption DEF Packet
<1>3. seen[c] = word[e] /\ word[e] \in Word /\ inWindow[e] \in Nat /\ inWindow[e] <= MaxLimit
  BY <1>0, <1>1 DEF Unchanged, TypeOK, BInv, Capped
<1>4. n <= clock /\ clock - n <= MaxLag
  BY <1>2, <1>c DEF BInv, DInv, InTime
<1>5. Capped'
  BY CappedInv DEF BInv, DInv
<1>6. PICK v \in [Elem -> Nat] : Shared(t, v, next) /\ \A x \in 1..next : Spent(t, x, v[x])
  BY DEF BInv, Burst
<1>7. Spent(t, e, v[e]) /\ v[e] \in Nat
  BY <1>1, <1>6
<1>8. (clock < t => v[e] = 0) /\ v[e] <= BurstWindows * MaxLimit
  BY <1>7 DEF Spent
<1>9. PICK w \in Word, total \in Nat :
        /\ Pass(c, e, w, total)
        /\ During(t) => \E p \in Time, k \in Nat :
             /\ p <= clock /\ w.tick = Tick(p)
             /\ v[e] + i <= k * MaxLimit + total /\ Closed(t, k, p, clock)
  <2>0. ASSUME During(t)
        PROVE  \E p \in Time, k \in Nat :
                 /\ p <= clock /\ word[e].tick = Tick(p)
                 /\ v[e] <= k * MaxLimit + inWindow[e] /\ Closed(t, k, p, clock)
    BY <2>0, <1>7 DEF Spent
  <2>1. CASE WindowOver(seen[c], pkt[c].now)
    <3>1. PICK w \in Word : w = [tick |-> Tick(n), count |-> i]
      <4>1. n \in Nat
        BY <1>0
      <4>. QED
        BY <4>1, TickType DEF Word
    <3>2. Pass(c, e, w, i) /\ w.tick = Tick(n)
      BY <3>1, <2>1, <1>1, <1>2 DEF Swap
    <3>3. ASSUME During(t)
          PROVE  \E k \in Nat : v[e] + i <= k * MaxLimit + i /\ Closed(t, k, n, clock)
      <4>1. PICK p \in Time, k \in Nat :
               /\ p <= clock /\ word[e].tick = Tick(p)
               /\ v[e] <= k * MaxLimit + inWindow[e] /\ Closed(t, k, p, clock)
        BY <3>3, <2>0
      <4>2. n >= p + Window \/ n < p
        BY <4>1, <2>1, <1>0, <1>2, <1>3, OverWhen
      <4>3. Closed(t, k + 1, n, clock)
        <5>1. /\ t \in Int /\ p \in Int /\ n \in Int /\ clock \in Int
              /\ t <= clock /\ clock <= t + Window - 1
          BY <1>0, <3>3 DEF During
        <5>. QED
          BY <5>1, <4>1, <4>2, <1>0, <1>4, ClosedNext
      <4>4. v[e] + i <= (k + 1) * MaxLimit + i
        <5>1. MaxLimit \in Nat
          BY LimitMax
        <5>2. (k + 1) * MaxLimit = k * MaxLimit + MaxLimit /\ k * MaxLimit \in Nat
          BY <5>1, Times
        <5>. DEFINE A == k * MaxLimit
                    B == (k + 1) * MaxLimit
        <5>3. A \in Nat /\ B = A + MaxLimit /\ v[e] <= A + inWindow[e]
          BY <5>2, <4>1
        <5>. HIDE DEF A, B
        <5>4. v[e] + i <= B + i
          BY <5>1, <5>3, <1>3, <1>7
        <5>. QED
          BY <5>4 DEF B
      <4>. QED
        BY <4>3, <4>4
    <3>. QED
      BY <3>2, <3>3, <1>4
  <2>2. CASE ~WindowOver(seen[c], pkt[c].now)
    <3>1. PICK w \in Word : w = [tick |-> seen[c].tick, count |-> seen[c].count + i]
      <4>1. seen[c].tick \in 0..TickMod - 1 /\ seen[c].count \in Nat
        BY <1>3 DEF Word
      <4>2. seen[c].count + i \in Nat
        BY <4>1
      <4>. QED
        BY <4>1, <4>2 DEF Word
    <3>2. w.tick = word[e].tick
      BY <3>1, <1>3
    <3>3. Pass(c, e, w, inWindow[e] + i) /\ inWindow[e] + i \in Nat
      BY <3>1, <2>2, <1>1, <1>2, <1>3 DEF Swap
    <3>4. ASSUME During(t)
          PROVE  \E p \in Time, k \in Nat :
                   /\ p <= clock /\ w.tick = Tick(p)
                   /\ v[e] + i <= k * MaxLimit + (inWindow[e] + i) /\ Closed(t, k, p, clock)
      <4>1. PICK p \in Time, k \in Nat :
               /\ p <= clock /\ word[e].tick = Tick(p)
               /\ v[e] <= k * MaxLimit + inWindow[e] /\ Closed(t, k, p, clock)
        BY <3>4, <2>0
      <4>2. MaxLimit \in Nat /\ k * MaxLimit \in Nat
        BY LimitMax, Times
      <4>. DEFINE A == k * MaxLimit
      <4>3. A \in Nat /\ v[e] <= A + inWindow[e]
        BY <4>1, <4>2
      <4>. HIDE DEF A
      <4>4. v[e] + i <= A + (inWindow[e] + i)
        BY <4>3, <1>3, <1>7
      <4>. QED
        BY <4>1, <4>4, <3>2 DEF A
    <3>. QED
      BY <3>3, <3>4
  <2>. QED
    BY <2>1, <2>2
<1>10. \A x \in 1..next' : x # e => Spent(t, x, v[x])
  BY <1>6, <1>c
<1>11. next' \in Nat /\ 1..next' \subseteq Elem /\ e \in 1..next' /\ Shared(t, v, next')
  BY <1>0, <1>1, <1>6, <1>c
<1>. QED
  BY <1>2, <1>5, <1>8, <1>9, <1>10, <1>11, <1>c, BurstPass

LEMMA BurstNext == BurstCase /\ BInv /\ [Next]_vars => \A t \in Time : Burst(t)'
<1>. SUFFICES ASSUME BurstCase, BInv, [Next]_vars, NEW t \in Time PROVE Burst(t)'
  OBVIOUS
<1>0. Burst(t)
  BY DEF BInv
<1>1. ASSUME NEW c \in Cpu, Arrive(c) \/ Lookup(c) \/ CreateFails(c) \/ Read(c) PROVE Burst(t)'
  BY <1>0, <1>1, BurstStill DEF Arrive, Lookup, CreateFails, Read
<1>2. CASE Evict \/ UNCHANGED vars
  BY <1>0, <1>2, BurstStill DEF Evict, vars
<1>3. ASSUME NEW c \in Cpu, Create(c) PROVE Burst(t)'
  <2>1. CASE cur = 0
    BY <1>3, <2>1, BurstCreate
  <2>2. CASE cur # 0
    BY <1>0, <1>3, <2>2, BurstStill DEF Create
  <2>. QED
    BY <2>1, <2>2
<1>4. ASSUME NEW c \in Cpu, Swap(c) PROVE Burst(t)'
  <2>1. CASE Unchanged(c)
    BY <1>4, <2>1, BurstSwap
  <2>2. CASE ~Unchanged(c)
    BY <1>0, <1>4, <2>2, BurstStill DEF Swap
  <2>. QED
    BY <2>1, <2>2
<1>5. CASE Elapse
  BY <1>5, BurstElapse
<1>. QED
  BY <1>1, <1>2, <1>3, <1>4, <1>5 DEF Next

LEMMA BurstIs == BurstCase /\ BInv => BurstBound
<1>. SUFFICES ASSUME BurstCase, BInv, NEW t \in Time
              PROVE  Admitted(Source, t, t + Window - 1) <= next * BurstWindows * MaxLimit
  BY DEF BurstBound
<1>0. next \in Nat /\ IsFiniteSet(Source) /\ IInv /\ 1..next \subseteq Elem
  BY BurstTypes
<1>1. PICK v \in [Elem -> Nat] : Shared(t, v, next) /\ \A e \in 1..next : Spent(t, e, v[e])
  BY DEF BInv, Burst
<1>2. PICK b \in Nat : b = BurstWindows * MaxLimit
  BY LimitMax
<1>3. \A x \in 1..next : v[x] \in Nat /\ v[x] <= b
  BY <1>0, <1>1, <1>2 DEF Spent
<1>4. SumFunctionOnSet(v, 1..next) <= next * b
  BY <1>0, <1>3, SumBound
<1>5. Admitted(Source, t, t + Window - 1) <= SumFunctionOnSet(v, 1..next)
  BY <1>1 DEF Shared
<1>6. Admitted(Source, t, t + Window - 1) \in Nat /\ SumFunctionOnSet(v, 1..next) \in Nat
  <2>1. IsFiniteSet(1..next) /\ \A x \in 1..next : v[x] \in Nat
    BY <1>0, <1>3, FS_Interval
  <2>. QED
    BY <1>0, <2>1, AdmittedType, SumType
<1>7. next * b = next * BurstWindows * MaxLimit /\ next * b \in Nat
  BY <1>0, <1>2, LimitMax
<1>. QED
  BY <1>4, <1>5, <1>6, <1>7

\* However many CPUs run the check and however they interleave, in the time of
\* one window no more than the windows that can touch it pass: twice the limit
\* for each element of the key when checks do not lag, and two windows more
\* per tick of lag, and one, when they do.
THEOREM BurstIsBounded == BurstCase => (Spec => []BurstBound)
<1>. SUFFICES ASSUME BurstCase PROVE Spec => []BurstBound
  OBVIOUS
<1>1. Init => BInv
  BY DInvInit, CappedInv, BurstInit DEF BInv
<1>2. BInv /\ [Next]_vars => BInv'
  <2>. SUFFICES ASSUME BInv, [Next]_vars PROVE BInv'
    OBVIOUS
  <2>1. DInv'
    BY NextInv, InTimeNext, OpenedNext DEF BInv, DInv, BurstCase
  <2>2. Capped'
    BY CappedInv DEF BInv, DInv
  <2>3. \A t \in Time : Burst(t)'
    BY BurstNext
  <2>. QED
    BY <2>1, <2>2, <2>3 DEF BInv
<1>3. BInv => BurstBound
  BY BurstIs
<1>. QED
  BY <1>1, <1>2, <1>3, PTL DEF Spec
-----------------------------------------------------------------------------
(* The check implements the one of AtomicWindow. *)

\* The clock runs for less than a turn of the tick, and a check that lags does
\* not make a window that just opened look like one that is not over.
AtomicCase == MaxTime < TickMod /\ MaxLag + Window <= TickMod

\* The tick of every element stands for a time that has been.
Dated == \A e \in 1..next : \E t \in Time : t <= clock /\ word[e].tick = Tick(t)

\* The inductive invariant behind ChecksAreAtomic.
AInv == IInv /\ InTime /\ Dated

LEMMA TimeType ==
  /\ Time \subseteq Nat
  /\ IInv => \A c \in Cpu : /\ pkt[c] \in Packet /\ pkt[c].src \in Source /\ pkt[c].now \in Time
                            /\ pkt[c].inc \in Incs /\ pkt[c].inc \in Nat
                            /\ pkt[c].lim \in Limits /\ pkt[c].lim \in Nat
<1>1. Time \subseteq Nat
  BY RateAssumption DEF Time
<1>2. ASSUME IInv, NEW c \in Cpu PROVE pkt[c] \in Packet
  BY <1>2 DEF IInv, TypeOK
<1>3. ASSUME NEW p \in Packet
      PROVE  /\ p.src \in Source /\ p.now \in Time /\ p.inc \in Incs /\ p.lim \in Limits
             /\ p.inc \in Nat /\ p.lim \in Nat
  <2>1. p.src \in Source /\ p.now \in Time /\ p.inc \in Incs /\ p.lim \in Limits
    BY DEF Packet
  <2>. QED
    BY <2>1, RateAssumption
<1>. QED
  BY <1>1, <1>2, <1>3

LEMMA NumberTypes ==
  ASSUME IInv
  PROVE  clock \in Nat /\ clock \in Time /\ next \in Nat /\ next <= MaxElem
         /\ MaxElem \in Nat /\ MaxLag \in Nat
<1>1. clock \in Time /\ next \in 0..MaxElem
  BY DEF IInv, TypeOK
<1>. QED
  BY <1>1, TimeType, RateAssumption

\* In less than a turn a tick stands for one time.
LEMMA TickTime ==
  ASSUME AtomicCase, NEW t \in Time, NEW u \in Time, Tick(t) = Tick(u)
  PROVE  t = u
<1>1. ASSUME NEW a \in Time, NEW b \in Time, b <= a, Tick(a) = Tick(b) PROVE a = b
  <2>1. a \in Nat /\ b \in Nat /\ a - b < TickMod /\ TickMod > 0 /\ TickMod \in Nat
    BY <1>1, RateAssumption DEF Time, AtomicCase
  <2>2. Minus(Tick(a), Tick(b)) = a - b
    BY <1>1, <2>1, MinusTicks
  <2>3. Minus(Tick(a), Tick(a)) = a - a
    <3>1. a <= a /\ a - a < TickMod
      BY <2>1
    <3>. QED
      BY <2>1, <3>1, MinusTicks
  <2>. QED
    BY <1>1, <2>1, <2>2, <2>3
<1>2. t \in Nat /\ u \in Nat
  BY TimeType
<1>. QED
  BY <1>1, <1>2

\* A window starts at the time that its tick was taken from.
LEMMA StartIs ==
  ASSUME AtomicCase, NEW k, NEW t \in Time, k = Tick(t)
  PROVE  (CHOOSE x \in Time : Tick(x) = k) = t
<1>. DEFINE u == CHOOSE x \in Time : Tick(x) = k
<1>1. u \in Time /\ Tick(u) = k
  OBVIOUS
<1>. HIDE DEF u
<1>2. u = t
  BY <1>1, TickTime
<1>. QED
  BY <1>2 DEF u

LEMMA WindowIs ==
  ASSUME AtomicCase, NEW e, NEW t \in Time, word[e].tick = Tick(t)
  PROVE  WindowOf(e) = [start |-> t, count |-> word[e].count]
  BY StartIs DEF WindowOf

\* A word is not over for a packet of its window, and for no other one that
\* does not lag too much.
LEMMA NotOverWhen ==
  ASSUME AtomicCase, NEW p \in Time, NEW n \in Time, NEW w \in Word,
         w.tick = Tick(p), p - n <= MaxLag, ~WindowOver(w, n)
  PROVE  p <= n /\ n < p + Window
<1>0. /\ p \in Nat /\ n \in Nat /\ Window \in Nat /\ MaxLag \in Nat /\ TickMod \in Nat
      /\ Tick(n) \in 0..TickMod - 1 /\ Tick(p) \in 0..TickMod - 1 /\ Window > 0
  BY TimeType, TickType, RateAssumption
<1>1. Minus(Tick(n), Tick(p)) < Window
  <2>1. Minus(Tick(n), Tick(p)) \in Nat
    BY <1>0 DEF Minus
  <2>. QED
    BY <1>0, <2>1 DEF WindowOver
<1>2. CASE p <= n
  <2>1. n - p < TickMod
    BY <1>0, RateAssumption DEF Time, AtomicCase
  <2>2. Minus(Tick(n), Tick(p)) = n - p
    BY <1>0, <1>2, <2>1, MinusTicks
  <2>. QED
    BY <1>0, <1>1, <1>2, <2>2
<1>3. CASE n < p
  <2>1. n <= p /\ p - n < TickMod /\ p - n > 0
    BY <1>0, <1>3 DEF AtomicCase
  <2>2. Minus(Tick(p), Tick(n)) = p - n
    BY <1>0, <2>1, MinusTicks
  <2>3. Minus(Tick(n), Tick(p)) = TickMod - (p - n)
    <3>1. PICK a \in 0..TickMod - 1, b \in 0..TickMod - 1 : a = Tick(p) /\ b = Tick(n)
      BY <1>0
    <3>2. PICK d \in Nat : d = p - n
      BY <1>0, <2>1
    <3>3. (a + TickMod - b) % TickMod = d /\ d > 0 /\ d < TickMod
      BY <2>1, <2>2, <3>1, <3>2 DEF Minus
    <3>4. a - b = d \/ a - b = d - TickMod
      <4>1. CASE a >= b
        <5>1. (a + TickMod - b) % TickMod = a - b
          BY <4>1, <1>0
        <5>. QED
          BY <5>1, <3>3
      <4>2. CASE a < b
        <5>1. (a + TickMod - b) % TickMod = a + TickMod - b
          BY <4>2, <1>0
        <5>. QED
          BY <5>1, <3>3, <1>0
      <4>. QED
        BY <4>1, <4>2
    <3>5. (b + TickMod - a) % TickMod = TickMod - d
      <4>1. CASE a - b = d
        <5>1. b + TickMod - a = TickMod - d /\ TickMod - d \in 0..TickMod - 1
          BY <4>1, <3>3, <1>0
        <5>. QED
          BY <5>1, <1>0
      <4>2. CASE a - b = d - TickMod
        <5>1. b + TickMod - a = (TickMod - d) + TickMod /\ TickMod - d \in 0..TickMod - 1
          BY <4>2, <3>3, <1>0
        <5>2. ((TickMod - d) + TickMod) % TickMod = TickMod - d
          BY <5>1, <1>0
        <5>. QED
          BY <5>1, <5>2
      <4>. QED
        BY <4>1, <4>2, <3>4
    <3>. QED
      BY <3>1, <3>2, <3>5 DEF Minus
  <2>4. TickMod - (p - n) >= Window
    BY <1>0 DEF AtomicCase
  <2>. QED
    BY <1>0, <1>1, <2>3, <2>4
<1>. QED
  BY <1>0, <1>2, <1>3
\* The windows after a packet has passed.
LEMMA PassWindows ==
  ASSUME AtomicCase, IInv, NEW c, NEW e \in Elem, NEW w \in Word, NEW total,
         Pass(c, e, w, total), NEW t \in Time, w.tick = Tick(t)
  PROVE  /\ WindowOf(e)' = [start |-> t, count |-> w.count]
         /\ \A x \in Elem : x # e => WindowOf(x)' = WindowOf(x)
<1>1. word' = [word EXCEPT ![e] = w] /\ word \in [Elem -> Word]
  BY DEF Pass, IInv, TypeOK
<1>2. word'[e] = w /\ \A x \in Elem : x # e => word'[x] = word[x]
  BY <1>1
<1>3. (CHOOSE x \in Time : Tick(x) = w.tick) = t
  BY StartIs
<1>4. WindowOf(e)' = [start |-> t, count |-> w.count]
  BY <1>2, <1>3 DEF WindowOf
<1>5. ASSUME NEW x \in Elem, x # e PROVE WindowOf(x)' = WindowOf(x)
  BY <1>2, <1>5 DEF WindowOf
<1>. QED
  BY <1>4, <1>5

\* The elements keep the times of their ticks when a packet passes.
LEMMA PassDated ==
  ASSUME AInv, NEW c, NEW e \in Elem, NEW w \in Word, NEW total, Pass(c, e, w, total),
         clock' = clock, 1..next' \subseteq Elem, \A x \in 1..next' : x # e => x \in 1..next,
         NEW t \in Time, t <= clock, w.tick = Tick(t)
  PROVE  Dated'
<1>1. word' = [word EXCEPT ![e] = w] /\ word \in [Elem -> Word]
  BY DEF Pass, AInv, IInv, TypeOK
<1>. SUFFICES ASSUME NEW x \in 1..next'
              PROVE  \E u \in Time : u <= clock' /\ word'[x].tick = Tick(u)
  BY DEF Dated
<1>2. CASE x = e
  BY <1>1, <1>2
<1>3. CASE x # e
  <2>1. word'[x] = word[x] /\ x \in 1..next
    BY <1>1, <1>3
  <2>. QED
    BY <2>1 DEF AInv, Dated
<1>. QED
  BY <1>2, <1>3

\* What the successful attempts of the check are made of.
LEMMA CreateFacts ==
  ASSUME AInv, NEW c \in Cpu, Create(c), cur = 0
  PROVE  /\ next + 1 \in Elem /\ next \in Nat /\ next < MaxElem
         /\ next' = next + 1 /\ clock' = clock
         /\ pkt[c].now <= clock /\ clock <= pkt[c].now + MaxLag /\ pkt[c].inc <= pkt[c].lim
         /\ \E w \in Word : /\ w.tick = Tick(pkt[c].now) /\ w.count = pkt[c].inc
                            /\ Pass(c, next + 1, w, pkt[c].inc)
<1>0. /\ pkt[c] \in Packet /\ pkt[c].now \in Nat /\ pkt[c].inc \in Nat /\ clock \in Nat
      /\ next \in Nat /\ MaxElem \in Nat /\ MaxLag \in Nat
  <2>1. IInv
    BY DEF AInv
  <2>. QED
    BY <2>1, TimeType, NumberTypes
<1>1. /\ pc[c] = "create" /\ next < MaxElem /\ next' = next + 1 /\ clock' = clock
      /\ Pass(c, next + 1, [tick |-> Tick(pkt[c].now), count |-> pkt[c].inc], pkt[c].inc)
  BY DEF Create
<1>2. /\ pkt[c].now <= clock /\ clock - pkt[c].now <= MaxLag /\ pkt[c].inc <= pkt[c].lim
  BY <1>1 DEF AInv, IInv, InTime, UnderWay
<1>3. [tick |-> Tick(pkt[c].now), count |-> pkt[c].inc] \in Word
  BY <1>0, TickType DEF Word
<1>4. next + 1 \in Elem
  BY <1>0, <1>1 DEF Elem
<1>. QED
  BY <1>0, <1>1, <1>2, <1>3, <1>4

LEMMA SwapFacts ==
  ASSUME AInv, NEW c \in Cpu, Swap(c), Unchanged(c)
  PROVE  /\ ptr[c] \in 1..next /\ ptr[c] \in Elem /\ word[ptr[c]] \in Word
         /\ next' = next /\ clock' = clock
         /\ pkt[c].now <= clock /\ clock <= pkt[c].now + MaxLag /\ pkt[c].inc <= pkt[c].lim
         /\ \/ /\ WindowOver(word[ptr[c]], pkt[c].now)
               /\ \E w \in Word : /\ w.tick = Tick(pkt[c].now) /\ w.count = pkt[c].inc
                                  /\ Pass(c, ptr[c], w, pkt[c].inc)
            \/ /\ ~WindowOver(word[ptr[c]], pkt[c].now)
               /\ word[ptr[c]].count + pkt[c].inc <= pkt[c].lim
               /\ \E w \in Word, total \in Nat :
                    /\ w.tick = word[ptr[c]].tick /\ w.count = word[ptr[c]].count + pkt[c].inc
                    /\ Pass(c, ptr[c], w, total)
<1>0. /\ pkt[c] \in Packet /\ pkt[c].now \in Nat /\ pkt[c].inc \in Nat /\ pkt[c].lim \in Nat
      /\ clock \in Nat /\ next \in Nat /\ MaxElem \in Nat /\ MaxLag \in Nat
  <2>1. IInv
    BY DEF AInv
  <2>. QED
    BY <2>1, TimeType, NumberTypes
<1>1. pc[c] = "swap" /\ next' = next /\ clock' = clock /\ seen[c] = word[ptr[c]]
  BY DEF Swap, Unchanged
<1>2. /\ pkt[c].now <= clock /\ clock - pkt[c].now <= MaxLag /\ pkt[c].inc <= pkt[c].lim
  BY <1>1 DEF AInv, IInv, InTime, UnderWay
<1>3. ptr[c] \in 1..next /\ ptr[c] \in Elem
  BY <1>0, <1>1 DEF AInv, IInv, TypeOK, Elem
<1>4. /\ word[ptr[c]] \in Word /\ word[ptr[c]].count \in Nat
      /\ word[ptr[c]].tick \in 0..TickMod - 1 /\ inWindow[ptr[c]] \in Nat
  BY <1>3 DEF AInv, IInv, TypeOK, Word
<1>5. CASE WindowOver(word[ptr[c]], pkt[c].now)
  <2>1. [tick |-> Tick(pkt[c].now), count |-> pkt[c].inc] \in Word
    BY <1>0, TickType DEF Word
  <2>2. Pass(c, ptr[c], [tick |-> Tick(pkt[c].now), count |-> pkt[c].inc], pkt[c].inc)
    BY <1>1, <1>5 DEF Swap
  <2>. QED
    BY <1>0, <1>1, <1>2, <1>3, <1>4, <1>5, <2>1, <2>2
<1>6. CASE ~WindowOver(word[ptr[c]], pkt[c].now)
  <2>1. [tick |-> word[ptr[c]].tick, count |-> word[ptr[c]].count + pkt[c].inc] \in Word
    BY <1>0, <1>4 DEF Word
  <2>2. Pass(c, ptr[c], [tick |-> word[ptr[c]].tick, count |-> word[ptr[c]].count + pkt[c].inc],
             inWindow[ptr[c]] + pkt[c].inc)
    BY <1>1, <1>6 DEF Swap
  <2>3. inWindow[ptr[c]] + pkt[c].inc \in Nat
    BY <1>0, <1>4
  <2>4. word[ptr[c]].count + pkt[c].inc <= pkt[c].lim
    <3>1. ~OverLimit(word[ptr[c]], pkt[c])
      BY <1>1, <1>6 DEF AInv, IInv, SwapJustified
    <3>. QED
      BY <3>1, <1>0, <1>4 DEF OverLimit
  <2>. QED
    BY <1>0, <1>1, <1>2, <1>3, <1>4, <1>6, <2>1, <2>2, <2>3, <2>4
<1>. QED
  BY <1>5, <1>6

\* A step that changes no word keeps the windows.
LEMMA QuietWindows ==
  word' = word => \A x : WindowOf(x)' = WindowOf(x)
  BY DEF WindowOf

LEMMA DatedNext == AInv /\ [Next]_vars => Dated'
<1>. SUFFICES ASSUME AInv, [Next]_vars PROVE Dated'
  OBVIOUS
<1>0. /\ clock \in Nat /\ next \in Nat /\ Dated /\ IInv /\ Time \subseteq Nat /\ MaxElem \in Nat
      /\ next <= MaxElem
  BY TimeType, RateAssumption DEF AInv, IInv, TypeOK
<1>1. ASSUME word' = word, next' = next, clock' = clock \/ clock' = clock + 1 PROVE Dated'
  <2>. SUFFICES ASSUME NEW x \in 1..next
                PROVE  \E u \in Time : u <= clock' /\ word[x].tick = Tick(u)
    BY <1>1 DEF Dated
  <2>1. PICK u \in Time : u <= clock /\ word[x].tick = Tick(u)
    BY <1>0 DEF Dated
  <2>2. u <= clock'
    BY <1>0, <1>1, <2>1
  <2>. QED
    BY <2>1, <2>2
<1>2. ASSUME NEW c \in Cpu, Create(c) PROVE Dated'
  <2>1. CASE cur # 0
    BY <1>1, <1>2, <2>1 DEF Create
  <2>2. CASE cur = 0
    <3>1. /\ next + 1 \in Elem /\ next' = next + 1 /\ clock' = clock /\ next < MaxElem
          /\ pkt[c].now <= clock /\ pkt[c].now \in Time
      BY <1>0, <1>2, <2>2, CreateFacts, TimeType
    <3>2. PICK w \in Word : w.tick = Tick(pkt[c].now) /\ Pass(c, next + 1, w, pkt[c].inc)
      BY <1>2, <2>2, CreateFacts
    <3>3. 1..next' \subseteq Elem /\ \A x \in 1..next' : x # next + 1 => x \in 1..next
      BY <1>0, <3>1 DEF Elem
    <3>. QED
      BY <3>1, <3>2, <3>3, PassDated
  <2>. QED
    BY <2>1, <2>2
<1>3. ASSUME NEW c \in Cpu, Swap(c) PROVE Dated'
  <2>1. CASE ~Unchanged(c)
    BY <1>1, <1>3, <2>1 DEF Swap
  <2>2. CASE Unchanged(c)
    <3>1. /\ ptr[c] \in 1..next /\ ptr[c] \in Elem /\ next' = next /\ clock' = clock
          /\ pkt[c].now <= clock /\ pkt[c].now \in Time
      BY <1>0, <1>3, <2>2, SwapFacts, TimeType
    <3>2. 1..next' \subseteq Elem /\ \A x \in 1..next' : x # ptr[c] => x \in 1..next
      BY <1>0, <3>1 DEF Elem
    <3>3. PICK w \in Word, total \in Nat :
            /\ Pass(c, ptr[c], w, total)
            /\ w.tick = Tick(pkt[c].now) \/ w.tick = word[ptr[c]].tick
      <4>1. pkt[c].inc \in Nat
        BY <1>0, TimeType
      <4>. QED
        BY <1>3, <2>2, <4>1, SwapFacts
    <3>4. PICK u \in Time : u <= clock /\ w.tick = Tick(u)
      BY <1>0, <3>1, <3>3 DEF Dated
    <3>. QED
      BY <3>1, <3>2, <3>3, <3>4, PassDated
  <2>. QED
    BY <2>1, <2>2
<1>4. CASE Evict \/ Elapse \/ UNCHANGED vars
  BY <1>1, <1>4 DEF Evict, Elapse, vars
<1>5. ASSUME NEW c \in Cpu, Arrive(c) \/ Lookup(c) \/ CreateFails(c) \/ Read(c) PROVE Dated'
  BY <1>1, <1>5 DEF Arrive, Lookup, CreateFails, Read
<1>. QED
  BY <1>2, <1>3, <1>4, <1>5 DEF Next
\* An element that is made is the element that AtomicWindow makes.
LEMMA CreateRefines ==
  ASSUME AtomicCase, AInv, NEW c \in Cpu, Create(c), cur = 0
  PROVE  Atomic!Create(pkt[c].now, pkt[c].inc) /\ Atomic!Check
<1>1. /\ next + 1 \in Elem /\ next \in Nat /\ next < MaxElem /\ next' = next + 1
      /\ clock' = clock /\ IInv
      /\ pkt[c].now <= clock /\ clock <= pkt[c].now + MaxLag /\ pkt[c].inc <= pkt[c].lim
  BY CreateFacts DEF AInv
<1>k. PICK k \in Elem : k = next + 1
  BY <1>1
<1>2. PICK w \in Word : /\ w.tick = Tick(pkt[c].now) /\ w.count = pkt[c].inc
                        /\ Pass(c, k, w, pkt[c].inc)
  BY <1>k, CreateFacts
<1>3. /\ pkt[c].src \in Source /\ pkt[c].now \in Time /\ pkt[c].inc \in Incs
      /\ pkt[c].lim \in Limits
  BY <1>1, TimeType
<1>n. PICK n \in Time, i \in Nat : n = pkt[c].now /\ i = pkt[c].inc
  BY <1>1, TimeType
<1>4. /\ WindowOf(k)' = [start |-> n, count |-> i]
      /\ \A x \in Elem : x # k => WindowOf(x)' = WindowOf(x)
  <2>1. w.tick = Tick(n) /\ w.count = i
    BY <1>2, <1>n
  <2>2. /\ WindowOf(k)' = [start |-> n, count |-> w.count]
        /\ \A x \in Elem : x # k => WindowOf(x)' = WindowOf(x)
    BY <1>1, <1>2, <2>1, PassWindows
  <2>. QED
    BY <2>1, <2>2
<1>5. [e \in 1..next' |-> WindowOf(e)'] =
        [e \in 1..next + 1 |-> IF e = next + 1 THEN [start |-> pkt[c].now, count |-> pkt[c].inc]
                               ELSE [x \in 1..next |-> WindowOf(x)][e]]
  <2>1. \A e \in 1..next + 1 : e # k => e \in 1..next /\ e \in Elem
    BY <1>1, <1>k, NumberTypes DEF Elem
  <2>2. \A e \in 1..next + 1 :
          WindowOf(e)' = (IF e = next + 1 THEN [start |-> pkt[c].now, count |-> pkt[c].inc]
                          ELSE [x \in 1..next |-> WindowOf(x)][e])
    BY <1>k, <1>n, <1>4, <2>1
  <2>. QED
    BY <1>1, <2>2
<1>6. Atomic!Create(pkt[c].now, pkt[c].inc)
  BY <1>1, <1>5 DEF Atomic!Create, Atomic!Fresh
<1>7. passed' = [passed EXCEPT ![<<pkt[c].src, clock>>] = @ + pkt[c].inc]
  BY <1>2 DEF Pass
<1>8. pkt[c].now \in Atomic!Time
  BY <1>3 DEF Time, Atomic!Time
<1>. QED
  BY <1>1, <1>3, <1>6, <1>7, <1>8 DEF Atomic!Check

\* A successful compare-and-swap opens or counts in one step.
LEMMA SwapRefines ==
  ASSUME AtomicCase, AInv, NEW c \in Cpu, Swap(c), Unchanged(c)
  PROVE  Atomic!Check
<1>. DEFINE W == [x \in 1..next |-> WindowOf(x)]
<1>0. PICK e \in 1..next, p \in Packet : e = ptr[c] /\ p = pkt[c]
  BY SwapFacts, TimeType DEF AInv
<1>1. /\ e \in Elem /\ word[e] \in Word /\ next' = next /\ clock' = clock
      /\ p.now <= clock /\ clock <= p.now + MaxLag /\ p.inc <= p.lim /\ IInv /\ Dated
  BY <1>0, SwapFacts DEF AInv
<1>2. /\ p.src \in Source /\ p.now \in Time /\ p.now \in Nat /\ p.inc \in Incs /\ p.inc \in Nat
      /\ p.lim \in Limits /\ clock \in Nat /\ 1..next \subseteq Elem
  <2>1. 1..next \subseteq Elem
    BY <1>1, NumberTypes DEF Elem
  <2>. QED
    BY <1>0, <1>1, <2>1, TimeType, NumberTypes
<1>3. PICK t \in Time : t <= clock /\ word[e].tick = Tick(t)
  BY <1>1 DEF Dated
<1>4. W[e] = [start |-> t, count |-> word[e].count] /\ t \in Nat
  <2>1. WindowOf(e) = [start |-> t, count |-> word[e].count]
    BY <1>3, WindowIs
  <2>. QED
    BY <1>1, <2>1, TimeType
<1>5. SUFFICES /\ passed' = [passed EXCEPT ![<<p.src, clock>>] = @ + p.inc]
               /\ Atomic!Reopen(e, p.now, p.inc) \/ Atomic!Count(e, p.now, p.inc, p.lim)
  <2>1. p.now \in Atomic!Time
    BY <1>2 DEF Time, Atomic!Time
  <2>. HIDE DEF W
  <2>. QED
    BY <1>1, <1>2, <1>5, <2>1 DEF Atomic!Check
<1>6. CASE WindowOver(word[e], p.now)
  <2>1. PICK w \in Word : w.tick = Tick(p.now) /\ w.count = p.inc /\ Pass(c, e, w, p.inc)
    BY <1>0, <1>6, SwapFacts
  <2>2. /\ WindowOf(e)' = [start |-> p.now, count |-> p.inc]
        /\ \A x \in Elem : x # e => WindowOf(x)' = WindowOf(x)
    <3>1. /\ WindowOf(e)' = [start |-> p.now, count |-> w.count]
          /\ \A x \in Elem : x # e => WindowOf(x)' = WindowOf(x)
      BY <1>1, <1>2, <2>1, PassWindows
    <3>. QED
      BY <2>1, <3>1
  <2>3. [x \in 1..next' |-> WindowOf(x)'] = [W EXCEPT ![e] = [start |-> p.now, count |-> p.inc]]
    BY <1>1, <1>2, <2>2
  <2>4. p.now >= W[e].start + Window \/ p.now < W[e].start
    <3>1. p.now >= t + Window \/ p.now < t
      BY <1>1, <1>2, <1>3, <1>6, OverWhen DEF AtomicCase
    <3>. QED
      BY <1>4, <3>1
  <2>5. Atomic!Reopen(e, p.now, p.inc)
    BY <1>1, <2>3, <2>4 DEF Atomic!Reopen, Atomic!Fresh
  <2>. QED
    BY <1>0, <2>1, <2>5 DEF Pass
<1>7. CASE ~WindowOver(word[e], p.now)
  <2>1. PICK w \in Word, total \in Nat :
          /\ w.tick = word[e].tick /\ w.count = word[e].count + p.inc /\ Pass(c, e, w, total)
    BY <1>0, <1>7, SwapFacts
  <2>2. word[e].count + p.inc <= p.lim
    BY <1>0, <1>7, SwapFacts
  <2>3. /\ WindowOf(e)' = [start |-> t, count |-> word[e].count + p.inc]
        /\ \A x \in Elem : x # e => WindowOf(x)' = WindowOf(x)
    <3>1. w.tick = Tick(t)
      BY <1>3, <2>1
    <3>2. PICK n \in Nat : n = w.count
      BY DEF Word
    <3>3. /\ WindowOf(e)' = [start |-> t, count |-> n]
          /\ \A x \in Elem : x # e => WindowOf(x)' = WindowOf(x)
      BY <1>1, <1>3, <2>1, <3>1, <3>2, PassWindows
    <3>4. n = word[e].count + p.inc
      BY <2>1, <3>2
    <3>. QED
      BY <3>3, <3>4
  <2>4. [x \in 1..next' |-> WindowOf(x)'] = [W EXCEPT ![e].count = @ + p.inc]
    <3>1. [W EXCEPT ![e].count = @ + p.inc] =
            [W EXCEPT ![e] = [start |-> t, count |-> word[e].count + p.inc]]
      <4>1. [[start |-> t, count |-> word[e].count] EXCEPT !.count = @ + p.inc] =
              [start |-> t, count |-> word[e].count + p.inc]
        OBVIOUS
      <4>. QED
        BY <1>1, <1>4, <4>1
    <3>. QED
      BY <1>1, <1>2, <2>3, <3>1
  <2>5. t <= p.now /\ p.now < t + Window
    <3>1. t - p.now <= MaxLag
      BY <1>1, <1>2, <1>3, <1>4, RateAssumption
    <3>. QED
      BY <1>1, <1>2, <1>3, <1>7, <3>1, NotOverWhen
  <2>6. Atomic!Count(e, p.now, p.inc, p.lim)
    BY <1>1, <1>4, <2>2, <2>4, <2>5 DEF Atomic!Count
  <2>. QED
    BY <1>0, <2>1, <2>6 DEF Pass
<1>. QED
  BY <1>6, <1>7

\* Every step of the check is a step of AtomicWindow, or one that it does not see.
LEMMA StepIsAtomic ==
  AtomicCase /\ AInv /\ [Next]_vars => [Atomic!Next]_(Atomic!vars)
<1>. SUFFICES ASSUME AtomicCase, AInv, [Next]_vars PROVE [Atomic!Next]_(Atomic!vars)
  OBVIOUS
<1>1. ASSUME UNCHANGED <<clock, next, word, passed>> PROVE UNCHANGED Atomic!vars
  <2>1. [e \in 1..next |-> WindowOf(e)]' = [e \in 1..next |-> WindowOf(e)]
    BY <1>1, QuietWindows
  <2>. QED
    BY <1>1, <2>1 DEF Atomic!vars
<1>2. ASSUME NEW c \in Cpu, Arrive(c) \/ Lookup(c) \/ CreateFails(c) \/ Read(c) PROVE UNCHANGED Atomic!vars
  BY <1>1, <1>2 DEF Arrive, Lookup, CreateFails, Read
<1>3. ASSUME NEW c \in Cpu, Create(c) PROVE [Atomic!Next]_(Atomic!vars)
  <2>1. CASE cur = 0
    BY <1>3, <2>1, CreateRefines DEF Atomic!Next
  <2>2. CASE cur # 0
    BY <1>1, <1>3, <2>2 DEF Create
  <2>. QED
    BY <2>1, <2>2
<1>4. ASSUME NEW c \in Cpu, Swap(c) PROVE [Atomic!Next]_(Atomic!vars)
  <2>1. CASE Unchanged(c)
    BY <1>4, <2>1, SwapRefines DEF Atomic!Next
  <2>2. CASE ~Unchanged(c)
    BY <1>1, <1>4, <2>2 DEF Swap
  <2>. QED
    BY <2>1, <2>2
<1>5. CASE Evict \/ UNCHANGED vars
  BY <1>1, <1>5 DEF Evict, vars
<1>6. CASE Elapse
  <2>1. [e \in 1..next |-> WindowOf(e)]' = [e \in 1..next |-> WindowOf(e)]
    BY <1>6, QuietWindows DEF Elapse
  <2>2. Atomic!Elapse
    BY <1>6, <2>1 DEF Elapse, Atomic!Elapse
  <2>. QED
    BY <2>2 DEF Atomic!Next
<1>. QED
  BY <1>2, <1>3, <1>4, <1>5, <1>6 DEF Next

LEMMA InitIsAtomic == Init => Atomic!Init
<1>. SUFFICES ASSUME Init PROVE Atomic!Init
  OBVIOUS
<1>1. clock = Boot /\ next = 0 /\ passed = [st \in Source \X Time |-> 0]
  BY DEF Init
<1>2. [e \in 1..next |-> WindowOf(e)] = [e \in 1..0 |-> [start |-> Boot, count |-> 0]]
  BY <1>1
<1>3. Atomic!Time = Time
  BY DEF Atomic!Time, Time
<1>. QED
  BY <1>1, <1>2, <1>3 DEF Atomic!Init

\* Whatever the CPUs interleave, through whatever pointers, WINDOW_RATE_CHECK
\* does what a check of one step would do, with windows that start at times
\* instead of at ticks: for any number of CPUs, sources, limits and increments,
\* as long as the clock runs for less than a turn of the tick and a check lags
\* less than what a turn has beyond a window.
THEOREM ChecksImplementAtomic == AtomicCase => (Spec => ChecksAreAtomic)
<1>. SUFFICES ASSUME AtomicCase PROVE Spec => ChecksAreAtomic
  OBVIOUS
<1>1. Init => AInv
  BY InitInv, RateAssumption DEF Init, AInv, InTime, Dated
<1>2. AInv /\ [Next]_vars => AInv'
  BY NextInv, InTimeNext, DatedNext DEF AInv
<1>3. AInv /\ [Next]_vars => [Atomic!Next]_(Atomic!vars)
  BY StepIsAtomic
<1>. QED
  BY InitIsAtomic, <1>1, <1>2, <1>3, PTL DEF Spec, ChecksAreAtomic, Atomic!Spec
=============================================================================
