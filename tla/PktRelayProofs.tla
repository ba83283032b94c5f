--------------------------- MODULE PktRelayProofs ---------------------------
(***************************************************************************)
(* Proofs about PktRelay, for every size of the rings, the queue, the      *)
(* history and the socket buffers.  Types are correct and no buffer        *)
(* outgrows its bound; every event is accounted for on its way from the    *)
(* kernel to the main thread; and the stream a TUI shows has no gap.       *)
(***************************************************************************)
EXTENDS PktRelay, SequenceTheorems, FiniteSetTheorems, TLAPS

Rec == [ev : Event, st : {"busy", "ready"}]

\* The rings and their counters.
KernelT ==
    /\ ring \in [Source -> Seq(Rec)] /\ \A s \in Source : Len(ring[s]) <= RingMax
    /\ made \in [Source -> Nat] /\ made["pkt"] + made["sock"] <= MaxEvent

\* The reader thread.  The position drain read is one of the ring it drains,
\* and a record that has been queued is before it.
ReaderT ==
    /\ rpc \in Source \cup {"select"} /\ quota \in Nat /\ put \in BOOLEAN
    /\ rpc = "select" => quota = 0 /\ put = FALSE
    /\ \A s \in Source : rpc = s => quota <= Len(ring[s])
    /\ put = TRUE => quota > 0

\* What the main thread keeps.
PipeT ==
    /\ queue \in Seq(Event) /\ Len(queue) <= QueueMax
    /\ log \in Seq(Event) /\ lost \subseteq Event
    /\ hist \in Seq(Event) /\ Len(hist) <= HistMax

\* The connections.  Only the line that closes one goes beyond its buffer.
ConnT ==
    /\ conn \in [Client -> {"off", "backlog", "on", "gone", "eof"}]
    /\ sock \in [Client -> Seq(Line)]
    /\ buf \in [Client -> {"empty", "half", "old"}]
    /\ \A c \in Client : /\ Len(sock[c]) <= SockMax + 1
                         /\ conn[c] = "on" => Len(sock[c]) <= SockMax

\* What the subscribers have seen, and the service.
RestT ==
    /\ shown \in Seq(Event) /\ noticed \subseteq Event /\ missed \subseteq Event
    /\ up \in BOOLEAN /\ path \in {"none", "stale", "bound"} /\ faults \in 0..MaxFaults

TInv == KernelT /\ ReaderT /\ PipeT /\ ConnT /\ RestT

-----------------------------------------------------------------------------
(* Operators. *)

LEMMA Constants ==
  /\ RingMax \in Nat /\ RingMax >= 1 /\ QueueMax \in Nat /\ QueueMax >= 1
  /\ HistMax \in Nat /\ HistMax >= 1 /\ SendMax \in Nat /\ SendMax >= 1
  /\ SockMax \in Nat /\ SockMax >= 1 /\ MaxEvent \in Nat /\ MaxFaults \in Nat /\ Tui # Daemon
BY RelayAssumption

\* The last n elements are elements of the sequence, at most n.
LEMMA LastNType ==
  ASSUME NEW S, NEW s \in Seq(S), NEW n \in Nat
  PROVE  /\ LastN(s, n) \in Seq(S)
         /\ Len(LastN(s, n)) <= n /\ Len(LastN(s, n)) <= Len(s)
<1>1. Len(s) \in Nat /\ \A i \in 1..Len(s) : s[i] \in S
  BY LenProperties, ElementOfSeq
<1>2. CASE Len(s) <= n
  BY <1>1, <1>2 DEF LastN
<1>3. CASE ~(Len(s) <= n)
  <2>1. Len(s) - n + 1 \in Int /\ Len(s) \in Int /\ \A i \in (Len(s) - n + 1)..Len(s) : s[i] \in S
    BY <1>1, <1>3
  <2>2. /\ SubSeq(s, Len(s) - n + 1, Len(s)) \in Seq(S)
        /\ Len(SubSeq(s, Len(s) - n + 1, Len(s))) =
              IF Len(s) - n + 1 <= Len(s) THEN Len(s) - (Len(s) - n + 1) + 1 ELSE 0
    BY <2>1, SubSeqProperties
  <2>. QED
    BY <1>1, <1>3, <2>2 DEF LastN
<1>. QED
  BY <1>2, <1>3

\* Trimming leaves a history of events that is not longer.
LEMMA TrimType ==
  ASSUME PipeT, hist' \in Trimmed
  PROVE  hist' \in Seq(Event) /\ Len(hist') <= HistMax
<1>1. hist \in Seq(Event) /\ Len(hist) <= HistMax /\ Len(hist) \in Nat
  BY LenProperties DEF PipeT
<1>2. PICK n \in 0..Len(hist) : hist' = LastN(hist, n)
  BY DEF Trimmed
<1>3. hist' \in Seq(Event) /\ Len(hist') <= Len(hist) /\ Len(hist') \in Nat
  BY <1>1, <1>2, LastNType, LenProperties
<1>. QED
  BY <1>1, <1>3, Constants

\* A line with one event, and the part of a line.
LEMMA LineType ==
  /\ \A e \in Event : [k |-> "live", evs |-> <<e>>] \in Line
  /\ [k |-> "torn", evs |-> <<>>] \in Line
  /\ \A h \in Seq(Event) : [k |-> "history", evs |-> HistorySlice(h)] \in Line
<1>1. \A e \in Event : <<e>> \in Seq(Event)
  OBVIOUS
<1>2. \A h \in Seq(Event) : HistorySlice(h) \in Seq(Event)
  BY LastNType, Constants DEF HistorySlice
<1>. QED
  BY <1>1, <1>2 DEF Line

-----------------------------------------------------------------------------
(* Recursive functions over sequences. *)

\* Induction: a set that contains 0 and with a number the next one contains
\* every number of an interval from 0.
LEMMA Induction ==
  ASSUME NEW m \in Nat, NEW T, 0 \in T, \A n \in 0..(m - 1) : n \in T => n + 1 \in T
  PROVE  \A n \in 0..m : n \in T
<1>. DEFINE R == OpToRel(<, Nat)
            B == {n \in 0..m : n \notin T}
<1>1. IsWellFoundedOn(R, Nat)
  BY NatLessThanWellFounded, Zenon
<1>2. SUFFICES ASSUME B # {} PROVE FALSE
  OBVIOUS
<1>3. B \subseteq Nat
  OBVIOUS
<1>4. PICK x \in B : \A y \in B : ~(<<y, x>> \in R)
  <2>. HIDE DEF R, B
  <2>. QED
    BY <1>1, <1>2, <1>3, WFMin
<1>5. x \in 0..m /\ x # 0 /\ x - 1 \in 0..(m - 1)
  OBVIOUS
<1>6. x - 1 \in B
  BY <1>5
<1>7. <<x - 1, x>> \in R
  BY <1>5 DEF OpToRel
<1>. QED
  BY <1>4, <1>6, <1>7

\* g follows the recursion of PktOnly on the first m elements of s.
IsUpto(s, m, g) ==
    /\ g \in [0..m -> Seq(Event)] /\ g[0] = <<>>
    /\ \A n \in 1..m : g[n] = IF s[n][1] = "pkt" THEN Append(g[n - 1], s[n]) ELSE g[n - 1]

Upto(s) ==
    CHOOSE f : f = [n \in 0..Len(s) |->
        IF n = 0 THEN <<>> ELSE IF s[n][1] = "pkt" THEN Append(f[n - 1], s[n]) ELSE f[n - 1]]

LEMMA UptoExists ==
  ASSUME NEW s \in Seq(Event)
  PROVE  \E g : IsUpto(s, Len(s), g)
<1>. DEFINE T == {m \in Nat : \E g : IsUpto(s, m, g)}
<1>1. Len(s) \in Nat /\ \A n \in 1..Len(s) : s[n] \in Event
  BY LenProperties, ElementOfSeq
<1>2. 0 \in T
  <2>1. IsUpto(s, 0, [n \in 0..0 |-> <<>>])
    BY EmptySeq DEF IsUpto
  <2>. QED
    BY <2>1
<1>3. ASSUME NEW n \in 0..(Len(s) - 1), n \in T
      PROVE  n + 1 \in T
  <2>1. PICK g : IsUpto(s, n, g)
    BY <1>3
  <2>. DEFINE v == IF s[n + 1][1] = "pkt" THEN Append(g[n], s[n + 1]) ELSE g[n]
              h == [i \in 0..(n + 1) |-> IF i = n + 1 THEN v ELSE g[i]]
  <2>2. n \in Nat /\ n + 1 \in 1..Len(s) /\ g[n] \in Seq(Event) /\ s[n + 1] \in Event
    BY <1>1, <2>1 DEF IsUpto
  <2>3. v \in Seq(Event)
    BY <2>2, AppendProperties
  <2>4. h \in [0..(n + 1) -> Seq(Event)] /\ h[0] = <<>>
    BY <2>1, <2>2, <2>3 DEF IsUpto
  <2>5. ASSUME NEW i \in 1..(n + 1)
        PROVE  h[i] = IF s[i][1] = "pkt" THEN Append(h[i - 1], s[i]) ELSE h[i - 1]
    <3>1. CASE i = n + 1
      <4>1. h[i] = v /\ h[i - 1] = g[n] /\ i - 1 = n
        BY <2>2, <3>1
      <4>. QED
        BY <3>1, <4>1
    <3>2. CASE i # n + 1
      <4>1. i \in 1..n /\ h[i] = g[i] /\ h[i - 1] = g[i - 1]
        BY <2>2, <3>2
      <4>. QED
        BY <2>1, <4>1 DEF IsUpto
    <3>. QED
      BY <3>1, <3>2
  <2>6. IsUpto(s, n + 1, h)
    <3>. HIDE DEF h
    <3>. QED
      BY <2>4, <2>5 DEF IsUpto
  <2>. QED
    BY <2>2, <2>6
<1>4. \A n \in 0..Len(s) : n \in T
  <2>. HIDE DEF T
  <2>. QED
    BY <1>1, <1>2, <1>3, Induction
<1>. QED
  BY <1>1, <1>4

LEMMA UptoIs ==
  ASSUME NEW s \in Seq(Event)
  PROVE  IsUpto(s, Len(s), Upto(s)) /\ PktOnly(s) = Upto(s)[Len(s)]
<1>. DEFINE G(f) == [n \in 0..Len(s) |->
               IF n = 0 THEN <<>> ELSE IF s[n][1] = "pkt" THEN Append(f[n - 1], s[n]) ELSE f[n - 1]]
<1>0. Len(s) \in Nat
  BY LenProperties
<1>1. PICK g : IsUpto(s, Len(s), g)
  BY UptoExists
<1>2. g = G(g)
  <2>1. g = [n \in 0..Len(s) |-> g[n]] /\ g[0] = <<>>
    BY <1>1 DEF IsUpto
  <2>2. \A n \in 0..Len(s) :
           g[n] = IF n = 0 THEN <<>> ELSE IF s[n][1] = "pkt" THEN Append(g[n - 1], s[n]) ELSE g[n - 1]
    <3>1. \A n \in 0..Len(s) : n = 0 \/ n \in 1..Len(s)
      BY <1>0
    <3>. QED
      BY <1>1, <2>1, <3>1 DEF IsUpto
  <2>. QED
    BY <2>1, <2>2
<1>3. Upto(s) = G(Upto(s))
  BY <1>2 DEF Upto
<1>4. \A n \in 0..Len(s) : Upto(s)[n] = g[n]
  <2>. DEFINE T == {n \in Nat : Upto(s)[n] = g[n]}
  <2>1. 0 \in T
    BY <1>0, <1>1, <1>3 DEF IsUpto
  <2>2. ASSUME NEW n \in 0..(Len(s) - 1), n \in T PROVE n + 1 \in T
    <3>1. n \in Nat /\ n + 1 \in 1..Len(s) /\ n + 1 \in 0..Len(s) /\ n + 1 # 0 /\ (n + 1) - 1 = n
      BY <1>0
    <3>2. Upto(s)[n + 1] = IF s[n + 1][1] = "pkt" THEN Append(Upto(s)[n], s[n + 1]) ELSE Upto(s)[n]
      BY <1>3, <3>1
    <3>3. g[n + 1] = IF s[n + 1][1] = "pkt" THEN Append(g[n], s[n + 1]) ELSE g[n]
      BY <1>1, <3>1 DEF IsUpto
    <3>. QED
      BY <2>2, <3>1, <3>2, <3>3
  <2>3. \A n \in 0..Len(s) : n \in T
    <3>. HIDE DEF T
    <3>. QED
      BY <1>0, <2>1, <2>2, Induction
  <2>. QED
    BY <2>3
<1>5. Upto(s) = g
  <2>1. Upto(s) = [n \in 0..Len(s) |-> Upto(s)[n]]
    BY <1>3
  <2>2. g = [n \in 0..Len(s) |-> g[n]]
    BY <1>2
  <2>. QED
    BY <1>4, <2>1, <2>2
<1>. QED
  BY <1>1, <1>5 DEF PktOnly, Upto

\* Two sequences that agree up to k have the same packet events up to there.
LEMMA UptoPrefix ==
  ASSUME NEW s \in Seq(Event), NEW t \in Seq(Event), NEW k \in Nat,
         k <= Len(s), k <= Len(t), \A i \in 1..k : s[i] = t[i]
  PROVE  Upto(s)[k] = Upto(t)[k]
<1>. DEFINE T == {n \in Nat : Upto(s)[n] = Upto(t)[n]}
<1>1. IsUpto(s, Len(s), Upto(s)) /\ IsUpto(t, Len(t), Upto(t)) /\ Len(s) \in Nat /\ Len(t) \in Nat
  BY UptoIs, LenProperties
<1>2. 0 \in T
  BY <1>1 DEF IsUpto
<1>3. ASSUME NEW n \in 0..(k - 1), n \in T PROVE n + 1 \in T
  <2>1. n \in Nat /\ n + 1 \in 1..k /\ n + 1 \in 1..Len(s) /\ n + 1 \in 1..Len(t) /\ (n + 1) - 1 = n
    BY <1>1
  <2>2. Upto(s)[n + 1] = IF s[n + 1][1] = "pkt" THEN Append(Upto(s)[n], s[n + 1]) ELSE Upto(s)[n]
    BY <1>1, <2>1 DEF IsUpto
  <2>3. Upto(t)[n + 1] = IF t[n + 1][1] = "pkt" THEN Append(Upto(t)[n], t[n + 1]) ELSE Upto(t)[n]
    BY <1>1, <2>1 DEF IsUpto
  <2>. QED
    BY <1>3, <2>1, <2>2, <2>3
<1>4. \A n \in 0..k : n \in T
  <2>. HIDE DEF T
  <2>. QED
    BY <1>2, <1>3, Induction
<1>. QED
  BY <1>4

LEMMA PktOnlyType == ASSUME NEW s \in Seq(Event) PROVE PktOnly(s) \in Seq(Event)
BY UptoIs, LenProperties DEF IsUpto

LEMMA PktOnlyEmpty == PktOnly(<<>>) = <<>>
<1>1. <<>> \in Seq(Event) /\ Len(<<>>) = 0
  BY EmptySeq
<1>. QED
  BY <1>1, UptoIs DEF IsUpto

\* One more event.
LEMMA PktOnlyAppend ==
  ASSUME NEW s \in Seq(Event), NEW e \in Event
  PROVE  PktOnly(Append(s, e)) = IF e[1] = "pkt" THEN Append(PktOnly(s), e) ELSE PktOnly(s)
<1>. DEFINE t == Append(s, e)
<1>1. /\ t \in Seq(Event) /\ Len(t) = Len(s) + 1 /\ Len(s) \in Nat
      /\ \A i \in 1..Len(s) : t[i] = s[i]
      /\ t[Len(s) + 1] = e
  BY AppendProperties, LenProperties
<1>. HIDE DEF t
<1>2. Upto(s)[Len(s)] = Upto(t)[Len(s)]
  BY <1>1, UptoPrefix
<1>3. IsUpto(t, Len(t), Upto(t)) /\ PktOnly(t) = Upto(t)[Len(t)] /\ PktOnly(s) = Upto(s)[Len(s)]
  BY <1>1, UptoIs
<1>4. Len(t) \in 1..Len(t) /\ Len(t) - 1 = Len(s)
  BY <1>1
<1>5. Upto(t)[Len(t)] = IF e[1] = "pkt" THEN Append(Upto(t)[Len(s)], e) ELSE Upto(t)[Len(s)]
  BY <1>1, <1>3, <1>4 DEF IsUpto
<1>. QED
  BY <1>2, <1>3, <1>5 DEF t

\* Sequences and their prefixes.
LEMMA PrefixStep ==
  ASSUME NEW S, NEW b \in Seq(S), NEW k \in 0..(Len(b) - 1)
  PROVE  /\ SubSeq(b, 1, k) \in Seq(S) /\ b[k + 1] \in S
         /\ SubSeq(b, 1, k + 1) = Append(SubSeq(b, 1, k), b[k + 1])
<1>1. Len(b) \in Nat /\ \A i \in 1..Len(b) : b[i] \in S
  BY LenProperties, ElementOfSeq
<1>2. k \in Nat /\ k + 1 \in 1..Len(b) /\ (k + 1) - 1 = k /\ 1 \in 1..Len(b) /\ k + 1 \in 1..Len(b)
  BY <1>1
<1>3. SubSeq(b, 1, k) \in Seq(S) /\ b[k + 1] \in S
  BY <1>1, <1>2, SubSeqProperties
<1>4. SubSeq(b, 1, k + 1) = SubSeq(b, 1, k) \o <<b[k + 1]>>
  BY <1>2, SubSeqRecursiveSecond
<1>. QED
  BY <1>3, <1>4, AppendIsConcat

LEMMA ConcatAppend ==
  ASSUME NEW S, NEW a \in Seq(S), NEW b \in Seq(S), NEW e \in S
  PROVE  a \o Append(b, e) = Append(a \o b, e)
<1>1. <<e>> \in Seq(S) /\ Append(b, e) = b \o <<e>>
  BY AppendIsConcat
<1>2. a \o b \in Seq(S)
  BY ConcatProperties
<1>3. Append(a \o b, e) = (a \o b) \o <<e>>
  BY <1>2, AppendIsConcat
<1>. QED
  BY <1>1, <1>3, ConcatAssociative

LEMMA PktOnlyConcat ==
  ASSUME NEW a \in Seq(Event), NEW b \in Seq(Event)
  PROVE  PktOnly(a \o b) = PktOnly(a) \o PktOnly(b)
<1>. DEFINE p(k) == SubSeq(b, 1, k)
            T == {k \in Nat : PktOnly(a \o p(k)) = PktOnly(a) \o PktOnly(p(k))}
<1>1. Len(b) \in Nat /\ p(Len(b)) = b /\ p(0) = <<>>
  BY LenProperties, SubSeqFull, SubSeqEmpty
<1>2. 0 \in T
  <2>1. a \o <<>> = a /\ PktOnly(a) \o <<>> = PktOnly(a)
    BY PktOnlyType, ConcatEmptySeq
  <2>. QED
    BY <1>1, <2>1, PktOnlyEmpty
<1>3. ASSUME NEW k \in 0..(Len(b) - 1), k \in T PROVE k + 1 \in T
  <2>. DEFINE x == p(k)
              e == b[k + 1]
  <2>1. x \in Seq(Event) /\ e \in Event /\ p(k + 1) = Append(x, e)
    BY PrefixStep
  <2>2. PktOnly(a \o x) = PktOnly(a) \o PktOnly(x) /\ k \in Nat
    BY <1>3
  <2>. HIDE DEF x, e
  <2>3. a \o x \in Seq(Event) /\ PktOnly(a) \in Seq(Event) /\ PktOnly(x) \in Seq(Event)
    BY <2>1, ConcatProperties, PktOnlyType
  <2>4. a \o Append(x, e) = Append(a \o x, e)
    BY <2>1, ConcatAppend
  <2>5. PktOnly(Append(a \o x, e)) = IF e[1] = "pkt" THEN Append(PktOnly(a \o x), e) ELSE PktOnly(a \o x)
    BY <2>1, <2>3, PktOnlyAppend
  <2>6. PktOnly(Append(x, e)) = IF e[1] = "pkt" THEN Append(PktOnly(x), e) ELSE PktOnly(x)
    BY <2>1, PktOnlyAppend
  <2>7. PktOnly(a) \o Append(PktOnly(x), e) = Append(PktOnly(a) \o PktOnly(x), e)
    BY <2>1, <2>3, ConcatAppend
  <2>8. PktOnly(a \o Append(x, e)) = PktOnly(a) \o PktOnly(Append(x, e))
    BY <2>2, <2>4, <2>5, <2>6, <2>7
  <2>9. PktOnly(a \o p(k + 1)) = PktOnly(a) \o PktOnly(p(k + 1))
    BY <2>1, <2>8
  <2>. QED
    BY <2>2, <2>9
<1>4. \A k \in 0..Len(b) : k \in T
  <2>. HIDE DEF T
  <2>. QED
    BY <1>1, <1>2, <1>3, Induction
<1>5. Len(b) \in T
  BY <1>1, <1>4
<1>. QED
  BY <1>1, <1>5

-----------------------------------------------------------------------------
(* Types. *)

LEMMA TInvTypes == TInv => TypeOK
<1>. SUFFICES ASSUME TInv PROVE TypeOK
  OBVIOUS
<1>. USE DEF TInv
<1>1. \A s \in Source : /\ ring[s] \in Seq([ev : Event, st : {"busy", "ready"}])
                        /\ Len(ring[s]) <= RingMax /\ made[s] \in 0..MaxEvent
  <2>1. made["pkt"] \in Nat /\ made["sock"] \in Nat /\ made["pkt"] + made["sock"] <= MaxEvent
    BY DEF KernelT, Source
  <2>2. \A s \in Source : made[s] \in 0..MaxEvent
    BY <2>1, Constants DEF Source
  <2>. QED
    BY <2>2 DEF KernelT, Rec
<1>2. quota \in 0..RingMax
  <2>1. \A s \in Source : Len(ring[s]) \in Nat /\ Len(ring[s]) <= RingMax
    BY LenProperties DEF KernelT
  <2>. QED
    BY <2>1, Constants DEF ReaderT
<1>3. \A c \in Client : sock[c] \in Seq(Line) /\ Len(sock[c]) <= SockMax + 1
  BY DEF ConnT
<1>. QED
  BY <1>1, <1>2, <1>3 DEF ReaderT, PipeT, ConnT, RestT, TypeOK

\* The parts a step leaves alone.
LEMMA KeepKernel == ASSUME KernelT, UNCHANGED kernelVars PROVE KernelT'
BY DEF KernelT, kernelVars

LEMMA KeepReader ==
  ASSUME ReaderT, UNCHANGED readerVars, UNCHANGED ring PROVE ReaderT'
BY DEF ReaderT, readerVars

LEMMA KeepPipe == ASSUME PipeT, UNCHANGED <<queue, lost, mainVars>> PROVE PipeT'
BY DEF PipeT, mainVars

LEMMA KeepConn == ASSUME ConnT, UNCHANGED <<conn, sock, buf>> PROVE ConnT'
BY DEF ConnT

LEMMA KeepRest ==
  ASSUME RestT, UNCHANGED <<shown, noticed, missed, up, path, faults>> PROVE RestT'
BY DEF RestT

LEMMA InitTypes == Init => TInv
<1>. SUFFICES ASSUME Init PROVE TInv
  OBVIOUS
<1>1. \A S : <<>> \in Seq(S) /\ Len(<<>>) = 0
  BY EmptySeq
<1>2. KernelT
  BY <1>1, Constants DEF Init, KernelT, Source
<1>3. ReaderT
  BY DEF Init, ReaderT, Source
<1>4. PipeT
  BY <1>1, Constants DEF Init, PipeT
<1>5. ConnT
  <2>1. /\ conn = [c \in Client |-> "off"] /\ sock = [c \in Client |-> <<>>]
        /\ buf = [c \in Client |-> "empty"]
    BY DEF Init
  <2>2. sock \in [Client -> Seq(Line)] /\ \A c \in Client : Len(sock[c]) = 0
    BY <1>1, <2>1
  <2>. QED
    BY <2>1, <2>2, Constants DEF ConnT
<1>6. RestT
  <2>1. shown \in Seq(Event) /\ faults \in 0..MaxFaults
    BY <1>1, Constants DEF Init
  <2>2. noticed \subseteq Event /\ missed \subseteq Event
    BY DEF Init
  <2>3. up \in BOOLEAN /\ path \in {"none", "stale", "bound"}
    BY DEF Init
  <2>. QED
    BY <2>1, <2>2, <2>3 DEF RestT
<1>. QED
  BY <1>2, <1>3, <1>4, <1>5, <1>6 DEF TInv

\* A ring grows by one record, of the events of its source.
LEMMA ReserveTypes == ASSUME TInv, NEW s \in Source, Reserve(s) PROVE TInv'
<1>. USE DEF TInv
<1>1. /\ made["pkt"] \in Nat /\ made["sock"] \in Nat /\ made["pkt"] + made["sock"] < MaxEvent
      /\ made' \in [Source -> Nat] /\ made' = [made EXCEPT ![s] = @ + 1]
  BY DEF Reserve, KernelT, Source
<1>2. made'["pkt"] + made'["sock"] <= MaxEvent /\ made'[s] \in 1..MaxEvent
  <2>1. CASE s = "pkt"
    <3>1. made'["pkt"] = made["pkt"] + 1 /\ made'["sock"] = made["sock"]
      BY <1>1, <2>1 DEF KernelT, Source
    <3>. QED
      BY <1>1, <2>1, <3>1, Constants
  <2>2. CASE s = "sock"
    <3>1. made'["sock"] = made["sock"] + 1 /\ made'["pkt"] = made["pkt"]
      BY <1>1, <2>2 DEF KernelT, Source
    <3>. QED
      BY <1>1, <2>2, <3>1, Constants
  <2>. QED
    BY <2>1, <2>2 DEF Source
<1>3. <<s, made'[s]>> \in Event /\ [ev |-> <<s, made'[s]>>, st |-> "busy"] \in Rec
  BY <1>2 DEF Event, Rec
<1>4. /\ ring' \in [Source -> Seq(Rec)]
      /\ \A q \in Source : Len(ring'[q]) <= RingMax /\ Len(ring'[q]) >= Len(ring[q])
  <2>1. \A q \in Source : ring[q] \in Seq(Rec) /\ Len(ring[q]) \in Nat /\ Len(ring[q]) <= RingMax
    BY LenProperties DEF KernelT
  <2>2. CASE Len(ring[s]) < RingMax
    <3>1. ring' = [ring EXCEPT ![s] = Append(@, [ev |-> <<s, made'[s]>>, st |-> "busy"])]
      BY <2>2 DEF Reserve
    <3>2. /\ ring'[s] = Append(ring[s], [ev |-> <<s, made'[s]>>, st |-> "busy"])
          /\ \A q \in Source \ {s} : ring'[q] = ring[q]
      BY <3>1 DEF KernelT
    <3>3. ring'[s] \in Seq(Rec) /\ Len(ring'[s]) = Len(ring[s]) + 1
      BY <1>3, <2>1, <3>2, AppendProperties
    <3>. QED
      BY <2>1, <2>2, <3>1, <3>2, <3>3, Constants DEF KernelT
  <2>3. CASE ~(Len(ring[s]) < RingMax)
    BY <2>1, <2>3 DEF Reserve, KernelT
  <2>. QED
    BY <2>2, <2>3
<1>5. KernelT'
  BY <1>1, <1>2, <1>4 DEF KernelT
<1>6. ReaderT'
  <2>1. \A q \in Source : Len(ring[q]) \in Nat /\ Len(ring'[q]) \in Nat
    BY <1>4, LenProperties DEF KernelT
  <2>. QED
    BY <1>4, <2>1 DEF Reserve, ReaderT, readerVars
<1>7. PipeT'
  BY <1>3 DEF Reserve, PipeT
<1>8. ConnT' /\ RestT'
  BY KeepConn, KeepRest DEF Reserve, clientVars
<1>. QED
  BY <1>5, <1>6, <1>7, <1>8

LEMMA SubmitTypes == ASSUME TInv, NEW s \in Source, Submit(s) PROVE TInv'
<1>. USE DEF TInv
<1>1. PICK i \in DOMAIN ring[s] : ring' = [ring EXCEPT ![s][i].st = "ready"]
  BY DEF Submit
<1>2. ring[s] \in Seq(Rec) /\ i \in 1..Len(ring[s]) /\ ring[s][i] \in Rec
  BY <1>1, LenProperties, ElementOfSeq DEF KernelT
<1>3. [ring[s][i] EXCEPT !.st = "ready"] \in Rec
  BY <1>2 DEF Rec
<1>4. ring' = [ring EXCEPT ![s] = [ring[s] EXCEPT ![i] = [ring[s][i] EXCEPT !.st = "ready"]]]
  BY <1>1
<1>5. ring'[s] \in Seq(Rec) /\ Len(ring'[s]) = Len(ring[s]) /\ \A q \in Source \ {s} : ring'[q] = ring[q]
  BY <1>2, <1>3, <1>4, ExceptSeq DEF KernelT
<1>6. ring' \in [Source -> Seq(Rec)] /\ \A q \in Source : Len(ring'[q]) = Len(ring[q])
  BY <1>4, <1>5 DEF KernelT
<1>7. KernelT' /\ ReaderT'
  BY <1>6 DEF Submit, KernelT, ReaderT, readerVars
<1>8. PipeT' /\ ConnT' /\ RestT'
  BY KeepPipe, KeepConn, KeepRest DEF Submit, clientVars
<1>. QED
  BY <1>7, <1>8

\* The reader takes its position from the length of a ring.
LEMMA ReaderTypes ==
  ASSUME TInv, NEW s \in Source, ReaderWakes \/ EndDrain(s)
  PROVE  TInv'
<1>. USE DEF TInv
<1>1. \A q \in Source : Len(ring[q]) \in Nat
  BY LenProperties DEF KernelT
<1>2. ReaderT'
  <2>1. CASE ReaderWakes
    BY <1>1, <2>1 DEF ReaderWakes, kernelVars, ReaderT, Source
  <2>2. CASE EndDrain(s)
    BY <1>1, <2>2 DEF EndDrain, kernelVars, ReaderT, Source
  <2>. QED
    BY <2>1, <2>2
<1>3. KernelT' /\ PipeT' /\ ConnT' /\ RestT'
  BY KeepKernel, KeepPipe, KeepConn, KeepRest DEF ReaderWakes, EndDrain, clientVars
<1>. QED
  BY <1>2, <1>3

\* A ready record is at the head of its ring.
LEMMA HeadRecord ==
  ASSUME TInv, NEW s \in Source, rpc = s, put = TRUE \/ ~NothingReady(s)
  PROVE  /\ ring[s] \in Seq(Rec) /\ ring[s] # <<>> /\ Len(ring[s]) >= 1 /\ Len(ring[s]) \in Nat
         /\ ring[s][1] \in Rec /\ ring[s][1].ev \in Event /\ quota > 0
<1>1. quota > 0 /\ quota \in Nat /\ quota <= Len(ring[s])
  BY DEF TInv, ReaderT, NothingReady
<1>2. ring[s] \in Seq(Rec) /\ Len(ring[s]) \in Nat
  BY LenProperties DEF TInv, KernelT
<1>3. Len(ring[s]) >= 1 /\ ring[s] # <<>> /\ ring[s][1] \in Rec
  BY <1>1, <1>2, ElementOfSeq, EmptySeq
<1>. QED
  BY <1>1, <1>2, <1>3 DEF Rec

LEMMA TakeRecordTypes == ASSUME TInv, NEW s \in Source, TakeRecord(s) PROVE TInv'
<1>1. ring[s][1].ev \in Event /\ quota > 0
  BY HeadRecord DEF TakeRecord
<1>. USE DEF TInv
<1>2. ReaderT'
  BY <1>1 DEF TakeRecord, ReaderT, kernelVars, Source
<1>3. PipeT'
  <2>1. queue \in Seq(Event) /\ Len(queue) \in Nat /\ Len(queue) <= QueueMax
    BY LenProperties DEF PipeT
  <2>2. CASE UNCHANGED <<queue, lost>>
    BY <2>2 DEF TakeRecord, PipeT, mainVars
  <2>3. CASE QueueHasRoom /\ queue' = Append(queue, ring[s][1].ev) /\ UNCHANGED lost
    <3>1. queue' \in Seq(Event) /\ Len(queue') = Len(queue) + 1
      BY <1>1, <2>1, <2>3, AppendProperties
    <3>. QED
      BY <2>1, <2>3, <3>1, Constants DEF TakeRecord, PipeT, mainVars, QueueHasRoom
  <2>4. CASE lost' = lost \cup {ring[s][1].ev} /\ UNCHANGED queue
    BY <1>1, <2>4 DEF TakeRecord, PipeT, mainVars
  <2>. QED
    BY <2>2, <2>3, <2>4 DEF TakeRecord
<1>4. KernelT' /\ ConnT' /\ RestT'
  BY KeepKernel, KeepConn, KeepRest DEF TakeRecord, clientVars
<1>. QED
  BY <1>2, <1>3, <1>4

LEMMA ConsumeTypes == ASSUME TInv, NEW s \in Source, Consume(s) PROVE TInv'
<1>1. ring[s] \in Seq(Rec) /\ ring[s] # <<>> /\ Len(ring[s]) >= 1 /\ Len(ring[s]) \in Nat /\ quota > 0
  BY HeadRecord DEF Consume, TInv, ReaderT
<1>2. Tail(ring[s]) \in Seq(Rec) /\ Len(Tail(ring[s])) = Len(ring[s]) - 1
  BY <1>1, HeadTailProperties
<1>. USE DEF TInv
<1>3. ring' = [ring EXCEPT ![s] = Tail(ring[s])] /\ UNCHANGED made
  BY DEF Consume
<1>4. ring'[s] = Tail(ring[s]) /\ \A q \in Source \ {s} : ring'[q] = ring[q]
  BY <1>3 DEF KernelT
<1>5. KernelT'
  BY <1>1, <1>2, <1>3, <1>4, Constants DEF KernelT
<1>6. ReaderT'
  <2>1. rpc' = s /\ rpc = s /\ put' = FALSE /\ quota' = quota - 1
    BY DEF Consume
  <2>2. quota \in Nat /\ quota <= Len(ring[s])
    BY <2>1 DEF ReaderT
  <2>3. quota' \in Nat /\ quota' <= Len(ring'[s])
    BY <1>1, <1>2, <1>4, <2>1, <2>2
  <2>. QED
    BY <2>1, <2>3 DEF ReaderT, Source
<1>7. PipeT' /\ ConnT' /\ RestT'
  BY KeepPipe, KeepConn, KeepRest DEF Consume, clientVars
<1>. QED
  BY <1>5, <1>6, <1>7

\* A connection in which one entry changes.
LEMMA OneConn ==
  ASSUME ConnT, NEW c \in Client, NEW v \in {"off", "backlog", "on", "gone", "eof"},
         NEW l \in Seq(Line), NEW b \in {"empty", "half", "old"},
         conn' = [conn EXCEPT ![c] = v], sock' = [sock EXCEPT ![c] = l],
         buf' = [buf EXCEPT ![c] = b],
         Len(l) <= SockMax + 1, v = "on" => Len(l) <= SockMax
  PROVE  ConnT'
<1>1. /\ conn' \in [Client -> {"off", "backlog", "on", "gone", "eof"}]
      /\ sock' \in [Client -> Seq(Line)]
      /\ buf' \in [Client -> {"empty", "half", "old"}]
  BY DEF ConnT
<1>2. \A d \in Client : /\ d = c => conn'[d] = v /\ sock'[d] = l
                        /\ d # c => conn'[d] = conn[d] /\ sock'[d] = sock[d]
  BY DEF ConnT
<1>. QED
  BY <1>1, <1>2 DEF ConnT

\* The same with what is left of the entry written out.
LEMMA SameEntries ==
  ASSUME ConnT, NEW c \in Client
  PROVE  /\ conn = [conn EXCEPT ![c] = conn[c]] /\ sock = [sock EXCEPT ![c] = sock[c]]
         /\ buf = [buf EXCEPT ![c] = buf[c]]
         /\ conn[c] \in {"off", "backlog", "on", "gone", "eof"} /\ sock[c] \in Seq(Line)
         /\ buf[c] \in {"empty", "half", "old"} /\ Len(sock[c]) \in Nat
         /\ Len(sock[c]) <= SockMax + 1
         /\ conn[c] = "on" => Len(sock[c]) <= SockMax
BY LenProperties DEF ConnT

LEMMA AcceptTypes ==
  ASSUME TInv, NEW c \in Client, AcceptClient(c) \/ RefuseClient(c)
  PROVE  TInv'
<1>. USE DEF TInv
<1>1. hist' \in Seq(Event) /\ Len(hist') <= HistMax
  BY TrimType DEF AcceptClient, RefuseClient
<1>2. PipeT'
  BY <1>1 DEF AcceptClient, RefuseClient, PipeT
<1>3. ConnT'
  <2>1. \A l \in Line : <<l>> \in Seq(Line) /\ Len(<<l>>) = 1
    OBVIOUS
  <2>2. buf' = [buf EXCEPT ![c] = buf[c]]
    BY SameEntries DEF AcceptClient, RefuseClient
  <2>3. PICK l \in Line, v \in {"on", "eof"} :
           conn' = [conn EXCEPT ![c] = v] /\ sock' = [sock EXCEPT ![c] = <<l>>]
    BY <1>1, LineType DEF AcceptClient, RefuseClient
  <2>4. buf[c] \in {"empty", "half", "old"} /\ v \in {"off", "backlog", "on", "gone", "eof"}
    BY SameEntries
  <2>5. <<l>> \in Seq(Line) /\ Len(<<l>>) <= SockMax + 1 /\ Len(<<l>>) <= SockMax
    BY <2>1, Constants
  <2>. QED
    BY <2>2, <2>3, <2>4, <2>5, OneConn
<1>4. KernelT' /\ ReaderT'
  BY KeepKernel, KeepReader DEF AcceptClient, RefuseClient, kernelVars
<1>5. RestT'
  BY Constants DEF AcceptClient, RefuseClient, RestT
<1>. QED
  BY <1>2, <1>3, <1>4, <1>5

LEMMA ClientLeftTypes == ASSUME TInv, NEW c \in Client, ClientLeft(c) PROVE TInv'
<1>. USE DEF TInv
<1>1. ConnT'
  BY DEF ClientLeft, ConnT
<1>2. KernelT' /\ ReaderT' /\ PipeT' /\ RestT'
  BY KeepKernel, KeepReader, KeepPipe, KeepRest DEF ClientLeft, kernelVars
<1>. QED
  BY <1>1, <1>2

\* An event goes to the history and to every subscriber that can take it.
LEMMA DeliverTypes == ASSUME TInv, Deliver PROVE TInv'
<1>. USE DEF TInv
<1>. DEFINE e == Head(queue)
            fits(c) == conn[c] = "on" /\ Len(sock[c]) < SockMax
            full(c) == conn[c] = "on" /\ Len(sock[c]) >= SockMax
<1>1. /\ e \in Event /\ Tail(queue) \in Seq(Event) /\ Len(Tail(queue)) = Len(queue) - 1
      /\ Len(queue) \in Nat
  BY HeadTailProperties, LenProperties DEF Deliver, PipeT
<1>2. Append(log, e) \in Seq(Event) /\ Append(hist, e) \in Seq(Event)
  BY <1>1, AppendProperties DEF PipeT
<1>3. PipeT'
  <2>1. LastN(Append(hist, e), HistMax) \in Seq(Event) /\ Len(LastN(Append(hist, e), HistMax)) <= HistMax
    BY <1>2, LastNType, Constants
  <2>2. queue' = Tail(queue) /\ log' = Append(log, e) /\ hist' = LastN(Append(hist, e), HistMax)
        /\ UNCHANGED lost
    BY DEF Deliver
  <2>. QED
    BY <1>1, <1>2, <2>1, <2>2, Constants DEF PipeT
<1>4. ConnT'
  <2>1. PICK part \in BOOLEAN :
           sock' = [c \in Client |->
                      IF fits(c) THEN Append(sock[c], [k |-> "live", evs |-> <<e>>])
                      ELSE IF full(c) /\ part
                           THEN Append(sock[c], [k |-> "torn", evs |-> <<>>])
                           ELSE sock[c]]
    BY DEF Deliver
  <2>2. conn' = [c \in Client |-> IF full(c) THEN "eof"
                                  ELSE IF conn[c] = "gone" THEN "off" ELSE conn[c]]
    BY DEF Deliver
  <2>3. /\ conn' \in [Client -> {"off", "backlog", "on", "gone", "eof"}]
        /\ buf' \in [Client -> {"empty", "half", "old"}]
    BY <2>2 DEF Deliver, ConnT
  <2>4. ASSUME NEW c \in Client
        PROVE  /\ sock'[c] \in Seq(Line) /\ Len(sock'[c]) <= SockMax + 1
               /\ conn'[c] = "on" => Len(sock'[c]) <= SockMax
    <3>1. /\ sock[c] \in Seq(Line) /\ Len(sock[c]) \in Nat /\ Len(sock[c]) <= SockMax + 1
          /\ conn[c] = "on" => Len(sock[c]) <= SockMax
      BY SameEntries
    <3>2. \A l \in Line : Append(sock[c], l) \in Seq(Line) /\ Len(Append(sock[c], l)) = Len(sock[c]) + 1
      BY <3>1, AppendProperties
    <3>3. CASE fits(c)
      <4>1. sock'[c] = Append(sock[c], [k |-> "live", evs |-> <<e>>])
        BY <2>1, <3>3
      <4>2. [k |-> "live", evs |-> <<e>>] \in Line
        BY <1>1, LineType
      <4>3. sock'[c] \in Seq(Line) /\ Len(sock'[c]) = Len(sock[c]) + 1
        BY <3>2, <4>1, <4>2
      <4>. QED
        BY <3>1, <3>3, <4>3, Constants
    <3>4. CASE full(c)
      <4>1. sock'[c] \in {Append(sock[c], [k |-> "torn", evs |-> <<>>]), sock[c]}
        BY <2>1, <3>1, <3>4, Constants
      <4>2. conn'[c] = "eof"
        BY <2>2, <3>4
      <4>3. sock'[c] \in Seq(Line) /\ Len(sock'[c]) \in {Len(sock[c]), Len(sock[c]) + 1}
        BY <3>1, <3>2, <4>1, LineType
      <4>. QED
        BY <3>1, <3>4, <4>2, <4>3, Constants
    <3>5. CASE ~fits(c) /\ ~full(c)
      <4>1. sock'[c] = sock[c] /\ conn[c] # "on" /\ conn'[c] # "on"
        BY <2>1, <2>2, <3>1, <3>5, Constants
      <4>. QED
        BY <3>1, <4>1
    <3>. QED
      BY <3>3, <3>4, <3>5
  <2>5. sock' \in [Client -> Seq(Line)]
    <3>1. sock' = [c \in Client |-> sock'[c]]
      BY <2>1
    <3>. QED
      BY <2>4, <3>1
  <2>. QED
    BY <2>3, <2>4, <2>5 DEF ConnT
<1>5. RestT'
  BY <1>1 DEF Deliver, RestT
<1>6. KernelT' /\ ReaderT'
  BY KeepKernel, KeepReader DEF Deliver, kernelVars
<1>. QED
  BY <1>3, <1>4, <1>5, <1>6

LEMMA StartTypes == ASSUME TInv, StartRelay PROVE TInv'
<1>. USE DEF TInv
<1>1. RestT'
  BY DEF StartRelay, RestT, clientVars
<1>2. KernelT' /\ ReaderT' /\ PipeT' /\ ConnT'
  BY KeepKernel, KeepReader, KeepPipe, KeepConn DEF StartRelay, kernelVars, clientVars
<1>. QED
  BY <1>1, <1>2

\* The elements of a sequence.
LEMMA ElemsType ==
  ASSUME NEW S, NEW s \in Seq(S)
  PROVE  Elems(s) \subseteq S
BY LenProperties DEF Elems

LEMMA StopTypes == ASSUME TInv, StopRelay PROVE TInv'
<1>. USE DEF TInv
<1>1. \A S : <<>> \in Seq(S) /\ Len(<<>>) = 0
  BY EmptySeq
<1>2. PipeT'
  <2>1. queue' = <<>> /\ hist' = <<>> /\ log' = log /\ lost' = lost \cup Elems(queue)
    BY DEF StopRelay
  <2>2. lost' \subseteq Event
    BY <2>1, ElemsType DEF PipeT
  <2>. QED
    BY <1>1, <2>1, <2>2, Constants DEF PipeT
<1>3. ReaderT'
  <2>1. \A s \in Source : Len(ring'[s]) \in Nat
    BY LenProperties DEF StopRelay, KernelT, kernelVars
  <2>2. rpc' = "select" /\ quota' = 0 /\ put' = FALSE
    BY DEF StopRelay
  <2>. QED
    BY <2>1, <2>2 DEF ReaderT, Source
<1>4. ConnT'
  <2>1. conn' = [c \in Client |-> CASE conn[c] \in {"backlog", "on"} -> "eof"
                                    [] conn[c] = "gone" -> "off"
                                    [] OTHER -> conn[c]]
        /\ UNCHANGED <<sock, buf>>
    BY DEF StopRelay
  <2>2. \A c \in Client : conn'[c] \in {"off", "backlog", "on", "gone", "eof"} /\ conn'[c] # "on"
    BY <2>1 DEF ConnT
  <2>3. conn' \in [Client -> {"off", "backlog", "on", "gone", "eof"}]
    BY <2>1, <2>2
  <2>. QED
    BY <2>1, <2>2, <2>3 DEF ConnT
<1>5. RestT'
  <2>1. faults' \in 0..MaxFaults
    BY Constants DEF StopRelay, RestT
  <2>2. up' \in BOOLEAN /\ path' \in {"none", "stale", "bound"}
    BY DEF StopRelay
  <2>. QED
    BY <2>1, <2>2 DEF StopRelay, RestT
<1>6. KernelT'
  BY KeepKernel DEF StopRelay
<1>. QED
  BY <1>2, <1>3, <1>4, <1>5, <1>6

LEMMA ConnectTypes == ASSUME TInv, NEW c \in Client, Connect(c) PROVE TInv'
<1>. USE DEF TInv
<1>1. \A S : <<>> \in Seq(S) /\ Len(<<>>) = 0
  BY EmptySeq
<1>2. PICK b \in {"empty", "half", "old"} : buf' = [buf EXCEPT ![c] = b]
  BY SameEntries DEF Connect
<1>3. ConnT'
  <2>1. Len(<<>>) <= SockMax + 1 /\ Len(<<>>) <= SockMax
    BY <1>1, Constants
  <2>2. conn' = [conn EXCEPT ![c] = "backlog"] /\ sock' = [sock EXCEPT ![c] = <<>>]
    BY DEF Connect
  <2>3. <<>> \in Seq(Line)
    BY <1>1
  <2>. QED
    BY <1>2, <2>1, <2>2, <2>3, OneConn
<1>4. RestT'
  <2>1. shown' \in Seq(Event)
    BY <1>1 DEF Connect, RestT
  <2>. QED
    BY <2>1 DEF Connect, RestT
<1>5. KernelT' /\ ReaderT' /\ PipeT'
  BY KeepKernel, KeepReader, KeepPipe DEF Connect, kernelVars
<1>. QED
  BY <1>3, <1>4, <1>5

LEMMA ReadHalfTypes == ASSUME TInv, NEW c \in Client, ReadHalf(c) PROVE TInv'
<1>. USE DEF TInv
<1>1. ConnT'
  BY DEF ReadHalf, ConnT
<1>2. KernelT' /\ ReaderT' /\ PipeT' /\ RestT'
  BY KeepKernel, KeepReader, KeepPipe, KeepRest DEF ReadHalf, kernelVars
<1>. QED
  BY <1>1, <1>2

\* The head of a socket buffer is a line, and one line less is in it.
LEMMA HeadLine ==
  ASSUME TInv, NEW c \in Client, sock[c] # <<>>
  PROVE  /\ Head(sock[c]) \in Line /\ Head(sock[c]).evs \in Seq(Event)
         /\ Tail(sock[c]) \in Seq(Line) /\ Len(Tail(sock[c])) = Len(sock[c]) - 1
         /\ Len(sock[c]) \in Nat
<1>1. sock[c] \in Seq(Line) /\ Len(sock[c]) \in Nat
  BY SameEntries DEF TInv
<1>2. /\ Head(sock[c]) \in Line /\ Tail(sock[c]) \in Seq(Line)
      /\ Len(Tail(sock[c])) = Len(sock[c]) - 1
  BY <1>1, HeadTailProperties
<1>. QED
  BY <1>1, <1>2 DEF Line

LEMMA ReadTypes == ASSUME TInv, ReadTui \/ ReadDaemon PROVE TInv'
<1>. USE DEF TInv
<1>1. PICK c \in Client : /\ c = IF ReadTui THEN Tui ELSE Daemon
                          /\ sock[c] # <<>> /\ sock' = [sock EXCEPT ![c] = Tail(sock[c])]
                          /\ buf' = [buf EXCEPT ![c] = "empty"] /\ UNCHANGED conn
  BY DEF ReadTui, ReadDaemon, Client
<1>2. /\ Head(sock[c]).evs \in Seq(Event)
      /\ Tail(sock[c]) \in Seq(Line) /\ Len(Tail(sock[c])) = Len(sock[c]) - 1
      /\ Len(sock[c]) \in Nat
  BY <1>1, HeadLine
<1>3. ConnT'
  <2>1. /\ conn' = [conn EXCEPT ![c] = conn[c]] /\ Len(sock[c]) <= SockMax + 1
        /\ conn[c] = "on" => Len(sock[c]) <= SockMax
        /\ conn[c] \in {"off", "backlog", "on", "gone", "eof"}
    BY <1>1, SameEntries
  <2>2. /\ Len(Tail(sock[c])) <= SockMax + 1
        /\ conn[c] = "on" => Len(Tail(sock[c])) <= SockMax
    BY <1>2, <2>1, Constants
  <2>. QED
    BY <1>1, <1>2, <2>1, <2>2, OneConn
<1>4. RestT'
  <2>1. CASE ReadTui
    <3>1. c = Tui
      BY <1>1, <2>1
    <3>2. PktOnly(Head(sock[Tui]).evs) \in Seq(Event) /\ shown \in Seq(Event)
      BY <1>2, <3>1, PktOnlyType DEF RestT
    <3>3. shown \o PktOnly(Head(sock[Tui]).evs) \in Seq(Event)
      BY <3>2, ConcatProperties
    <3>4. shown' \in Seq(Event)
      BY <2>1, <3>2, <3>3 DEF ReadTui
    <3>. QED
      BY <2>1, <3>4 DEF ReadTui, RestT
  <2>2. CASE ~ReadTui
    <3>1. c = Daemon /\ ReadDaemon
      BY <1>1, <2>2
    <3>2. Elems(Head(sock[Daemon]).evs) \subseteq Event
      BY <1>2, <3>1, ElemsType
    <3>. QED
      BY <3>1, <3>2 DEF ReadDaemon, RestT
  <2>. QED
    BY <2>1, <2>2
<1>5. KernelT' /\ ReaderT' /\ PipeT'
  BY KeepKernel, KeepReader, KeepPipe DEF ReadTui, ReadDaemon, kernelVars
<1>. QED
  BY <1>3, <1>4, <1>5

LEMMA CloseTypes == ASSUME TInv, EofTui \/ EofDaemon \/ TuiQuits PROVE TInv'
<1>. USE DEF TInv
<1>1. \A S : <<>> \in Seq(S) /\ Len(<<>>) = 0
  BY EmptySeq
<1>2. ConnT'
  <2>1. PICK c \in Client, v \in {"off", "gone"} :
           conn' = [conn EXCEPT ![c] = v] /\ sock' = [sock EXCEPT ![c] = <<>>]
           /\ \E b \in {"empty", "half", "old"} : buf' = [buf EXCEPT ![c] = b]
    <3>1. Tui \in Client /\ Daemon \in Client /\ buf[Tui] \in {"empty", "half", "old"}
      BY DEF Client, ConnT
    <3>2. CASE EofTui
      BY <3>1, <3>2 DEF EofTui
    <3>3. CASE EofDaemon
      BY <3>1, <3>3 DEF EofDaemon
    <3>4. CASE TuiQuits
      BY <3>1, <3>4 DEF TuiQuits
    <3>. QED
      BY <3>2, <3>3, <3>4
  <2>2. PICK b \in {"empty", "half", "old"} : buf' = [buf EXCEPT ![c] = b]
    BY <2>1
  <2>3. <<>> \in Seq(Line) /\ Len(<<>>) <= SockMax + 1 /\ v # "on"
        /\ v \in {"off", "backlog", "on", "gone", "eof"}
    BY <1>1, Constants
  <2>. QED
    BY <2>1, <2>2, <2>3, OneConn
<1>3. RestT'
  <2>1. CASE EofTui \/ EofDaemon
    BY <2>1 DEF EofTui, EofDaemon, RestT
  <2>2. CASE TuiQuits
    <3>1. shown' \in Seq(Event) /\ faults' \in 0..MaxFaults
      BY <1>1, <2>2, Constants DEF TuiQuits, RestT
    <3>. QED
      BY <2>2, <3>1 DEF TuiQuits, RestT
  <2>. QED
    BY <2>1, <2>2
<1>4. KernelT' /\ ReaderT' /\ PipeT'
  BY KeepKernel, KeepReader, KeepPipe DEF EofTui, EofDaemon, TuiQuits, kernelVars
<1>. QED
  BY <1>2, <1>3, <1>4

LEMMA NextTypes == ASSUME TInv, [Next]_vars PROVE TInv'
<1>1. CASE UNCHANGED vars
  BY <1>1, KeepKernel, KeepReader, KeepPipe, KeepConn, KeepRest
     DEF TInv, vars, kernelVars, readerVars, mainVars
<1>2. CASE Next
  <2>1. ASSUME NEW s \in Source, Reserve(s) \/ Submit(s) PROVE TInv'
    BY <2>1, ReserveTypes, SubmitTypes
  <2>2. CASE Reader
    <3>1. "pkt" \in Source
      BY DEF Source
    <3>. QED
      BY <2>2, <3>1, ReaderTypes, TakeRecordTypes, ConsumeTypes DEF Reader
  <2>3. CASE Main
    BY <2>3, DeliverTypes, AcceptTypes, ClientLeftTypes DEF Main
  <2>4. ASSUME NEW c \in Client, RefuseClient(c) \/ Connect(c) \/ ReadHalf(c) PROVE TInv'
    BY <2>4, AcceptTypes, ConnectTypes, ReadHalfTypes
  <2>5. CASE StartRelay \/ StopRelay
    BY <2>5, StartTypes, StopTypes
  <2>6. CASE ReadTui \/ EofTui \/ ReadDaemon \/ EofDaemon \/ TuiQuits
    BY <2>6, ReadTypes, CloseTypes
  <2>. QED
    BY <1>2, <2>1, <2>2, <2>3, <2>4, <2>5, <2>6 DEF Next
<1>. QED
  BY <1>1, <1>2

LEMMA TypesInvariant == Spec => []TInv
BY InitTypes, NextTypes, PTL DEF Spec

\* Types are correct in every reachable state, and neither a ring, the queue,
\* the history nor a socket buffer outgrows its bound, for every size of them.
THEOREM TypeCorrect == Spec => []TypeOK
BY TypesInvariant, TInvTypes, PTL

-----------------------------------------------------------------------------
(* Every event is accounted for. *)

\* What the main thread has taken and what is queued for it.
Flow == log \o queue

\* A ring holds events of its source, in the order in which they were made.
RingOrder ==
    \A s \in Source : \A i \in 1..Len(ring[s]) :
       /\ ring[s][i].ev[1] = s /\ ring[s][i].ev[2] <= made[s]
       /\ \A j \in 1..Len(ring[s]) : i < j => ring[s][i].ev[2] < ring[s][j].ev[2]

\* Nothing disappears.
Conserved ==
    \A s \in Source : \A n \in 1..made[s] :
       \/ <<s, n>> \in lost \cup Elems(Flow)
       \/ \E i \in 1..Len(ring[s]) : ring[s][i].ev = <<s, n>>

FlowOrder ==
    \A i, j \in 1..Len(Flow) : (i < j /\ Flow[i][1] = Flow[j][1]) => Flow[i][2] <= Flow[j][2]

\* No event in a ring is older than one of its source that has left it.
Behind ==
    \A i \in 1..Len(Flow) : \A s \in Source : Flow[i][1] = s =>
       /\ Flow[i][2] <= made[s]
       /\ \A j \in 1..Len(ring[s]) : Flow[i][2] <= ring[s][j].ev[2]

\* The record that is queued but not yet consumed.
PutKnown ==
    \A s \in Source : (put = TRUE /\ rpc = s) => ring[s][1].ev \in lost \cup Elems(Flow)

\* A record at the head of a ring that was queued before a kill, and will be
\* queued again.
Again(s) ==
    IF Len(ring[s]) > 0 /\ ~(put = TRUE /\ rpc = s) /\ ring[s][1].ev \in Elems(Flow) THEN 1 ELSE 0

\* A kill pays for each event that was or will be queued a second time.
Count == Len(Flow) + Again("pkt") + Again("sock") <= Cardinality(Elems(Flow)) + faults

AInv == RingOrder /\ Conserved /\ FlowOrder /\ Behind /\ PutKnown /\ Count

LEMMA FlowType ==
  ASSUME TInv
  PROVE  /\ Flow \in Seq(Event) /\ Len(Flow) \in Nat /\ DOMAIN Flow = 1..Len(Flow)
         /\ \A i \in 1..Len(Flow) : Flow[i] \in Event
         /\ Elems(Flow) = {Flow[i] : i \in 1..Len(Flow)} /\ Elems(Flow) \subseteq Event
<1>1. Flow \in Seq(Event)
  BY ConcatProperties DEF Flow, TInv, PipeT
<1>. QED
  BY <1>1, LenProperties, ElementOfSeq DEF Elems

\* The set of elements of a sequence is finite and not larger than the sequence.
LEMMA ElemsFinite ==
  ASSUME NEW S, NEW s \in Seq(S)
  PROVE  /\ IsFiniteSet(Elems(s)) /\ Cardinality(Elems(s)) \in Nat
         /\ Cardinality(Elems(s)) <= Len(s)
<1>1. Len(s) \in Nat /\ DOMAIN s = 1..Len(s) /\ s \in [1..Len(s) -> S]
  BY LenProperties
<1>2. Elems(s) = {s[i] : i \in 1..Len(s)}
  BY <1>1 DEF Elems
<1>3. s \in [1..Len(s) -> Elems(s)] /\ \A t \in Elems(s) : \E i \in 1..Len(s) : s[i] = t
  BY <1>1, <1>2
<1>4. s \in Surjection(1..Len(s), Elems(s))
  BY <1>3 DEF Surjection
<1>5. IsFiniteSet(1..Len(s)) /\ Cardinality(1..Len(s)) = IF 1 > Len(s) THEN 0 ELSE Len(s) - 1 + 1
  BY <1>1, FS_Interval
<1>6. IsFiniteSet(Elems(s)) /\ Cardinality(Elems(s)) <= Cardinality(1..Len(s))
  BY <1>4, <1>5, FS_Surjection
<1>7. Cardinality(Elems(s)) \in Nat
  BY <1>6, FS_CardinalityType
<1>. QED
  BY <1>1, <1>5, <1>6, <1>7

LEMMA ElemsAppend ==
  ASSUME NEW S, NEW s \in Seq(S), NEW e \in S
  PROVE  /\ Elems(Append(s, e)) = Elems(s) \cup {e}
         /\ Cardinality(Elems(Append(s, e))) =
               IF e \in Elems(s) THEN Cardinality(Elems(s)) ELSE Cardinality(Elems(s)) + 1
<1>1. /\ Append(s, e) \in Seq(S) /\ Len(Append(s, e)) = Len(s) + 1 /\ Len(s) \in Nat
      /\ \A i \in 1..Len(s) : Append(s, e)[i] = s[i]
      /\ Append(s, e)[Len(s) + 1] = e
  BY AppendProperties, LenProperties
<1>2. DOMAIN Append(s, e) = 1..(Len(s) + 1) /\ DOMAIN s = 1..Len(s)
  BY <1>1, LenProperties
<1>3. Elems(Append(s, e)) = Elems(s) \cup {e}
  BY <1>1, <1>2 DEF Elems
<1>. QED
  BY <1>3, ElemsFinite, FS_AddElement

LEMMA ElemsConcat ==
  ASSUME NEW S, NEW a \in Seq(S), NEW b \in Seq(S)
  PROVE  /\ Elems(a \o b) = Elems(a) \cup Elems(b)
         /\ Cardinality(Elems(a \o b)) <= Cardinality(Elems(a)) + Len(b)
<1>1. /\ a \o b \in Seq(S) /\ Len(a \o b) = Len(a) + Len(b) /\ Len(a) \in Nat /\ Len(b) \in Nat
      /\ \A i \in 1..(Len(a) + Len(b)) : (a \o b)[i] = IF i <= Len(a) THEN a[i] ELSE b[i - Len(a)]
  BY ConcatProperties, LenProperties
<1>2. DOMAIN (a \o b) = 1..(Len(a) + Len(b)) /\ DOMAIN a = 1..Len(a) /\ DOMAIN b = 1..Len(b)
  BY <1>1, LenProperties
<1>3. Elems(a \o b) = Elems(a) \cup Elems(b)
  <2>1. ASSUME NEW x \in Elems(a \o b) PROVE x \in Elems(a) \cup Elems(b)
    <3>1. PICK i \in 1..(Len(a) + Len(b)) : x = (a \o b)[i]
      BY <1>2 DEF Elems
    <3>2. CASE i <= Len(a)
      BY <1>1, <1>2, <3>1, <3>2 DEF Elems
    <3>3. CASE ~(i <= Len(a))
      <4>1. i - Len(a) \in 1..Len(b) /\ x = b[i - Len(a)]
        BY <1>1, <3>1, <3>3
      <4>. QED
        BY <1>2, <4>1 DEF Elems
    <3>. QED
      BY <3>2, <3>3
  <2>2. ASSUME NEW x \in Elems(a) PROVE x \in Elems(a \o b)
    <3>1. PICK i \in 1..Len(a) : x = a[i]
      BY <1>2 DEF Elems
    <3>2. i \in 1..(Len(a) + Len(b)) /\ x = (a \o b)[i]
      BY <1>1, <3>1
    <3>. QED
      BY <1>2, <3>2 DEF Elems
  <2>3. ASSUME NEW x \in Elems(b) PROVE x \in Elems(a \o b)
    <3>1. PICK i \in 1..Len(b) : x = b[i]
      BY <1>2 DEF Elems
    <3>2. Len(a) + i \in 1..(Len(a) + Len(b)) /\ ~(Len(a) + i <= Len(a)) /\ (Len(a) + i) - Len(a) = i
      BY <1>1
    <3>3. x = (a \o b)[Len(a) + i]
      BY <1>1, <3>1, <3>2
    <3>. QED
      BY <1>2, <3>2, <3>3 DEF Elems
  <2>. QED
    BY <2>1, <2>2, <2>3
<1>4. /\ IsFiniteSet(Elems(a)) /\ Cardinality(Elems(a)) \in Nat
      /\ IsFiniteSet(Elems(b)) /\ Cardinality(Elems(b)) \in Nat /\ Cardinality(Elems(b)) <= Len(b)
  BY ElemsFinite
<1>5. Cardinality(Elems(a) \cup Elems(b)) =
         Cardinality(Elems(a)) + Cardinality(Elems(b)) - Cardinality(Elems(a) \cap Elems(b))
  BY <1>4, FS_Union
<1>6. Cardinality(Elems(a) \cap Elems(b)) \in Nat
  <2>1. IsFiniteSet(Elems(a) \cap Elems(b))
    BY <1>4, FS_Subset
  <2>. QED
    BY <2>1, FS_CardinalityType
<1>. QED
  BY <1>1, <1>3, <1>4, <1>5, <1>6

\* The rings hold the same events in both states.
SameRings ==
    \A s \in Source : /\ Len(ring'[s]) = Len(ring[s])
                      /\ \A i \in 1..Len(ring[s]) : ring'[s][i].ev = ring[s][i].ev

\* Steps that move no event.
LEMMA KeepAccounts ==
  ASSUME TInv, TInv', AInv, SameRings, UNCHANGED <<made, lost, Flow>>,
         faults' \in Nat, faults' >= faults,
         UNCHANGED <<rpc, put>> \/ (put = FALSE /\ put' = FALSE)
  PROVE  AInv'
<1>. USE DEF AInv
<1>0. \A s \in Source : Len(ring[s]) \in Nat
  BY LenProperties DEF TInv, KernelT
<1>1. RingOrder'
  BY DEF RingOrder, SameRings
<1>2. Conserved'
  <2>1. SUFFICES ASSUME NEW s \in Source, NEW n \in 1..made[s]
                 PROVE  \/ <<s, n>> \in lost \cup Elems(Flow)
                        \/ \E i \in 1..Len(ring[s]) : ring'[s][i].ev = <<s, n>>
    BY DEF Conserved, SameRings
  <2>2. CASE <<s, n>> \in lost \cup Elems(Flow)
    BY <2>2
  <2>3. CASE \E i \in 1..Len(ring[s]) : ring[s][i].ev = <<s, n>>
    BY <2>3 DEF SameRings
  <2>. QED
    BY <2>2, <2>3 DEF Conserved
<1>3. FlowOrder'
  BY DEF FlowOrder
<1>4. Behind'
  BY DEF Behind, SameRings
<1>5. PutKnown'
  <2>1. SUFFICES ASSUME NEW s \in Source, put' = TRUE, rpc' = s
                 PROVE  ring'[s][1].ev \in lost' \cup Elems(Flow')
    BY DEF PutKnown
  <2>2. put = TRUE /\ rpc = s
    BY <2>1
  <2>3. 1 \in 1..Len(ring[s])
    BY <1>0, <2>2 DEF TInv, ReaderT
  <2>. QED
    BY <2>1, <2>2, <2>3 DEF PutKnown, SameRings
<1>6. ASSUME NEW s \in Source PROVE Again(s)' = Again(s)
  <2>1. Len(ring'[s]) = Len(ring[s]) /\ (Len(ring[s]) > 0 => ring'[s][1].ev = ring[s][1].ev)
    BY <1>0 DEF SameRings
  <2>2. (put' = TRUE /\ rpc' = s) <=> (put = TRUE /\ rpc = s)
    OBVIOUS
  <2>. QED
    BY <2>1, <2>2 DEF Again
<1>7. Count'
  <2>1. Again("pkt")' = Again("pkt") /\ Again("sock")' = Again("sock")
    BY <1>6 DEF Source
  <2>2. Again("pkt") \in Nat /\ Again("sock") \in Nat /\ Len(Flow) \in Nat /\ faults \in Nat
        /\ Cardinality(Elems(Flow)) \in Nat
    BY FlowType, ElemsFinite DEF Again, TInv, RestT
  <2>. QED
    BY <2>1, <2>2 DEF Count
<1>. QED
  BY <1>1, <1>2, <1>3, <1>4, <1>5, <1>7

LEMMA InitAccounts == Init => AInv
<1>. SUFFICES ASSUME Init PROVE AInv
  OBVIOUS
<1>1. Flow = <<>> /\ Len(Flow) = 0 /\ Elems(Flow) = {}
  <2>1. <<>> \in Seq(Event) /\ Len(<<>>) = 0 /\ DOMAIN <<>> = {}
    BY EmptySeq, LenProperties
  <2>2. <<>> \o <<>> = <<>>
    BY <2>1, ConcatEmptySeq
  <2>. QED
    BY <2>1, <2>2 DEF Init, Flow, Elems
<1>2. \A s \in Source : ring[s] = <<>> /\ Len(ring[s]) = 0 /\ made[s] = 0
  BY EmptySeq DEF Init
<1>3. RingOrder /\ Conserved /\ FlowOrder /\ Behind
  BY <1>1, <1>2 DEF RingOrder, Conserved, FlowOrder, Behind
<1>4. PutKnown
  BY DEF Init, PutKnown
<1>5. Count
  <2>1. Again("pkt") = 0 /\ Again("sock") = 0
    BY <1>2 DEF Again, Source
  <2>2. Cardinality(Elems(Flow)) = 0
    BY <1>1, FS_EmptySet
  <2>. QED
    BY <1>1, <2>1, <2>2 DEF Count, Init
<1>. QED
  BY <1>3, <1>4, <1>5 DEF AInv

\* Numbers of the events in the rings and in the flow.
LEMMA Numbers ==
  ASSUME TInv
  PROVE  /\ \A s \in Source : /\ Len(ring[s]) \in Nat /\ made[s] \in Nat
                              /\ \A i \in 1..Len(ring[s]) : ring[s][i].ev \in Event
                                                            /\ ring[s][i].ev[2] \in Nat
         /\ \A i \in 1..Len(Flow) : Flow[i][1] \in Source /\ Flow[i][2] \in Nat
         /\ \A s \in Source : Again(s) \in {0, 1}
         /\ Len(Flow) \in Nat /\ faults \in Nat /\ Cardinality(Elems(Flow)) \in Nat
<1>1. \A e \in Event : e[1] \in Source /\ e[2] \in Nat
  BY DEF Event
<1>2. \A s \in Source : Len(ring[s]) \in Nat /\ \A i \in 1..Len(ring[s]) : ring[s][i] \in Rec
  BY LenProperties, ElementOfSeq DEF TInv, KernelT
<1>3. \A r \in Rec : r.ev \in Event
  BY DEF Rec
<1>. QED
  BY <1>1, <1>2, <1>3, FlowType, ElemsFinite DEF TInv, KernelT, RestT, Again

LEMMA ReserveAccounts ==
  ASSUME TInv, TInv', AInv, NEW s \in Source, Reserve(s) PROVE AInv'
<1>. USE DEF AInv
<1>. DEFINE e == <<s, made[s] + 1>>
<1>0. /\ Flow' = Flow /\ Elems(Flow)' = Elems(Flow) /\ UNCHANGED <<rpc, put, faults>>
  BY DEF Reserve, Flow, readerVars
<1>1. made'[s] = made[s] + 1 /\ \A q \in Source \ {s} : made'[q] = made[q]
  BY DEF Reserve, TInv, KernelT
<1>2. \/ /\ ring' = [ring EXCEPT ![s] = Append(ring[s], [ev |-> e, st |-> "busy"])]
         /\ UNCHANGED lost
      \/ lost' = lost \cup {e} /\ UNCHANGED ring
  BY <1>1 DEF Reserve
<1>3. /\ \A q \in Source : /\ Len(ring'[q]) >= Len(ring[q])
                           /\ \A i \in 1..Len(ring[q]) : ring'[q][i].ev = ring[q][i].ev
      /\ \A q \in Source \ {s} : Len(ring'[q]) = Len(ring[q])
      /\ \A i \in 1..Len(ring'[s]) : i \in 1..Len(ring[s])
                                     \/ (i = Len(ring[s]) + 1 /\ ring'[s][i].ev = e)
      /\ e \in lost' \/ \E i \in 1..Len(ring'[s]) : ring'[s][i].ev = e
      /\ lost \subseteq lost'
  <2>1. CASE /\ ring' = [ring EXCEPT ![s] = Append(ring[s], [ev |-> e, st |-> "busy"])]
             /\ UNCHANGED lost
    <3>. DEFINE r == [ev |-> e, st |-> "busy"]
    <3>1. ring'[s] = Append(ring[s], r) /\ \A q \in Source \ {s} : ring'[q] = ring[q]
      BY <2>1 DEF TInv, KernelT
    <3>2. ring[s] \in Seq(Rec \cup {r}) /\ Len(ring[s]) \in Nat
      <4>1. ring[s] \in Seq(Rec)
        BY DEF TInv, KernelT
      <4>. QED
        BY <4>1, SeqMonotonic, LenProperties
    <3>3. r \in Rec \cup {r} /\ r.ev = e
      OBVIOUS
    <3>. HIDE DEF r
    <3>4. /\ Len(ring'[s]) = Len(ring[s]) + 1
          /\ \A i \in 1..Len(ring[s]) : ring'[s][i] = ring[s][i]
          /\ ring'[s][Len(ring[s]) + 1] = r
      BY <3>1, <3>2, <3>3, AppendProperties
    <3>5. Len(ring[s]) + 1 \in 1..Len(ring'[s]) /\ ring'[s][Len(ring[s]) + 1].ev = e
      BY <3>2, <3>3, <3>4
    <3>6. \A i \in 1..Len(ring'[s]) : i \in 1..Len(ring[s]) \/ i = Len(ring[s]) + 1
      BY <3>2, <3>4
    <3>7. \A q \in Source : q = s \/ (q \in Source \ {s} /\ ring'[q] = ring[q])
      BY <3>1
    <3>8. \A q \in Source : Len(ring[q]) \in Nat
      BY Numbers
    <3>9. \A q \in Source : /\ Len(ring'[q]) >= Len(ring[q])
                            /\ \A i \in 1..Len(ring[q]) : ring'[q][i].ev = ring[q][i].ev
      BY <3>4, <3>7, <3>8
    <3>10. \A q \in Source \ {s} : Len(ring'[q]) = Len(ring[q])
      BY <3>1
    <3>11. \A i \in 1..Len(ring'[s]) : i \in 1..Len(ring[s])
                                      \/ (i = Len(ring[s]) + 1 /\ ring'[s][i].ev = e)
      BY <3>5, <3>6
    <3>. QED
      BY <2>1, <3>5, <3>9, <3>10, <3>11
  <2>2. CASE lost' = lost \cup {e} /\ UNCHANGED ring
    BY <2>2, Numbers
  <2>. QED
    BY <1>2, <2>1, <2>2
<1>. HIDE DEF e
<1>4. e[1] = s /\ e[2] = made[s] + 1 /\ e = <<s, made[s] + 1>> /\ made[s] \in Nat
  BY Numbers DEF e
<1>5. RingOrder'
  <2>1. SUFFICES ASSUME NEW q \in Source, NEW i \in 1..Len(ring'[q])
                 PROVE  /\ ring'[q][i].ev[1] = q /\ ring'[q][i].ev[2] <= made'[q]
                        /\ \A j \in 1..Len(ring'[q]) : i < j => ring'[q][i].ev[2] < ring'[q][j].ev[2]
    BY DEF RingOrder
  <2>2. CASE q # s
    <3>1. /\ Len(ring'[q]) = Len(ring[q]) /\ made'[q] = made[q]
          /\ \A j \in 1..Len(ring[q]) : ring'[q][j].ev = ring[q][j].ev
      BY <1>1, <1>3, <2>2
    <3>. QED
      BY <2>1, <3>1 DEF RingOrder
  <2>3. CASE q = s
    <3>1. Len(ring[s]) \in Nat /\ Len(ring'[s]) \in Nat
      BY Numbers, <1>3
    <3>2. CASE i \in 1..Len(ring[s])
      <4>1. ring'[s][i].ev = ring[s][i].ev /\ ring[s][i].ev[1] = s /\ ring[s][i].ev[2] <= made[s]
            /\ ring[s][i].ev[2] \in Nat
        BY <1>3, <3>2, Numbers DEF RingOrder
      <4>2. ASSUME NEW j \in 1..Len(ring'[s]), i < j PROVE ring'[s][i].ev[2] < ring'[s][j].ev[2]
        <5>1. CASE j \in 1..Len(ring[s])
          BY <1>3, <3>2, <4>2, <5>1 DEF RingOrder
        <5>2. CASE ring'[s][j].ev = e
          BY <1>4, <4>1, <5>2
        <5>. QED
          BY <1>3, <4>2, <5>1, <5>2
      <4>. QED
        BY <1>1, <1>4, <2>3, <4>1, <4>2
    <3>3. CASE i = Len(ring[s]) + 1 /\ ring'[s][i].ev = e
      <4>1. \A j \in 1..Len(ring'[s]) : ~(i < j)
        BY <1>3, <3>1, <3>3
      <4>. QED
        BY <1>1, <1>4, <2>3, <3>3, <4>1
    <3>. QED
      BY <1>3, <2>3, <3>2, <3>3
  <2>. QED
    BY <2>2, <2>3
<1>6. Conserved'
  <2>1. SUFFICES ASSUME NEW q \in Source, NEW n \in 1..made'[q]
                 PROVE  \/ <<q, n>> \in lost' \cup Elems(Flow)
                        \/ \E i \in 1..Len(ring'[q]) : ring'[q][i].ev = <<q, n>>
    BY <1>0 DEF Conserved
  <2>2. CASE n \in 1..made[q]
    <3>1. CASE <<q, n>> \in lost \cup Elems(Flow)
      BY <1>3, <3>1
    <3>2. CASE \E i \in 1..Len(ring[q]) : ring[q][i].ev = <<q, n>>
      <4>1. PICK i \in 1..Len(ring[q]) : ring[q][i].ev = <<q, n>>
        BY <3>2
      <4>2. i \in 1..Len(ring'[q])
        <5>1. Len(ring[q]) \in Nat /\ Len(ring'[q]) \in Nat /\ Len(ring'[q]) >= Len(ring[q])
          BY Numbers, <1>3, LenProperties DEF TInv, KernelT
        <5>. QED
          BY <5>1
      <4>. QED
        BY <1>3, <4>1, <4>2
    <3>. QED
      BY <2>2, <3>1, <3>2 DEF Conserved
  <2>3. CASE ~(n \in 1..made[q])
    <3>1. q = s /\ n = made[s] + 1
      BY <1>1, <1>4, <2>3
    <3>. QED
      BY <1>3, <1>4, <3>1
  <2>. QED
    BY <2>2, <2>3
<1>7. FlowOrder'
  BY <1>0 DEF FlowOrder
<1>8. Behind'
  <2>1. SUFFICES ASSUME NEW i \in 1..Len(Flow), NEW q \in Source, Flow[i][1] = q
                 PROVE  /\ Flow[i][2] <= made'[q]
                        /\ \A j \in 1..Len(ring'[q]) : Flow[i][2] <= ring'[q][j].ev[2]
    BY <1>0 DEF Behind
  <2>2. Flow[i][2] <= made[q] /\ Flow[i][2] \in Nat
    BY <2>1, Numbers DEF Behind
  <2>3. CASE q # s
    <3>1. /\ Len(ring'[q]) = Len(ring[q]) /\ made'[q] = made[q]
          /\ \A j \in 1..Len(ring[q]) : ring'[q][j].ev = ring[q][j].ev
      BY <1>1, <1>3, <2>3
    <3>. QED
      BY <2>1, <3>1 DEF Behind
  <2>4. CASE q = s
    <3>1. ASSUME NEW j \in 1..Len(ring'[s]) PROVE Flow[i][2] <= ring'[s][j].ev[2]
      <4>1. CASE j \in 1..Len(ring[s])
        BY <1>3, <2>1, <2>4, <4>1 DEF Behind
      <4>2. CASE ring'[s][j].ev = e
        BY <1>4, <2>2, <2>4, <4>2
      <4>. QED
        BY <1>3, <4>1, <4>2
    <3>. QED
      BY <1>1, <1>4, <2>2, <2>4, <3>1
  <2>. QED
    BY <2>3, <2>4
<1>9. PutKnown'
  <2>1. SUFFICES ASSUME NEW q \in Source, put = TRUE, rpc = q
                 PROVE  ring'[q][1].ev \in lost' \cup Elems(Flow)
    BY <1>0 DEF PutKnown
  <2>2. 1 \in 1..Len(ring[q])
    BY <2>1, Numbers DEF TInv, ReaderT
  <2>. QED
    BY <1>3, <2>1, <2>2 DEF PutKnown
<1>10. ASSUME NEW q \in Source PROVE Again(q)' <= Again(q) /\ Again(q)' \in {0, 1}
  <2>0. Again(q)' \in {0, 1} /\ Again(q) \in {0, 1}
    BY DEF Again
  <2>1. SUFFICES ASSUME Again(q)' = 1 PROVE Again(q) = 1
    BY <2>0
  <2>2. Len(ring'[q]) > 0 /\ ~(put = TRUE /\ rpc = q) /\ ring'[q][1].ev \in Elems(Flow)
    BY <1>0, <2>1 DEF Again
  <2>3. Len(ring[q]) \in Nat /\ Len(ring'[q]) \in Nat
    BY LenProperties DEF TInv, KernelT
  <2>4. Len(ring[q]) > 0
    <3>1. SUFFICES ASSUME Len(ring[q]) = 0 PROVE FALSE
      BY <2>3
    <3>2. q = s /\ 1 \in 1..Len(ring'[s]) /\ ~(1 \in 1..Len(ring[s]))
      BY <1>3, <2>2, <2>3, <3>1
    <3>3. e \in Elems(Flow)
      BY <1>3, <2>2, <3>2
    <3>4. PICK i \in 1..Len(Flow) : Flow[i] = e
      BY <3>3, FlowType
    <3>5. made[s] + 1 <= made[s]
      BY <1>4, <3>4 DEF Behind
    <3>. QED
      BY <1>4, <3>5
  <2>5. ring'[q][1].ev = ring[q][1].ev
    BY <1>3, <2>3, <2>4
  <2>. QED
    BY <2>2, <2>4, <2>5 DEF Again
<1>11. Count'
  <2>1. /\ Again("pkt")' <= Again("pkt") /\ Again("pkt")' \in {0, 1}
        /\ Again("sock")' <= Again("sock") /\ Again("sock")' \in {0, 1}
        /\ Again("pkt") \in {0, 1} /\ Again("sock") \in {0, 1}
    BY <1>10, Numbers DEF Source
  <2>. QED
    BY <1>0, <2>1, Numbers DEF Count
<1>. QED
  BY <1>5, <1>6, <1>7, <1>8, <1>9, <1>11

\* A record is queued or dropped.
LEMMA TakeRecordAccounts ==
  ASSUME TInv, TInv', AInv, NEW s \in Source, TakeRecord(s) PROVE AInv'
<1>. USE DEF AInv
<1>. DEFINE e == ring[s][1].ev
<1>0. UNCHANGED <<ring, made, rpc, faults, log>> /\ rpc = s /\ put = FALSE /\ put' = TRUE
  BY DEF TakeRecord, kernelVars, mainVars, TInv, ReaderT
<1>1. e \in Event /\ 1 \in 1..Len(ring[s]) /\ quota > 0 /\ quota \in Nat
  <2>1. rpc = s /\ ~NothingReady(s)
    BY DEF TakeRecord
  <2>2. e \in Event /\ Len(ring[s]) >= 1 /\ Len(ring[s]) \in Nat /\ quota > 0
    BY <2>1, HeadRecord
  <2>. QED
    BY <2>2 DEF TInv, ReaderT
<1>2. ring[s][1].st # "busy"
  BY <1>1 DEF TakeRecord, NothingReady
<1>3. \/ Flow' = Append(Flow, e) /\ lost' = lost
      \/ Flow' = Flow /\ lost' = lost \cup {e}
  <2>1. \/ queue' = Append(queue, e) /\ lost' = lost
        \/ queue' = queue /\ lost' = lost \cup {e}
    BY <1>2 DEF TakeRecord
  <2>2. log \o Append(queue, e) = Append(log \o queue, e)
    BY <1>1, ConcatAppend DEF TInv, PipeT
  <2>. QED
    BY <1>0, <2>1, <2>2 DEF Flow
<1>. HIDE DEF e
<1>4. e[1] = s /\ e[2] \in Nat /\ e[2] <= made[s] /\ \A j \in 1..Len(ring[s]) : e[2] <= ring[s][j].ev[2]
  <2>1. e[1] = s /\ e[2] <= made[s] /\ e[2] \in Nat
    BY <1>1, Numbers DEF RingOrder, e
  <2>2. ASSUME NEW j \in 1..Len(ring[s]) PROVE e[2] <= ring[s][j].ev[2]
    <3>1. j = 1 \/ 1 < j
      BY <1>1, Numbers
    <3>2. ring[s][j].ev[2] \in Nat
      BY Numbers
    <3>. QED
      BY <1>1, <2>1, <3>1, <3>2 DEF RingOrder, e
  <2>. QED
    BY <2>1, <2>2
<1>5. /\ Elems(Flow') = Elems(Flow) \/ Elems(Flow') = Elems(Flow) \cup {e}
      /\ Elems(Flow) \subseteq Elems(Flow') /\ lost \subseteq lost' /\ e \in lost' \cup Elems(Flow')
  <2>1. Elems(Append(Flow, e)) = Elems(Flow) \cup {e}
    BY <1>1, FlowType, ElemsAppend
  <2>. QED
    BY <1>3, <2>1
<1>6. \A i \in 1..Len(Flow') : \/ i \in 1..Len(Flow) /\ Flow'[i] = Flow[i]
                               \/ i = Len(Flow) + 1 /\ Flow'[i] = e
  <2>1. Flow \in Seq(Event) /\ Len(Flow) \in Nat
    BY FlowType
  <2>2. /\ Len(Append(Flow, e)) = Len(Flow) + 1
        /\ \A i \in 1..Len(Flow) : Append(Flow, e)[i] = Flow[i]
        /\ Append(Flow, e)[Len(Flow) + 1] = e
    BY <1>1, <2>1, AppendProperties
  <2>3. CASE Flow' = Append(Flow, e)
    <3>1. \A i \in 1..Len(Flow') : i \in 1..Len(Flow) \/ i = Len(Flow) + 1
      BY <2>1, <2>2, <2>3
    <3>. QED
      BY <2>2, <2>3, <3>1
  <2>4. CASE Flow' = Flow
    BY <2>4
  <2>. QED
    BY <1>3, <2>3, <2>4
<1>7. RingOrder'
  BY <1>0 DEF RingOrder
<1>8. Conserved'
  <2>1. SUFFICES ASSUME NEW q \in Source, NEW n \in 1..made[q]
                 PROVE  \/ <<q, n>> \in lost' \cup Elems(Flow')
                        \/ \E i \in 1..Len(ring[q]) : ring[q][i].ev = <<q, n>>
    BY <1>0 DEF Conserved
  <2>. QED
    BY <1>5 DEF Conserved
<1>9. FlowOrder'
  <2>1. SUFFICES ASSUME NEW i \in 1..Len(Flow'), NEW j \in 1..Len(Flow'), i < j, Flow'[i][1] = Flow'[j][1]
                 PROVE  Flow'[i][2] <= Flow'[j][2]
    BY DEF FlowOrder
  <2>2. i \in 1..Len(Flow) /\ Flow'[i] = Flow[i]
    <3>1. Len(Flow) \in Nat /\ Len(Flow') \in Nat
      BY FlowType, LenProperties, <1>3, <1>1, AppendProperties
    <3>. QED
      BY <1>6, <2>1, <3>1
  <2>3. CASE j \in 1..Len(Flow) /\ Flow'[j] = Flow[j]
    BY <2>1, <2>2, <2>3 DEF FlowOrder
  <2>4. CASE Flow'[j] = e
    <3>1. Flow[i][1] = s
      BY <1>4, <2>1, <2>2, <2>4
    <3>2. Flow[i][2] <= ring[s][1].ev[2]
      BY <1>1, <2>2, <3>1 DEF Behind
    <3>. QED
      BY <2>2, <2>4, <3>2 DEF e
  <2>. QED
    BY <1>6, <2>3, <2>4
<1>10. Behind'
  <2>1. SUFFICES ASSUME NEW i \in 1..Len(Flow'), NEW q \in Source, Flow'[i][1] = q
                 PROVE  /\ Flow'[i][2] <= made[q]
                        /\ \A j \in 1..Len(ring[q]) : Flow'[i][2] <= ring[q][j].ev[2]
    BY <1>0 DEF Behind
  <2>2. CASE i \in 1..Len(Flow) /\ Flow'[i] = Flow[i]
    BY <2>1, <2>2 DEF Behind
  <2>3. CASE Flow'[i] = e
    BY <1>4, <2>1, <2>3
  <2>. QED
    BY <1>6, <2>2, <2>3
<1>11. PutKnown'
  BY <1>0, <1>5 DEF PutKnown, e
<1>12. Count'
  <2>1. Again(s)' = 0 /\ \A q \in Source \ {s} : Again(q)' = Again(q)
    <3>1. Again(s)' = 0
      BY <1>0 DEF Again
    <3>2. ASSUME NEW q \in Source \ {s} PROVE Again(q)' = Again(q)
      <4>1. Len(ring[q]) > 0 => ring[q][1].ev # e
        <5>1. SUFFICES ASSUME Len(ring[q]) > 0 PROVE ring[q][1].ev # e
          OBVIOUS
        <5>2. 1 \in 1..Len(ring[q])
          BY <5>1, Numbers
        <5>. QED
          BY <1>4, <5>2 DEF RingOrder
      <4>2. Len(ring[q]) > 0 => (ring[q][1].ev \in Elems(Flow') <=> ring[q][1].ev \in Elems(Flow))
        BY <1>5, <4>1
      <4>. QED
        BY <1>0, <4>2 DEF Again
    <3>. QED
      BY <3>1, <3>2
  <2>2. Again(s) = IF e \in Elems(Flow) THEN 1 ELSE 0
    <3>1. Len(ring[s]) > 0
      BY <1>1, Numbers
    <3>. QED
      BY <1>0, <3>1 DEF Again, e
  <2>3. Len(Flow') + Again(s)' <= Len(Flow) + Again(s) + Cardinality(Elems(Flow')) - Cardinality(Elems(Flow))
    <3>1. CASE Flow' = Append(Flow, e)
      <4>1. Len(Flow') = Len(Flow) + 1
        BY <1>1, <3>1, FlowType, AppendProperties
      <4>2. Cardinality(Elems(Flow')) =
               IF e \in Elems(Flow) THEN Cardinality(Elems(Flow)) ELSE Cardinality(Elems(Flow)) + 1
        BY <1>1, <3>1, FlowType, ElemsAppend
      <4>. QED
        BY <2>1, <2>2, <4>1, <4>2, Numbers
    <3>2. CASE Flow' = Flow
      BY <2>1, <2>2, <3>2, Numbers
    <3>. QED
      BY <1>3, <3>1, <3>2
  <2>4. Again("pkt") \in {0, 1} /\ Again("sock") \in {0, 1}
    BY Numbers DEF Source
  <2>5. Len(Flow') \in Nat /\ Cardinality(Elems(Flow')) \in Nat
    <3>1. Flow' \in Seq(Event)
      BY <1>1, <1>3, FlowType, AppendProperties
    <3>. QED
      BY <3>1, LenProperties, ElemsFinite
  <2>6. CASE s = "pkt"
    BY <1>0, <2>1, <2>3, <2>4, <2>5, <2>6, Numbers DEF Count, Source
  <2>7. CASE s = "sock"
    BY <1>0, <2>1, <2>3, <2>4, <2>5, <2>7, Numbers DEF Count, Source
  <2>. QED
    BY <2>6, <2>7 DEF Source
<1>. QED
  BY <1>7, <1>8, <1>9, <1>10, <1>11, <1>12

\* The consumer position moves past a record that is queued or lost.
LEMMA ConsumeAccounts ==
  ASSUME TInv, TInv', AInv, NEW s \in Source, Consume(s) PROVE AInv'
<1>. USE DEF AInv
<1>0. /\ UNCHANGED <<made, lost, rpc, faults>> /\ Flow' = Flow /\ rpc = s /\ put = TRUE /\ put' = FALSE
  BY DEF Consume, Flow, mainVars, TInv, ReaderT
<1>1. ring[s] \in Seq(Rec) /\ ring[s] # <<>> /\ Len(ring[s]) >= 1 /\ Len(ring[s]) \in Nat
  BY <1>0, HeadRecord
<1>2. ring'[s] = Tail(ring[s]) /\ \A q \in Source \ {s} : ring'[q] = ring[q]
  BY DEF Consume, TInv, KernelT
<1>3. /\ Len(ring'[s]) = Len(ring[s]) - 1
      /\ \A i \in 1..Len(ring'[s]) : i + 1 \in 1..Len(ring[s]) /\ ring'[s][i] = ring[s][i + 1]
  <2>1. /\ Len(Tail(ring[s])) = Len(ring[s]) - 1
        /\ \A i \in 1..Len(Tail(ring[s])) : Tail(ring[s])[i] = ring[s][i + 1]
    BY <1>1, HeadTailProperties
  <2>. QED
    BY <1>1, <1>2, <2>1
<1>4. 1 \in 1..Len(ring[s])
  BY <1>1
<1>5. RingOrder'
  <2>1. SUFFICES ASSUME NEW q \in Source, NEW i \in 1..Len(ring'[q])
                 PROVE  /\ ring'[q][i].ev[1] = q /\ ring'[q][i].ev[2] <= made[q]
                        /\ \A j \in 1..Len(ring'[q]) : i < j => ring'[q][i].ev[2] < ring'[q][j].ev[2]
    BY <1>0 DEF RingOrder
  <2>2. CASE q # s
    <3>1. ring'[q] = ring[q]
      BY <1>2, <2>2
    <3>. QED
      BY <2>1, <3>1 DEF RingOrder
  <2>3. CASE q = s
    <3>1. i + 1 \in 1..Len(ring[s]) /\ ring'[s][i] = ring[s][i + 1]
      BY <1>3, <2>3
    <3>2. ASSUME NEW j \in 1..Len(ring'[s]), i < j PROVE ring'[s][i].ev[2] < ring'[s][j].ev[2]
      <4>1. j + 1 \in 1..Len(ring[s]) /\ ring'[s][j] = ring[s][j + 1] /\ i + 1 < j + 1
        BY <1>3, <1>1, <2>3, <3>2
      <4>. QED
        BY <3>1, <4>1 DEF RingOrder
    <3>. QED
      BY <2>3, <3>1, <3>2 DEF RingOrder
  <2>. QED
    BY <2>2, <2>3
<1>6. Conserved'
  <2>1. SUFFICES ASSUME NEW q \in Source, NEW n \in 1..made[q]
                 PROVE  \/ <<q, n>> \in lost \cup Elems(Flow)
                        \/ \E i \in 1..Len(ring'[q]) : ring'[q][i].ev = <<q, n>>
    BY <1>0 DEF Conserved
  <2>2. CASE <<q, n>> \in lost \cup Elems(Flow)
    BY <2>2
  <2>3. CASE \E i \in 1..Len(ring[q]) : ring[q][i].ev = <<q, n>>
    <3>1. PICK i \in 1..Len(ring[q]) : ring[q][i].ev = <<q, n>>
      BY <2>3
    <3>2. CASE q # s
      BY <1>2, <3>1, <3>2
    <3>3. CASE q = s /\ i = 1
      BY <1>0, <3>1, <3>3 DEF PutKnown
    <3>4. CASE q = s /\ i # 1
      <4>1. i - 1 \in 1..Len(ring'[s]) /\ (i - 1) + 1 = i
        BY <1>1, <1>3, <3>4
      <4>2. ring'[s][i - 1] = ring[s][i]
        BY <1>3, <4>1
      <4>. QED
        BY <3>1, <3>4, <4>1, <4>2
    <3>. QED
      BY <3>2, <3>3, <3>4
  <2>. QED
    BY <2>2, <2>3 DEF Conserved
<1>7. FlowOrder'
  BY <1>0 DEF FlowOrder
<1>8. Behind'
  <2>1. SUFFICES ASSUME NEW i \in 1..Len(Flow), NEW q \in Source, Flow[i][1] = q
                 PROVE  /\ Flow[i][2] <= made[q]
                        /\ \A j \in 1..Len(ring'[q]) : Flow[i][2] <= ring'[q][j].ev[2]
    BY <1>0 DEF Behind
  <2>2. CASE q # s
    <3>1. ring'[q] = ring[q]
      BY <1>2, <2>2
    <3>. QED
      BY <2>1, <3>1 DEF Behind
  <2>3. CASE q = s
    BY <1>3, <2>1, <2>3 DEF Behind
  <2>. QED
    BY <2>2, <2>3
<1>9. PutKnown'
  BY <1>0 DEF PutKnown
<1>10. ASSUME NEW q \in Source PROVE Again(q)' <= Again(q) /\ Again(q)' \in {0, 1}
  <2>1. CASE q # s
    <3>1. ring'[q] = ring[q] /\ rpc # q
      BY <1>0, <1>2, <2>1
    <3>2. Again(q)' = Again(q)
      BY <1>0, <2>1, <3>1 DEF Again
    <3>. QED
      BY <3>2 DEF Again
  <2>2. CASE q = s
    <3>1. ASSUME Len(ring'[s]) > 0 PROVE ring'[s][1].ev \notin Elems(Flow)
      <4>1. 1 \in 1..Len(ring'[s]) /\ 1 + 1 \in 1..Len(ring[s]) /\ ring'[s][1] = ring[s][1 + 1]
        BY <1>1, <1>3, <3>1
      <4>2. SUFFICES ASSUME NEW i \in 1..Len(Flow), Flow[i] = ring[s][1 + 1].ev PROVE FALSE
        BY <4>1, FlowType
      <4>3. Flow[i][1] = s /\ ring[s][1].ev[2] < Flow[i][2]
        BY <1>4, <4>1, <4>2 DEF RingOrder
      <4>4. Flow[i][2] <= ring[s][1].ev[2]
        BY <1>4, <4>3 DEF Behind
      <4>5. Flow[i][2] \in Nat /\ ring[s][1].ev[2] \in Nat
        BY <1>4, Numbers
      <4>. QED
        BY <4>3, <4>4, <4>5
    <3>2. Again(s)' = 0
      BY <1>0, <3>1 DEF Again
    <3>. QED
      BY <2>2, <3>2 DEF Again
  <2>. QED
    BY <2>1, <2>2
<1>11. Count'
  <2>1. /\ Again("pkt")' <= Again("pkt") /\ Again("pkt")' \in {0, 1}
        /\ Again("sock")' <= Again("sock") /\ Again("sock")' \in {0, 1}
        /\ Again("pkt") \in {0, 1} /\ Again("sock") \in {0, 1}
    BY <1>10, Numbers DEF Source
  <2>. QED
    BY <1>0, <2>1, Numbers DEF Count
<1>. QED
  BY <1>5, <1>6, <1>7, <1>8, <1>9, <1>11

\* A sequence is its head and its tail.
LEMMA HeadTailConcat ==
  ASSUME NEW S, NEW q \in Seq(S), q # <<>>
  PROVE  q = <<Head(q)>> \o Tail(q) /\ Head(q) \in S /\ Tail(q) \in Seq(S)
<1>. DEFINE h == Head(q)
            t == Tail(q)
<1>1. h \in S /\ t \in Seq(S) /\ Len(t) = Len(q) - 1 /\ \A i \in 1..Len(t) : t[i] = q[i + 1]
  BY HeadTailProperties
<1>2. Len(q) \in Nat /\ Len(q) >= 1 /\ q[1] = h
  BY LenProperties, EmptySeq
<1>. HIDE DEF h, t
<1>3. <<h>> \in Seq(S) /\ Len(<<h>>) = 1 /\ <<h>>[1] = h
  BY <1>1
<1>4. /\ <<h>> \o t \in Seq(S) /\ Len(<<h>> \o t) = 1 + Len(t)
      /\ \A i \in 1..(1 + Len(t)) : (<<h>> \o t)[i] = IF i <= 1 THEN <<h>>[i] ELSE t[i - 1]
  BY <1>1, <1>3, ConcatProperties
<1>5. ASSUME NEW i \in 1..Len(q) PROVE q[i] = (<<h>> \o t)[i]
  <2>1. CASE i = 1
    BY <1>1, <1>2, <1>3, <1>4, <2>1
  <2>2. CASE i # 1
    <3>1. i - 1 \in 1..Len(t) /\ (i - 1) + 1 = i /\ ~(i <= 1) /\ i \in 1..(1 + Len(t))
      BY <1>1, <1>2, <2>2
    <3>. QED
      BY <1>1, <1>4, <3>1
  <2>. QED
    BY <2>1, <2>2
<1>6. Len(q) = Len(<<h>> \o t)
  BY <1>1, <1>2, <1>4
<1>7. q = <<h>> \o t
  BY <1>4, <1>5, <1>6, SeqEqual
<1>. QED
  BY <1>1, <1>7 DEF h, t

\* An event that moves from the queue to the log keeps its place in the flow.
LEMMA DeliverFlow == ASSUME TInv, Deliver PROVE Flow' = Flow
<1>. DEFINE h == Head(queue)
            t == Tail(queue)
<1>1. log \in Seq(Event) /\ queue \in Seq(Event) /\ queue # <<>>
  BY DEF TInv, PipeT, Deliver
<1>2. h \in Event /\ t \in Seq(Event)
  BY <1>1, HeadTailConcat
<1>3. queue = <<h>> \o t
  BY <1>1, HeadTailConcat
<1>4. queue' = t /\ log' = Append(log, h)
  BY DEF Deliver
<1>. HIDE DEF h, t
<1>5. Append(log, h) = log \o <<h>> /\ <<h>> \in Seq(Event)
  BY <1>1, <1>2, AppendIsConcat
<1>6. (log \o <<h>>) \o t = log \o (<<h>> \o t)
  BY <1>1, <1>2, <1>5, ConcatAssociative
<1>7. Flow' = (log \o <<h>>) \o t
  BY <1>4, <1>5 DEF Flow
<1>. QED
  BY <1>3, <1>6, <1>7 DEF Flow

\* The relay dies, and its queue with it.
LEMMA StopAccounts == ASSUME TInv, TInv', AInv, StopRelay PROVE AInv'
<1>. USE DEF AInv
<1>0. /\ UNCHANGED <<ring, made, log>> /\ faults' = faults + 1 /\ put' = FALSE
      /\ queue' = <<>> /\ lost' = lost \cup Elems(queue)
  BY DEF StopRelay, kernelVars
<1>1. log \in Seq(Event) /\ queue \in Seq(Event)
  BY DEF TInv, PipeT
<1>2. Flow' = log
  BY <1>0, <1>1, ConcatEmptySeq DEF Flow
<1>3. /\ Elems(Flow) = Elems(log) \cup Elems(queue)
      /\ Cardinality(Elems(Flow)) <= Cardinality(Elems(log)) + Len(queue)
  BY <1>1, ElemsConcat DEF Flow
<1>4. /\ Len(Flow) = Len(log) + Len(queue) /\ Len(log) \in Nat /\ Len(queue) \in Nat
      /\ \A i \in 1..Len(log) : i \in 1..Len(Flow) /\ Flow[i] = log[i]
  <2>1. /\ Len(Flow) = Len(log) + Len(queue) /\ Len(log) \in Nat /\ Len(queue) \in Nat
        /\ \A i \in 1..(Len(log) + Len(queue)) :
              Flow[i] = IF i <= Len(log) THEN log[i] ELSE queue[i - Len(log)]
    BY <1>1, ConcatProperties, LenProperties DEF Flow
  <2>2. \A i \in 1..Len(log) : i \in 1..(Len(log) + Len(queue)) /\ i <= Len(log)
    BY <2>1
  <2>. QED
    BY <2>1, <2>2
<1>5. RingOrder'
  BY <1>0 DEF RingOrder
<1>6. Conserved'
  <2>1. SUFFICES ASSUME NEW q \in Source, NEW n \in 1..made[q]
                 PROVE  \/ <<q, n>> \in lost' \cup Elems(log)
                        \/ \E i \in 1..Len(ring[q]) : ring[q][i].ev = <<q, n>>
    BY <1>0, <1>2 DEF Conserved
  <2>. QED
    BY <1>0, <1>3 DEF Conserved
<1>7. FlowOrder'
  BY <1>2, <1>4 DEF FlowOrder
<1>8. Behind'
  BY <1>0, <1>2, <1>4 DEF Behind
<1>9. PutKnown'
  BY <1>0 DEF PutKnown
<1>10. Count'
  <2>1. ASSUME NEW q \in Source
        PROVE  /\ Again(q)' \in {0, 1} /\ Again(q) \in {0, 1}
               /\ Again(q)' <= Again(q) + (IF put = TRUE /\ rpc = q THEN 1 ELSE 0)
    BY <1>0, <1>2, <1>3 DEF Again
  <2>2. /\ Again("pkt")' \in {0, 1} /\ Again("sock")' \in {0, 1}
        /\ Again("pkt") \in {0, 1} /\ Again("sock") \in {0, 1}
        /\ Again("pkt")' + Again("sock")' <= Again("pkt") + Again("sock") + 1
    <3>1. "pkt" \in Source /\ "sock" \in Source
      BY DEF Source
    <3>2. /\ Again("pkt")' \in {0, 1} /\ Again("pkt") \in {0, 1}
          /\ Again("pkt")' <= Again("pkt") + (IF put = TRUE /\ rpc = "pkt" THEN 1 ELSE 0)
      BY <2>1, <3>1
    <3>3. /\ Again("sock")' \in {0, 1} /\ Again("sock") \in {0, 1}
          /\ Again("sock")' <= Again("sock") + (IF put = TRUE /\ rpc = "sock" THEN 1 ELSE 0)
      BY <2>1, <3>1
    <3>4. ~(rpc = "pkt" /\ rpc = "sock")
      OBVIOUS
    <3>. HIDE DEF AInv
    <3>. QED
      BY <3>2, <3>3, <3>4
  <2>3. Cardinality(Elems(log)) \in Nat
    BY <1>1, ElemsFinite
  <2>4. Len(Flow') = Len(log) /\ Elems(Flow)' = Elems(log)
    BY <1>2
  <2>5. Len(Flow) + Again("pkt") + Again("sock") <= Cardinality(Elems(Flow)) + faults
    BY DEF Count
  <2>. HIDE DEF AInv
  <2>6. Len(log) + Again("pkt")' + Again("sock")' <= Cardinality(Elems(log)) + faults'
    BY <1>0, <1>3, <1>4, <2>2, <2>3, <2>5, Numbers
  <2>. QED
    BY <2>4, <2>6 DEF Count
<1>. QED
  BY <1>5, <1>6, <1>7, <1>8, <1>9, <1>10

LEMMA NextAccounts == ASSUME TInv, TInv', AInv, [Next]_vars PROVE AInv'
<1>0. faults \in Nat /\ faults' \in Nat
  BY DEF TInv, RestT
<1>1. ASSUME NEW s \in Source, Submit(s) PROVE AInv'
  <2>1. PICK i \in DOMAIN ring[s] : ring' = [ring EXCEPT ![s][i].st = "ready"]
    BY <1>1 DEF Submit
  <2>2. ring[s] \in Seq(Rec) /\ i \in 1..Len(ring[s]) /\ ring[s][i] \in Rec
    BY <2>1, LenProperties, ElementOfSeq DEF TInv, KernelT
  <2>. DEFINE r == [ring[s][i] EXCEPT !.st = "ready"]
  <2>3. r \in Rec /\ r.ev = ring[s][i].ev
    BY <2>2 DEF Rec
  <2>4. ring'[s] = [ring[s] EXCEPT ![i] = r] /\ \A q \in Source \ {s} : ring'[q] = ring[q]
    BY <2>1 DEF TInv, KernelT
  <2>. HIDE DEF r
  <2>5. Len(ring'[s]) = Len(ring[s]) /\ \A j \in 1..Len(ring[s]) : ring'[s][j] = IF j = i THEN r ELSE ring[s][j]
    BY <2>2, <2>3, <2>4, ExceptSeq
  <2>6. SameRings
    BY <2>3, <2>4, <2>5 DEF SameRings
  <2>7. UNCHANGED <<made, lost, Flow, faults, rpc, put>>
    BY <1>1 DEF Submit, Flow, readerVars, mainVars
  <2>. QED
    BY <1>0, <2>6, <2>7, KeepAccounts
<1>2. CASE ReaderWakes \/ \E s \in Source : EndDrain(s)
  <2>1. UNCHANGED <<ring, made, lost, Flow, faults>> /\ put' = put
    BY <1>2 DEF ReaderWakes, EndDrain, Flow, kernelVars, mainVars
  <2>2. put = FALSE
    BY <1>2 DEF ReaderWakes, EndDrain, TInv, ReaderT
  <2>3. SameRings
    BY <2>1 DEF SameRings
  <2>4. put' = FALSE
    BY <2>1, <2>2
  <2>5. faults' >= faults /\ UNCHANGED <<made, lost, Flow>>
    BY <1>0, <2>1
  <2>. QED
    BY <1>0, <2>2, <2>3, <2>4, <2>5, KeepAccounts
<1>3. CASE Deliver
  <2>1. UNCHANGED <<ring, made, lost, rpc, put, faults>>
    BY <1>3 DEF Deliver, kernelVars, readerVars
  <2>. QED
    BY <1>0, <1>3, <2>1, DeliverFlow, KeepAccounts DEF SameRings
<1>4. ASSUME UNCHANGED <<ring, made, lost, rpc, put, log, queue>>, faults' >= faults PROVE AInv'
  <2>1. Flow' = Flow
    BY <1>4 DEF Flow
  <2>. QED
    BY <1>0, <1>4, <2>1, KeepAccounts DEF SameRings
<1>5. CASE \/ StartRelay \/ ReadTui \/ EofTui \/ ReadDaemon \/ EofDaemon \/ TuiQuits
           \/ UNCHANGED vars
  <2>1. /\ UNCHANGED <<ring, made, lost, rpc, put, log, queue>>
        /\ faults' = faults \/ faults' = faults + 1
    BY <1>5 DEF StartRelay, ReadTui, EofTui, ReadDaemon, EofDaemon, TuiQuits, vars, kernelVars,
                readerVars, mainVars, clientVars
  <2>. QED
    BY <1>0, <1>4, <2>1
<1>6. ASSUME NEW c \in Client,
             AcceptClient(c) \/ RefuseClient(c) \/ ClientLeft(c) \/ Connect(c) \/ ReadHalf(c)
      PROVE  AInv'
  <2>1. /\ UNCHANGED <<ring, made, lost, rpc, put, log, queue>>
        /\ faults' = faults \/ faults' = faults + 1
    BY <1>6 DEF AcceptClient, RefuseClient, ClientLeft, Connect, ReadHalf, kernelVars,
                readerVars, mainVars
  <2>. QED
    BY <1>0, <1>4, <2>1
<1>. QED
  BY <1>1, <1>2, <1>3, <1>5, <1>6, ReserveAccounts, TakeRecordAccounts, ConsumeAccounts,
     StopAccounts DEF Next, Reader, Main

LEMMA AccountsAre == TInv /\ AInv => Accounted
<1>. SUFFICES ASSUME TInv, AInv PROVE Accounted
  OBVIOUS
<1>1. /\ \A s \in Source : DOMAIN ring[s] = 1..Len(ring[s])
      /\ DOMAIN Flow = 1..Len(Flow)
  BY FlowType, LenProperties DEF TInv, KernelT
<1>2. \A s \in Source : \A n \in 1..made[s] :
         \/ <<s, n>> \in lost \cup Elems(Flow)
         \/ \E i \in DOMAIN ring[s] : ring[s][i].ev = <<s, n>>
  BY <1>1 DEF AInv, Conserved
<1>3. \A i, j \in DOMAIN Flow : (i < j /\ Flow[i][1] = Flow[j][1]) => Flow[i][2] <= Flow[j][2]
  BY <1>1 DEF AInv, FlowOrder
<1>4. Len(Flow) <= Cardinality(Elems(Flow)) + faults
  <2>1. Again("pkt") \in {0, 1} /\ Again("sock") \in {0, 1}
    BY Numbers DEF Source
  <2>. QED
    BY <2>1, Numbers DEF AInv, Count
<1>. QED
  BY <1>2, <1>3, <1>4 DEF Accounted, Flow

LEMMA AccountsInvariant == Spec => []AInv
<1>1. Init => AInv
  BY InitAccounts
<1>2. TInv /\ TInv' /\ AInv /\ [Next]_vars => AInv'
  BY NextAccounts
<1>. QED
  BY <1>1, <1>2, TypesInvariant, PTL DEF Spec

\* Whatever the sizes of rings and queue and however often the relay is
\* killed, an event the kernel made is in its ring, queued, taken by the main
\* thread, or lost at a full buffer or with the relay; the events of a source
\* keep their order; and no more events are delivered twice than the relay
\* was killed or a subscriber was lost.
THEOREM EventsAccounted == Spec => []Accounted
BY AccountsInvariant, TypesInvariant, AccountsAre, PTL

-----------------------------------------------------------------------------
(* The stream of a subscriber. *)

\* a is the end of b.
EndOf(a, b) == \E p \in Seq(Event) : b = p \o a

LEMMA EndOfSelf == ASSUME NEW a \in Seq(Event) PROVE EndOf(a, a) /\ EndOf(<<>>, a)
<1>1. <<>> \in Seq(Event) /\ a = <<>> \o a /\ a = a \o <<>>
  BY EmptySeq, ConcatEmptySeq
<1>. QED
  BY <1>1 DEF EndOf

LEMMA EndOfTrans ==
  ASSUME NEW a \in Seq(Event), NEW b \in Seq(Event), NEW c \in Seq(Event), EndOf(a, b), EndOf(b, c)
  PROVE  EndOf(a, c)
<1>1. PICK p \in Seq(Event) : b = p \o a
  BY DEF EndOf
<1>2. PICK r \in Seq(Event) : c = r \o b
  BY DEF EndOf
<1>3. c = (r \o p) \o a /\ r \o p \in Seq(Event)
  BY <1>1, <1>2, ConcatAssociative, ConcatProperties
<1>. QED
  BY <1>3 DEF EndOf

\* One more element at both ends.
LEMMA EndOfAppend ==
  ASSUME NEW a \in Seq(Event), NEW b \in Seq(Event), NEW e \in Event, EndOf(a, b)
  PROVE  EndOf(Append(a, e), Append(b, e))
<1>1. PICK p \in Seq(Event) : b = p \o a
  BY DEF EndOf
<1>2. p \o Append(a, e) = Append(p \o a, e)
  BY ConcatAppend
<1>. QED
  BY <1>1, <1>2 DEF EndOf

\* LastN takes the end of a sequence, and the end of a sequence is what LastN takes.
LEMMA LastNEnd ==
  ASSUME NEW s \in Seq(Event), NEW n \in Nat
  PROVE  EndOf(LastN(s, n), s)
<1>1. Len(s) \in Nat /\ \A i \in 1..Len(s) : s[i] \in Event
  BY LenProperties, ElementOfSeq
<1>2. CASE Len(s) <= n
  BY <1>2, EndOfSelf DEF LastN
<1>3. CASE ~(Len(s) <= n)
  <2>. DEFINE k == Len(s) - n
  <2>1. k \in Nat /\ k >= 1 /\ k <= Len(s) /\ 1 \in 1..(Len(s) + 1) /\ k \in 0..Len(s) /\ k \in (1 - 1)..Len(s)
        /\ Len(s) \in k..Len(s)
    BY <1>1, <1>3
  <2>2. SubSeq(s, 1, k) \o SubSeq(s, k + 1, Len(s)) = SubSeq(s, 1, Len(s))
    BY <2>1, ConcatAdjacentSubSeq
  <2>3. SubSeq(s, 1, Len(s)) = s
    BY SubSeqFull
  <2>4. SubSeq(s, 1, k) \in Seq(Event)
    BY <1>1, <2>1, SubSeqProperties
  <2>5. LastN(s, n) = SubSeq(s, k + 1, Len(s))
    BY <1>3 DEF LastN
  <2>. HIDE DEF k
  <2>. QED
    BY <2>2, <2>3, <2>4, <2>5 DEF EndOf
<1>. QED
  BY <1>2, <1>3

LEMMA EndIsLastN ==
  ASSUME NEW a \in Seq(Event), NEW b \in Seq(Event), EndOf(a, b)
  PROVE  a = LastN(b, Len(a))
<1>1. PICK p \in Seq(Event) : b = p \o a
  BY DEF EndOf
<1>2. /\ Len(b) = Len(p) + Len(a) /\ Len(p) \in Nat /\ Len(a) \in Nat
      /\ \A i \in 1..(Len(p) + Len(a)) : b[i] = IF i <= Len(p) THEN p[i] ELSE a[i - Len(p)]
  BY <1>1, ConcatProperties, LenProperties
<1>3. CASE Len(p) = 0
  <2>1. p = <<>>
    BY <1>3, EmptySeq
  <2>2. b = a
    BY <1>1, <2>1, ConcatEmptySeq
  <2>. QED
    BY <1>2, <2>2 DEF LastN
<1>4. CASE Len(p) # 0
  <2>. DEFINE m == Len(p) + 1
              t == SubSeq(b, m, Len(b))
  <2>1. ~(Len(b) <= Len(a)) /\ Len(b) - Len(a) + 1 = m /\ m \in Int /\ Len(b) \in Int
    BY <1>2, <1>4
  <2>2. LastN(b, Len(a)) = t
    BY <2>1 DEF LastN
  <2>3. \A i \in m..Len(b) : b[i] \in Event
    BY <1>2, ElementOfSeq
  <2>4. /\ t \in Seq(Event) /\ Len(t) = IF m <= Len(b) THEN Len(b) - m + 1 ELSE 0
        /\ \A i \in 1..(Len(b) - m + 1) : t[i] = b[m + i - 1]
    BY <2>1, <2>3, SubSeqProperties
  <2>. HIDE DEF t
  <2>5. Len(t) = Len(a) /\ Len(b) - m + 1 = Len(a)
    BY <1>2, <2>4
  <2>6. ASSUME NEW i \in 1..Len(a) PROVE t[i] = a[i]
    <3>1. m + i - 1 \in 1..(Len(p) + Len(a)) /\ ~(m + i - 1 <= Len(p)) /\ (m + i - 1) - Len(p) = i
      BY <1>2
    <3>2. t[i] = b[m + i - 1]
      BY <2>4, <2>5
    <3>. QED
      BY <1>2, <3>1, <3>2
  <2>7. t = a
    BY <2>4, <2>5, <2>6, SeqEqual
  <2>. QED
    BY <2>2, <2>7
<1>. QED
  BY <1>3, <1>4

\* The packet events of the end of a sequence are the end of its packet events.
LEMMA PktOnlyEnd ==
  ASSUME NEW a \in Seq(Event), NEW b \in Seq(Event), EndOf(a, b)
  PROVE  EndOf(PktOnly(a), PktOnly(b))
<1>1. PICK p \in Seq(Event) : b = p \o a
  BY DEF EndOf
<1>2. PktOnly(b) = PktOnly(p) \o PktOnly(a) /\ PktOnly(p) \in Seq(Event)
  BY <1>1, PktOnlyConcat, PktOnlyType
<1>. QED
  BY <1>2 DEF EndOf

\* f follows the recursion of FlattenSeq on the first m sequences of q.
Follows(q, m, f) == \A n \in 1..m : f[n] = IF n = 1 THEN q[n] ELSE f[n - 1] \o q[n]

IsFlat(q, m, f) == f \in [1..m -> Seq(Event)] /\ Follows(q, m, f)

Flat(q) ==
    CHOOSE f : f = [i \in 1..Len(q) |-> IF i = 1 THEN q[i] ELSE f[i - 1] \o q[i]]

LEMMA FlatExists ==
  ASSUME NEW q \in Seq(Seq(Event))
  PROVE  \E f : IsFlat(q, Len(q), f)
<1>. DEFINE T == {m \in Nat : \E f : IsFlat(q, m, f)}
<1>1. Len(q) \in Nat /\ \A n \in 1..Len(q) : q[n] \in Seq(Event)
  BY LenProperties, ElementOfSeq
<1>2. 0 \in T
  <2>1. IsFlat(q, 0, [n \in 1..0 |-> <<>>])
    BY DEF IsFlat, Follows
  <2>. QED
    BY <2>1
<1>3. ASSUME NEW n \in 0..(Len(q) - 1), n \in T
      PROVE  n + 1 \in T
  <2>1. PICK g : IsFlat(q, n, g)
    BY <1>3
  <2>. DEFINE v == IF n = 0 THEN q[1] ELSE g[n] \o q[n + 1]
              h == [i \in 1..(n + 1) |-> IF i = n + 1 THEN v ELSE g[i]]
  <2>2. n \in Nat /\ n + 1 \in 1..Len(q) /\ q[n + 1] \in Seq(Event)
    BY <1>1
  <2>3. v \in Seq(Event)
    <3>1. n # 0 => g[n] \in Seq(Event)
      BY <2>1, <2>2 DEF IsFlat, Follows
    <3>. QED
      BY <2>2, <3>1, ConcatProperties
  <2>4. h \in [1..(n + 1) -> Seq(Event)]
    BY <2>1, <2>2, <2>3 DEF IsFlat, Follows
  <2>5. ASSUME NEW i \in 1..(n + 1)
        PROVE  h[i] = IF i = 1 THEN q[i] ELSE h[i - 1] \o q[i]
    <3>1. CASE i = n + 1
      <4>1. h[i] = v /\ i - 1 = n /\ (n # 0 => h[i - 1] = g[n]) /\ (i = 1 <=> n = 0)
        BY <2>2, <3>1
      <4>. QED
        BY <3>1, <4>1
    <3>2. CASE i # n + 1
      <4>1. i \in 1..n /\ h[i] = g[i] /\ (i # 1 => h[i - 1] = g[i - 1])
        BY <2>2, <3>2
      <4>. QED
        BY <2>1, <4>1 DEF IsFlat, Follows
    <3>. QED
      BY <3>1, <3>2
  <2>6. IsFlat(q, n + 1, h)
    <3>. HIDE DEF h
    <3>. QED
      BY <2>4, <2>5 DEF IsFlat, Follows
  <2>. QED
    BY <2>2, <2>6
<1>4. \A n \in 0..Len(q) : n \in T
  <2>. HIDE DEF T
  <2>. QED
    BY <1>1, <1>2, <1>3, Induction
<1>. QED
  BY <1>1, <1>4

Agree(q, r, k) == \A i \in 1..k : q[i] = r[i]

\* Functions that follow the recursion agree as long as their sequences do.
LEMMA FlatPrefix ==
  ASSUME NEW q, NEW r, NEW k \in Nat, NEW f, NEW g, Agree(q, r, k),
         Follows(q, k, f), Follows(r, k, g)
  PROVE  Agree(f, g, k)
<1>. DEFINE T == {n \in Nat : n \in 1..k => f[n] = g[n]}
<1>1. 0 \in T
  OBVIOUS
<1>2. ASSUME NEW n \in 0..(k - 1), n \in T PROVE n + 1 \in T
  <2>1. n \in Nat /\ n + 1 \in 1..k /\ (n + 1) - 1 = n
    OBVIOUS
  <2>2. CASE n = 0
    BY <2>1, <2>2 DEF Follows, Agree
  <2>3. CASE n # 0
    <3>1. n \in 1..k /\ f[n] = g[n] /\ n + 1 # 1
      BY <1>2, <2>1, <2>3
    <3>2. f[n + 1] = f[n] \o q[n + 1] /\ g[n + 1] = g[n] \o r[n + 1]
      BY <2>1, <3>1 DEF Follows
    <3>3. q[n + 1] = r[n + 1]
      BY <2>1 DEF Agree
    <3>4. f[n + 1] = g[n + 1]
      BY <3>1, <3>2, <3>3
    <3>. QED
      BY <2>1, <3>4
  <2>. QED
    BY <2>2, <2>3
<1>3. \A n \in 0..k : n \in T
  <2>. HIDE DEF T
  <2>. QED
    BY <1>1, <1>2, Induction
<1>. QED
  BY <1>3 DEF Agree

LEMMA FlatIs ==
  ASSUME NEW q \in Seq(Seq(Event))
  PROVE  /\ IsFlat(q, Len(q), Flat(q))
         /\ FlattenSeq(q) = IF Len(q) = 0 THEN <<>> ELSE Flat(q)[Len(q)]
<1>. DEFINE G(f) == [i \in 1..Len(q) |-> IF i = 1 THEN q[i] ELSE f[i - 1] \o q[i]]
<1>0. Len(q) \in Nat
  BY LenProperties
<1>1. PICK g : IsFlat(q, Len(q), g)
  BY FlatExists
<1>2. g = G(g)
  <2>1. g = [n \in 1..Len(q) |-> g[n]]
    BY <1>1 DEF IsFlat
  <2>2. \A n \in 1..Len(q) : g[n] = IF n = 1 THEN q[n] ELSE g[n - 1] \o q[n]
    BY <1>1 DEF IsFlat, Follows
  <2>. QED
    BY <2>1, <2>2
<1>3. Flat(q) = G(Flat(q))
  BY <1>2 DEF Flat
<1>4. \A n \in 1..Len(q) : Flat(q)[n] = g[n]
  <2>1. Follows(q, Len(q), Flat(q))
    BY <1>3 DEF Follows
  <2>2. Follows(q, Len(q), g)
    BY <1>1 DEF IsFlat
  <2>. QED
    <3>1. Agree(q, q, Len(q))
      BY DEF Agree
    <3>2. Agree(Flat(q), g, Len(q))
      BY <1>0, <2>1, <2>2, <3>1, FlatPrefix
    <3>. QED
      BY <3>2 DEF Agree
<1>5. Flat(q) = g
  <2>1. Flat(q) = [n \in 1..Len(q) |-> Flat(q)[n]]
    BY <1>3
  <2>2. g = [n \in 1..Len(q) |-> g[n]]
    BY <1>2
  <2>. QED
    BY <1>4, <2>1, <2>2
<1>6. CASE Len(q) = 0
  <2>1. q = <<>>
    BY <1>6, EmptySeq
  <2>. QED
    BY <1>1, <1>5, <1>6, <2>1 DEF FlattenSeq
<1>7. CASE Len(q) # 0
  <2>1. FlattenSeq(q) = Flat(q)[Len(q)]
    BY <1>7 DEF FlattenSeq, Flat
  <2>. QED
    BY <1>1, <1>5, <1>7, <2>1
<1>. QED
  BY <1>6, <1>7

LEMMA FlattenType == ASSUME NEW q \in Seq(Seq(Event)) PROVE FlattenSeq(q) \in Seq(Event)
<1>1. Len(q) \in Nat
  BY LenProperties
<1>2. CASE Len(q) = 0
  BY <1>2, FlatIs, EmptySeq
<1>3. CASE Len(q) # 0
  <2>1. Flat(q) \in [1..Len(q) -> Seq(Event)] /\ FlattenSeq(q) = Flat(q)[Len(q)]
    BY <1>3, FlatIs DEF IsFlat
  <2>2. Len(q) \in 1..Len(q)
    BY <1>1, <1>3
  <2>. QED
    BY <2>1, <2>2
<1>. QED
  BY <1>2, <1>3

\* One more sequence at the end, and one less at the head.
LEMMA FlattenAppend ==
  ASSUME NEW q \in Seq(Seq(Event)), NEW x \in Seq(Event)
  PROVE  FlattenSeq(Append(q, x)) = FlattenSeq(q) \o x
<1>. DEFINE r == Append(q, x)
<1>1. /\ r \in Seq(Seq(Event)) /\ Len(r) = Len(q) + 1 /\ Len(q) \in Nat
      /\ \A i \in 1..Len(q) : r[i] = q[i]
      /\ r[Len(q) + 1] = x
  BY AppendProperties, LenProperties
<1>. HIDE DEF r
<1>2. IsFlat(r, Len(r), Flat(r)) /\ FlattenSeq(r) = Flat(r)[Len(r)]
  BY <1>1, FlatIs
<1>3. IsFlat(q, Len(q), Flat(q)) /\ FlattenSeq(q) = IF Len(q) = 0 THEN <<>> ELSE Flat(q)[Len(q)]
  BY FlatIs
<1>4. CASE Len(q) = 0
  <2>1. Flat(r)[1] = x
    BY <1>1, <1>2, <1>4 DEF IsFlat, Follows
  <2>2. <<>> \o x = x
    BY ConcatEmptySeq
  <2>. QED
    BY <1>1, <1>2, <1>3, <1>4, <2>1, <2>2 DEF r
<1>5. CASE Len(q) # 0
  <2>1. Len(r) \in 1..Len(r) /\ Len(r) # 1 /\ Len(r) - 1 = Len(q) /\ Len(q) \in 1..Len(q)
    BY <1>1, <1>5
  <2>2. Flat(r)[Len(r)] = Flat(r)[Len(q)] \o x
    BY <1>1, <1>2, <2>1 DEF IsFlat, Follows
  <2>3. Follows(r, Len(q), Flat(r))
    <3>1. \A n \in 1..Len(q) : n \in 1..Len(r)
      BY <1>1
    <3>. QED
      BY <1>2, <3>1 DEF IsFlat, Follows
  <2>4. Follows(q, Len(q), Flat(q))
    BY <1>3 DEF IsFlat
  <2>5. \A n \in 1..Len(q) : Flat(r)[n] = Flat(q)[n]
    <3>1. Len(q) \in Nat /\ Agree(r, q, Len(q))
      BY <1>1 DEF Agree
    <3>2. Agree(Flat(r), Flat(q), Len(q))
      BY <2>3, <2>4, <3>1, FlatPrefix
    <3>. QED
      BY <3>2 DEF Agree
  <2>. QED
    BY <1>2, <1>3, <1>5, <2>1, <2>2, <2>5 DEF r
<1>. QED
  BY <1>4, <1>5

LEMMA FlattenHead ==
  ASSUME NEW h \in Seq(Event), NEW t \in Seq(Seq(Event))
  PROVE  FlattenSeq(<<h>> \o t) = h \o FlattenSeq(t)
<1>. DEFINE p(k) == SubSeq(t, 1, k)
            T == {k \in Nat : FlattenSeq(<<h>> \o p(k)) = h \o FlattenSeq(p(k))}
<1>0. <<h>> \in Seq(Seq(Event)) /\ <<>> \in Seq(Seq(Event)) /\ Len(<<>>) = 0
  BY EmptySeq
<1>1. Len(t) \in Nat /\ p(Len(t)) = t /\ p(0) = <<>>
  BY LenProperties, SubSeqFull, SubSeqEmpty
<1>2. 0 \in T
  <2>1. FlattenSeq(<<>>) = <<>>
    BY <1>0, FlatIs
  <2>2. <<h>> = Append(<<>>, h) /\ <<h>> \o <<>> = <<h>> /\ h \o <<>> = h /\ <<>> \o h = h
    BY <1>0, ConcatEmptySeq
  <2>3. FlattenSeq(<<h>>) = h
    BY <1>0, <2>1, <2>2, FlattenAppend
  <2>4. FlattenSeq(<<h>> \o p(0)) = h \o FlattenSeq(p(0))
    BY <1>1, <2>1, <2>2, <2>3
  <2>. QED
    BY <2>4
<1>3. ASSUME NEW k \in 0..(Len(t) - 1), k \in T PROVE k + 1 \in T
  <2>. DEFINE x == p(k)
              e == t[k + 1]
  <2>1. x \in Seq(Seq(Event)) /\ e \in Seq(Event) /\ p(k + 1) = Append(x, e)
    BY PrefixStep
  <2>2. FlattenSeq(<<h>> \o x) = h \o FlattenSeq(x) /\ k \in Nat
    BY <1>3
  <2>. DEFINE y == FlattenSeq(x)
              S == Seq(Event)
  <2>. HIDE DEF x, e, T, p
  <2>3. <<h>> \o Append(x, e) = Append(<<h>> \o x, e) /\ <<h>> \o x \in Seq(Seq(Event))
    <3>1. <<h>> \o Append(x, e) = Append(<<h>> \o x, e)
      <4>1. <<h>> \in Seq(S) /\ x \in Seq(S) /\ e \in S
        BY <1>0, <2>1
      <4>. HIDE DEF S
      <4>. QED
        BY <4>1, ConcatAppend
    <3>2. <<h>> \o x \in Seq(Seq(Event))
      BY <1>0, <2>1, ConcatProperties, Zenon
    <3>. QED
      BY <3>1, <3>2
  <2>4. FlattenSeq(Append(<<h>> \o x, e)) = FlattenSeq(<<h>> \o x) \o e
    BY <2>1, <2>3, FlattenAppend
  <2>5. FlattenSeq(Append(x, e)) = FlattenSeq(x) \o e /\ FlattenSeq(x) \in Seq(Event)
    BY <2>1, FlattenAppend, FlattenType
  <2>6. (h \o FlattenSeq(x)) \o e = h \o (FlattenSeq(x) \o e)
    <3>1. h \in Seq(Event) /\ y \in Seq(Event) /\ e \in Seq(Event)
      BY <2>1, <2>5
    <3>. HIDE DEF y
    <3>2. (h \o y) \o e = h \o (y \o e)
      BY <3>1, ConcatAssociative
    <3>. QED
      BY <3>2 DEF y
  <2>7. FlattenSeq(<<h>> \o Append(x, e)) = h \o FlattenSeq(Append(x, e))
    BY <2>2, <2>3, <2>4, <2>5, <2>6
  <2>8. FlattenSeq(<<h>> \o p(k + 1)) = h \o FlattenSeq(p(k + 1))
    BY <2>1, <2>7
  <2>9. k + 1 \in Nat
    BY <2>2
  <2>. QED
    BY <2>8, <2>9, Zenon DEF T
<1>4. \A k \in 0..Len(t) : k \in T
  <2>. HIDE DEF T
  <2>. QED
    BY <1>1, <1>2, <1>3, Induction
<1>5. Len(t) \in T
  <2>. HIDE DEF T
  <2>. QED
    BY <1>1, <1>4
<1>. QED
  BY <1>1, <1>5

\* The events of the lines of a socket buffer.
Evs(q) == [i \in DOMAIN q |-> q[i].evs]

\* What the TUI has shown or will show of what was sent on its connection.
Seen == shown \o PktOnly(FlattenSeq(Evs(sock[Tui])))

\* The history is the end of the log.
HistEnd == EndOf(hist, log)

\* A new connection has shown nothing, and what an earlier connection left in
\* the buffer can only spoil its first line.
TuiFresh ==
    /\ conn[Tui] = "backlog" => shown = <<>>
    /\ (conn[Tui] \in {"backlog", "on"} /\ buf[Tui] = "old") => shown = <<>>

SeenEnd == conn[Tui] = "on" => EndOf(Seen, PktOnly(log))

SInv == HistEnd /\ TuiFresh /\ SeenEnd

LEMMA EvsType ==
  ASSUME NEW q \in Seq(Line)
  PROVE  Evs(q) \in Seq(Seq(Event)) /\ Len(Evs(q)) = Len(q) /\ \A i \in 1..Len(q) : Evs(q)[i] = q[i].evs
<1>1. Len(q) \in Nat /\ DOMAIN q = 1..Len(q) /\ \A i \in 1..Len(q) : q[i].evs \in Seq(Event)
  <2>1. Len(q) \in Nat /\ DOMAIN q = 1..Len(q) /\ \A i \in 1..Len(q) : q[i] \in Line
    BY LenProperties, ElementOfSeq
  <2>2. \A l \in Line : l.evs \in Seq(Event)
    BY DEF Line
  <2>. QED
    BY <2>1, <2>2
<1>2. Evs(q) = [i \in 1..Len(q) |-> q[i].evs]
  BY <1>1 DEF Evs
<1>3. Evs(q) \in [1..Len(q) -> Seq(Event)]
  BY <1>1, <1>2
<1>4. Evs(q) \in Seq(Seq(Event))
  <2>. DEFINE S == Seq(Event)
              n == Len(q)
              f == Evs(q)
  <2>1. f \in [1..n -> S] /\ n \in Nat
    BY <1>1, <1>3
  <2>. HIDE DEF S, n, f
  <2>2. f \in Seq(S)
    BY <2>1, SeqDef
  <2>. QED
    BY <2>2 DEF f, S
<1>5. DOMAIN Evs(q) = 1..Len(Evs(q)) /\ DOMAIN Evs(q) = 1..Len(q) /\ Len(Evs(q)) \in Nat
  BY <1>3, <1>4, LenProperties
<1>6. Len(Evs(q)) = Len(q)
  <2>1. \A m, n \in Nat : 1..m = 1..n => ~(m < n)
    <3>1. \A m, n \in Nat : m < n => n \in 1..n /\ n \notin 1..m
      OBVIOUS
    <3>. QED
      BY <3>1
  <2>. DEFINE a == Len(Evs(q))
              b == Len(q)
  <2>2. a \in Nat /\ b \in Nat /\ 1..a = 1..b
    BY <1>1, <1>5
  <2>. HIDE DEF a, b
  <2>3. ~(a < b) /\ ~(b < a)
    BY <2>1, <2>2, Zenon
  <2>4. a = b
    BY <2>2, <2>3
  <2>. QED
    BY <2>4 DEF a, b
<1>. QED
  BY <1>2, <1>4, <1>6

\* One more line, one line less, and one line.
LEMMA EvsAppend ==
  ASSUME NEW q \in Seq(Line), NEW l \in Line
  PROVE  FlattenSeq(Evs(Append(q, l))) = FlattenSeq(Evs(q)) \o l.evs
<1>. DEFINE r == Append(q, l)
            S == Seq(Event)
            x == l.evs
<1>0. x \in Seq(Event)
  BY DEF Line
<1>1. /\ r \in Seq(Line) /\ Len(r) = Len(q) + 1 /\ Len(q) \in Nat
      /\ \A i \in 1..Len(q) : r[i] = q[i]
      /\ r[Len(q) + 1] = l
  BY AppendProperties, LenProperties
<1>2. Evs(q) \in Seq(S) /\ Len(Evs(q)) = Len(q) /\ \A i \in 1..Len(q) : Evs(q)[i] = q[i].evs
  BY EvsType
<1>. HIDE DEF r
<1>3. Evs(r) \in Seq(S) /\ Len(Evs(r)) = Len(r) /\ \A i \in 1..Len(r) : Evs(r)[i] = r[i].evs
  BY <1>1, EvsType
<1>4. x \in S
  BY <1>0
<1>. HIDE DEF S
<1>5. /\ Append(Evs(q), x) \in Seq(S) /\ Len(Append(Evs(q), x)) = Len(Evs(q)) + 1
      /\ \A i \in 1..Len(Evs(q)) : Append(Evs(q), x)[i] = Evs(q)[i]
      /\ Append(Evs(q), x)[Len(Evs(q)) + 1] = x
  BY <1>2, <1>4, AppendProperties
<1>6. ASSUME NEW i \in 1..Len(r) PROVE Evs(r)[i] = Append(Evs(q), x)[i]
  <2>1. CASE i \in 1..Len(q)
    BY <1>1, <1>2, <1>3, <1>5, <2>1
  <2>2. CASE i = Len(q) + 1
    BY <1>1, <1>2, <1>3, <1>5, <2>2
  <2>3. i \in 1..Len(q) \/ i = Len(q) + 1
    BY <1>1
  <2>. QED
    BY <2>1, <2>2, <2>3
<1>7. Evs(r) = Append(Evs(q), x)
  BY <1>1, <1>2, <1>3, <1>5, <1>6, SeqEqual
<1>8. FlattenSeq(Append(Evs(q), x)) = FlattenSeq(Evs(q)) \o x
  BY <1>0, <1>2, FlattenAppend DEF S
<1>. QED
  BY <1>7, <1>8 DEF r

LEMMA EvsHead ==
  ASSUME NEW q \in Seq(Line), q # <<>>
  PROVE  FlattenSeq(Evs(q)) = Head(q).evs \o FlattenSeq(Evs(Tail(q)))
<1>. DEFINE t == Tail(q)
            S == Seq(Event)
            h == Head(q).evs
            g == <<h>> \o Evs(t)
<1>1. /\ Head(q) \in Line /\ t \in Seq(Line) /\ Len(t) = Len(q) - 1
      /\ \A i \in 1..Len(t) : t[i] = q[i + 1]
  BY HeadTailProperties
<1>2. Len(q) \in Nat /\ Len(q) >= 1 /\ q[1] = Head(q)
  BY LenProperties, EmptySeq
<1>3. h \in S
  BY <1>1 DEF Line
<1>4. Evs(q) \in Seq(S) /\ Len(Evs(q)) = Len(q) /\ \A i \in 1..Len(q) : Evs(q)[i] = q[i].evs
  BY EvsType
<1>. HIDE DEF t
<1>5. Evs(t) \in Seq(S) /\ Len(Evs(t)) = Len(t) /\ \A i \in 1..Len(t) : Evs(t)[i] = t[i].evs
  BY <1>1, EvsType
<1>6. Evs(q)[1] = h
  BY <1>2, <1>4
<1>. HIDE DEF S, h
<1>7. <<h>> \in Seq(S) /\ Len(<<h>>) = 1 /\ <<h>>[1] = h
  BY <1>3
<1>8. /\ g \in Seq(S) /\ Len(g) = 1 + Len(t)
      /\ \A i \in 1..(1 + Len(t)) : g[i] = IF i <= 1 THEN <<h>>[i] ELSE Evs(t)[i - 1]
  BY <1>5, <1>7, ConcatProperties
<1>. HIDE DEF g
<1>9. ASSUME NEW i \in 1..Len(q) PROVE Evs(q)[i] = g[i]
  <2>1. CASE i = 1
    BY <1>1, <1>2, <1>6, <1>7, <1>8, <2>1
  <2>2. CASE i # 1
    <3>1. i - 1 \in 1..Len(t) /\ (i - 1) + 1 = i /\ ~(i <= 1) /\ i \in 1..(1 + Len(t))
      BY <1>1, <1>2, <2>2
    <3>2. g[i] = Evs(t)[i - 1] /\ Evs(t)[i - 1] = t[i - 1].evs /\ t[i - 1] = q[i]
      BY <1>1, <1>5, <1>8, <3>1
    <3>. QED
      BY <1>4, <3>2
  <2>. QED
    BY <2>1, <2>2
<1>10. Evs(q) = g
  <2>1. Len(Evs(q)) = Len(g)
    BY <1>1, <1>2, <1>4, <1>8
  <2>. QED
    BY <1>4, <1>8, <1>9, <2>1, SeqEqual
<1>11. FlattenSeq(<<h>> \o Evs(t)) = h \o FlattenSeq(Evs(t))
  BY <1>3, <1>5, FlattenHead DEF S
<1>. QED
  BY <1>10, <1>11 DEF g, h, t

LEMMA EvsEmpty == Evs(<<>>) = <<>> /\ FlattenSeq(Evs(<<>>)) = <<>>
<1>1. <<>> \in Seq(Line) /\ Len(<<>>) = 0 /\ <<>> \in Seq(Seq(Event))
  BY EmptySeq
<1>2. Evs(<<>>) \in Seq(Seq(Event)) /\ Len(Evs(<<>>)) = 0
  BY <1>1, EvsType
<1>3. Evs(<<>>) = <<>>
  <2>. DEFINE S == Seq(Event)
              f == Evs(<<>>)
  <2>1. f \in Seq(S) /\ Len(f) = 0
    BY <1>2
  <2>. HIDE DEF S, f
  <2>2. f = <<>>
    BY <2>1, EmptySeq
  <2>. QED
    BY <2>2 DEF f
<1>4. FlattenSeq(<<>>) = <<>>
  BY <1>1, FlatIs
<1>. QED
  BY <1>3, <1>4

LEMMA EvsOne == ASSUME NEW l \in Line PROVE FlattenSeq(Evs(<<l>>)) = l.evs
<1>1. <<l>> = Append(<<>>, l) /\ <<>> \in Seq(Line)
  BY EmptySeq
<1>2. FlattenSeq(Evs(<<l>>)) = FlattenSeq(Evs(<<>>)) \o l.evs
  BY <1>1, EvsAppend
<1>3. <<>> \o l.evs = l.evs
  BY ConcatEmptySeq DEF Line
<1>. QED
  BY <1>2, <1>3, EvsEmpty

LEMMA SeenType ==
  ASSUME TInv
  PROVE  /\ sock[Tui] \in Seq(Line) /\ FlattenSeq(Evs(sock[Tui])) \in Seq(Event)
         /\ PktOnly(FlattenSeq(Evs(sock[Tui]))) \in Seq(Event)
         /\ Seen \in Seq(Event) /\ shown \in Seq(Event)
         /\ log \in Seq(Event) /\ hist \in Seq(Event) /\ PktOnly(log) \in Seq(Event)
<1>1. sock[Tui] \in Seq(Line) /\ shown \in Seq(Event) /\ log \in Seq(Event) /\ hist \in Seq(Event)
  BY DEF TInv, ConnT, PipeT, RestT, Client
<1>2. FlattenSeq(Evs(sock[Tui])) \in Seq(Event)
  BY <1>1, EvsType, FlattenType
<1>3. PktOnly(FlattenSeq(Evs(sock[Tui]))) \in Seq(Event) /\ PktOnly(log) \in Seq(Event)
  BY <1>1, <1>2, PktOnlyType
<1>4. Seen \in Seq(Event)
  BY <1>1, <1>3, ConcatProperties DEF Seen
<1>. QED
  BY <1>1, <1>2, <1>3, <1>4

\* Steps that the TUI's connection does not see.
LEMMA KeepStream ==
  ASSUME SInv, HistEnd', UNCHANGED <<log, shown>>,
         conn'[Tui] = conn[Tui], sock'[Tui] = sock[Tui],
         buf'[Tui] = buf[Tui] \/ (buf[Tui] # "old" /\ buf'[Tui] # "old")
  PROVE  SInv'
<1>1. Seen' = Seen
  BY DEF Seen
<1>2. TuiFresh'
  BY DEF SInv, TuiFresh
<1>3. SeenEnd'
  BY <1>1 DEF SInv, SeenEnd
<1>. QED
  BY <1>2, <1>3 DEF SInv

\* Steps after which the TUI has no live connection.
LEMMA NoStream ==
  ASSUME HistEnd', conn'[Tui] \notin {"backlog", "on"}
  PROVE  SInv'
BY DEF SInv, TuiFresh, SeenEnd

LEMMA TrimEnd ==
  ASSUME TInv, TInv', HistEnd, hist' \in Trimmed, UNCHANGED log
  PROVE  HistEnd'
<1>1. PICK n \in 0..Len(hist) : hist' = LastN(hist, n)
  BY DEF Trimmed
<1>2. hist \in Seq(Event) /\ hist' \in Seq(Event) /\ log \in Seq(Event) /\ n \in Nat
  BY LenProperties DEF TInv, PipeT
<1>3. EndOf(hist', hist)
  BY <1>1, <1>2, LastNEnd
<1>. QED
  BY <1>2, <1>3, EndOfTrans DEF HistEnd

LEMMA InitStream == Init => SInv
<1>. SUFFICES ASSUME Init PROVE SInv
  OBVIOUS
<1>1. HistEnd
  BY EmptySeq, EndOfSelf DEF Init, HistEnd
<1>2. conn[Tui] = "off"
  BY DEF Init, Client
<1>. QED
  BY <1>1, <1>2 DEF SInv, TuiFresh, SeenEnd

\* The history that a new subscriber gets is the end of the log.
LEMMA AcceptStream ==
  ASSUME TInv, TInv', SInv, NEW c \in Client, AcceptClient(c) \/ RefuseClient(c)
  PROVE  SInv'
<1>1. HistEnd'
  BY TrimEnd DEF AcceptClient, RefuseClient, SInv
<1>2. UNCHANGED <<log, shown, buf>> /\ Tui \in Client
  BY DEF AcceptClient, RefuseClient, Client
<1>3. CASE c # Tui
  <2>1. conn'[Tui] = conn[Tui] /\ sock'[Tui] = sock[Tui]
    BY <1>2, <1>3 DEF AcceptClient, RefuseClient, TInv, ConnT
  <2>. QED
    BY <1>1, <1>2, <2>1, KeepStream
<1>4. CASE c = Tui /\ RefuseClient(c)
  <2>1. conn'[Tui] = "eof"
    BY <1>2, <1>4 DEF RefuseClient, TInv, ConnT
  <2>. QED
    BY <1>1, <2>1, NoStream
<1>5. CASE c = Tui /\ AcceptClient(c)
  <2>. DEFINE l == [k |-> "history", evs |-> HistorySlice(hist')]
  <2>1. /\ conn[Tui] = "backlog" /\ sock' = [sock EXCEPT ![Tui] = <<l>>] /\ shown = <<>>
    BY <1>5 DEF AcceptClient, SInv, TuiFresh
  <2>2. sock'[Tui] = <<l>>
    BY <1>2, <2>1 DEF TInv, ConnT
  <2>3. hist' \in Seq(Event) /\ log \in Seq(Event) /\ HistorySlice(hist') \in Seq(Event)
    BY LastNType, Constants DEF TInv, PipeT, HistorySlice
  <2>4. l \in Line /\ l.evs = HistorySlice(hist')
    BY <2>3, LineType
  <2>. HIDE DEF l
  <2>5. FlattenSeq(Evs(sock'[Tui])) = HistorySlice(hist')
    BY <2>2, <2>4, EvsOne
  <2>6. EndOf(HistorySlice(hist'), hist')
    BY <2>3, LastNEnd, Constants DEF HistorySlice
  <2>7. EndOf(HistorySlice(hist'), log)
    BY <1>1, <1>2, <2>3, <2>6, EndOfTrans DEF HistEnd
  <2>8. EndOf(PktOnly(HistorySlice(hist')), PktOnly(log))
    BY <2>3, <2>7, PktOnlyEnd
  <2>9. Seen' = PktOnly(HistorySlice(hist'))
    <3>1. <<>> \o PktOnly(HistorySlice(hist')) = PktOnly(HistorySlice(hist'))
      BY <2>3, PktOnlyType, ConcatEmptySeq
    <3>. QED
      BY <1>2, <2>1, <2>5, <3>1 DEF Seen
  <2>10. SeenEnd'
    BY <1>2, <2>8, <2>9 DEF SeenEnd
  <2>11. TuiFresh'
    BY <1>2, <2>1 DEF TuiFresh
  <2>. QED
    BY <1>1, <2>10, <2>11 DEF SInv
<1>. QED
  BY <1>3, <1>4, <1>5

\* The event goes to the log, the history and a subscriber that has room.
LEMMA DeliverStream ==
  ASSUME TInv, TInv', SInv, Deliver
  PROVE  SInv'
<1>. DEFINE e == Head(queue)
            l == [k |-> "live", evs |-> <<e>>]
            fits(c) == conn[c] = "on" /\ Len(sock[c]) < SockMax
            full(c) == conn[c] = "on" /\ Len(sock[c]) >= SockMax
<1>1. e \in Event /\ l \in Line /\ l.evs = <<e>> /\ Tui \in Client
  <2>1. queue \in Seq(Event) /\ queue # <<>>
    BY DEF Deliver, TInv, PipeT
  <2>2. e \in Event
    BY <2>1, HeadTailProperties
  <2>. QED
    BY <2>2, LineType DEF Client
<1>2. log' = Append(log, e) /\ hist' = LastN(Append(hist, e), HistMax) /\ UNCHANGED <<shown, buf>>
  BY DEF Deliver
<1>3. conn'[Tui] \in {"backlog", "on"} =>
         conn'[Tui] = conn[Tui] /\ (conn[Tui] = "on" => sock'[Tui] = Append(sock[Tui], l))
  <2>1. conn'[Tui] = IF full(Tui) THEN "eof" ELSE IF conn[Tui] = "gone" THEN "off" ELSE conn[Tui]
    BY <1>1 DEF Deliver
  <2>2. fits(Tui) => sock'[Tui] = Append(sock[Tui], l)
    BY <1>1 DEF Deliver
  <2>3. Len(sock[Tui]) \in Nat
    BY <1>1, LenProperties DEF TInv, ConnT
  <2>4. conn[Tui] = "on" => fits(Tui) \/ full(Tui)
    BY <2>3, Constants
  <2>. QED
    BY <2>1, <2>2, <2>4
<1>4. log \in Seq(Event) /\ hist \in Seq(Event) /\ Append(hist, e) \in Seq(Event)
      /\ Append(log, e) \in Seq(Event) /\ hist' \in Seq(Event)
  BY <1>1, AppendProperties DEF TInv, PipeT
<1>5. HistEnd'
  <2>1. EndOf(Append(hist, e), Append(log, e))
    BY <1>1, <1>4, EndOfAppend DEF SInv, HistEnd
  <2>2. EndOf(hist', Append(hist, e))
    BY <1>2, <1>4, LastNEnd, Constants
  <2>. QED
    BY <1>2, <1>4, <2>1, <2>2, EndOfTrans DEF HistEnd
<1>6. TuiFresh'
  BY <1>2, <1>3 DEF SInv, TuiFresh
<1>7. SeenEnd'
  <2>1. SUFFICES ASSUME conn'[Tui] = "on" PROVE EndOf(Seen', PktOnly(log'))
    BY DEF SeenEnd
  <2>. DEFINE u == FlattenSeq(Evs(sock[Tui]))
  <2>2. /\ u \in Seq(Event) /\ PktOnly(u) \in Seq(Event) /\ Seen = shown \o PktOnly(u)
        /\ Seen \in Seq(Event) /\ shown \in Seq(Event) /\ PktOnly(log) \in Seq(Event)
    BY SeenType DEF Seen
  <2>3. EndOf(Seen, PktOnly(log)) /\ sock'[Tui] = Append(sock[Tui], l)
    BY <1>3, <2>1 DEF SInv, SeenEnd
  <2>4. FlattenSeq(Evs(sock'[Tui])) = u \o <<e>>
    BY <1>1, <2>3, EvsAppend, SeenType
  <2>5. u \o <<e>> = Append(u, e)
    BY <1>1, <2>2, AppendIsConcat
  <2>6. Seen' = shown \o PktOnly(Append(u, e))
    BY <1>2, <2>4, <2>5 DEF Seen
  <2>. HIDE DEF u, e
  <2>7. PktOnly(Append(u, e)) = IF e[1] = "pkt" THEN Append(PktOnly(u), e) ELSE PktOnly(u)
    BY <1>1, <2>2, PktOnlyAppend
  <2>8. PktOnly(log') = IF e[1] = "pkt" THEN Append(PktOnly(log), e) ELSE PktOnly(log)
    BY <1>1, <1>2, <1>4, PktOnlyAppend
  <2>9. CASE e[1] = "pkt"
    <3>1. shown \o Append(PktOnly(u), e) = Append(Seen, e)
      BY <1>1, <2>2, ConcatAppend
    <3>2. EndOf(Append(Seen, e), Append(PktOnly(log), e))
      BY <1>1, <2>2, <2>3, EndOfAppend
    <3>. QED
      BY <2>6, <2>7, <2>8, <2>9, <3>1, <3>2
  <2>10. CASE e[1] # "pkt"
    BY <2>2, <2>3, <2>6, <2>7, <2>8, <2>10
  <2>. QED
    BY <2>9, <2>10
<1>. QED
  BY <1>5, <1>6, <1>7 DEF SInv

\* A line that is read moves from the socket to the screen, or is the first
\* one of the connection and is dropped.
LEMMA ReadTuiStream ==
  ASSUME TInv, TInv', SInv, ReadTui
  PROVE  SInv'
<1>. DEFINE q == sock[Tui]
            h == Head(q).evs
            u == FlattenSeq(Evs(Tail(q)))
<1>1. /\ q \in Seq(Line) /\ q # <<>> /\ Tui \in Client /\ UNCHANGED <<log, hist, conn>>
      /\ sock' = [sock EXCEPT ![Tui] = Tail(q)] /\ buf' = [buf EXCEPT ![Tui] = "empty"]
      /\ shown' = IF Garbled(Tui) THEN shown ELSE shown \o PktOnly(h)
  BY SeenType DEF ReadTui, mainVars, Client
<1>2. sock'[Tui] = Tail(q) /\ buf'[Tui] = "empty"
  BY <1>1 DEF TInv, ConnT
<1>3. h \in Seq(Event) /\ Tail(q) \in Seq(Line)
  BY <1>1, HeadLine
<1>4. u \in Seq(Event) /\ PktOnly(u) \in Seq(Event) /\ PktOnly(h) \in Seq(Event) /\ shown \in Seq(Event)
      /\ Seen \in Seq(Event) /\ PktOnly(log) \in Seq(Event)
  BY <1>3, EvsType, FlattenType, PktOnlyType, SeenType
<1>5. FlattenSeq(Evs(q)) = h \o u
  BY <1>1, EvsHead
<1>6. Seen' = shown' \o PktOnly(u)
  BY <1>2 DEF Seen
<1>7. Seen = shown \o PktOnly(h \o u)
  BY <1>5 DEF Seen
<1>. HIDE DEF h, u, q
<1>8. PktOnly(h \o u) = PktOnly(h) \o PktOnly(u)
  BY <1>3, <1>4, PktOnlyConcat
<1>9. HistEnd'
  BY <1>1 DEF SInv, HistEnd
<1>10. TuiFresh'
  <2>1. conn[Tui] # "backlog"
    BY DEF ReadTui
  <2>. QED
    BY <1>1, <1>2, <2>1 DEF TuiFresh
<1>11. SeenEnd'
  <2>1. SUFFICES ASSUME conn[Tui] = "on" PROVE EndOf(Seen', PktOnly(log))
    BY <1>1 DEF SeenEnd
  <2>2. EndOf(Seen, PktOnly(log))
    BY <2>1 DEF SInv, SeenEnd
  <2>3. CASE ~Garbled(Tui)
    <3>1. shown' = shown \o PktOnly(h)
      BY <1>1, <2>3
    <3>2. (shown \o PktOnly(h)) \o PktOnly(u) = shown \o (PktOnly(h) \o PktOnly(u))
      BY <1>4, ConcatAssociative
    <3>. QED
      BY <1>6, <1>7, <1>8, <2>2, <3>1, <3>2
  <2>4. CASE Garbled(Tui)
    <3>1. shown = <<>> /\ shown' = <<>>
      BY <1>1, <2>1, <2>4 DEF SInv, TuiFresh, Garbled
    <3>2. PktOnly(h) \o PktOnly(u) \in Seq(Event)
      BY <1>4, ConcatProperties
    <3>3. Seen = PktOnly(h) \o PktOnly(u)
      BY <1>7, <1>8, <3>1, <3>2, ConcatEmptySeq
    <3>4. Seen' = PktOnly(u)
      BY <1>4, <1>6, <3>1, ConcatEmptySeq
    <3>5. EndOf(PktOnly(u), Seen)
      BY <1>4, <3>3 DEF EndOf
    <3>. QED
      BY <1>4, <2>2, <3>4, <3>5, EndOfTrans
  <2>. QED
    BY <2>3, <2>4
<1>. QED
  BY <1>9, <1>10, <1>11 DEF SInv

LEMMA NextStream == ASSUME TInv, TInv', SInv, [Next]_vars PROVE SInv'
<1>0. Tui \in Client /\ Daemon \in Client /\ Tui # Daemon
  BY Constants DEF Client
<1>. USE DEF SInv
<1>1. ASSUME UNCHANGED <<log, hist>> PROVE HistEnd'
  BY <1>1 DEF HistEnd
<1>2. ASSUME UNCHANGED <<log, hist, conn, sock, buf, shown>> PROVE SInv'
  BY <1>1, <1>2, KeepStream
<1>3. CASE \/ \E s \in Source : Reserve(s) \/ Submit(s)
           \/ Reader \/ StartRelay \/ UNCHANGED vars
  BY <1>2, <1>3 DEF Reserve, Submit, Reader, ReaderWakes, TakeRecord, Consume, EndDrain, StartRelay,
                    vars, mainVars, clientVars
<1>4. ASSUME NEW c \in Client, ClientLeft(c) \/ Connect(c) \/ ReadHalf(c) PROVE SInv'
  <2>1. HistEnd'
    BY <1>1, <1>4 DEF ClientLeft, Connect, ReadHalf, mainVars
  <2>2. CASE c # Tui
    <3>1. conn'[Tui] = conn[Tui] /\ sock'[Tui] = sock[Tui] /\ buf'[Tui] = buf[Tui]
      BY <1>0, <1>4, <2>2 DEF ClientLeft, Connect, ReadHalf, TInv, ConnT
    <3>2. UNCHANGED <<log, shown>>
      BY <1>0, <1>4, <2>2 DEF ClientLeft, Connect, ReadHalf, mainVars, Client
    <3>. QED
      BY <2>1, <3>1, <3>2, KeepStream
  <2>3. CASE c = Tui /\ ClientLeft(c)
    <3>1. conn'[Tui] = "off"
      BY <1>0, <2>3 DEF ClientLeft, TInv, ConnT
    <3>. QED
      BY <2>1, <3>1, NoStream
  <2>4. CASE c = Tui /\ Connect(c)
    <3>1. conn'[Tui] = "backlog" /\ shown' = <<>>
      BY <1>0, <2>4 DEF Connect, TInv, ConnT
    <3>. QED
      BY <2>1, <3>1 DEF TuiFresh, SeenEnd
  <2>5. CASE c = Tui /\ ReadHalf(c)
    <3>1. /\ conn'[Tui] = conn[Tui] /\ sock'[Tui] = sock[Tui] /\ UNCHANGED <<log, shown>>
          /\ buf[Tui] # "old" /\ buf'[Tui] # "old"
      BY <1>0, <2>5 DEF ReadHalf, TInv, ConnT, mainVars
    <3>. QED
      BY <2>1, <3>1, KeepStream
  <2>. QED
    BY <1>4, <2>2, <2>3, <2>4, <2>5
<1>5. CASE StopRelay
  <2>1. hist' = <<>> /\ log' = log
    BY <1>5 DEF StopRelay
  <2>2. HistEnd'
    BY <2>1, EndOfSelf, SeenType DEF HistEnd
  <2>3. conn'[Tui] \notin {"backlog", "on"}
    BY <1>0, <1>5 DEF StopRelay
  <2>. QED
    BY <2>2, <2>3, NoStream
<1>6. CASE EofTui \/ TuiQuits
  <2>1. UNCHANGED <<log, hist>> /\ conn'[Tui] \in {"off", "gone"}
    BY <1>0, <1>6 DEF EofTui, TuiQuits, mainVars, TInv, ConnT
  <2>. QED
    BY <1>1, <2>1, NoStream
<1>7. CASE ReadDaemon \/ EofDaemon
  <2>1. /\ conn'[Tui] = conn[Tui] /\ sock'[Tui] = sock[Tui] /\ buf'[Tui] = buf[Tui]
        /\ UNCHANGED <<log, hist, shown>>
    BY <1>0, <1>7 DEF ReadDaemon, EofDaemon, mainVars, TInv, ConnT
  <2>. QED
    BY <1>1, <2>1, KeepStream
<1>. HIDE DEF SInv
<1>. QED
  BY <1>3, <1>4, <1>5, <1>6, <1>7, AcceptStream, DeliverStream, ReadTuiStream DEF Next, Main

LEMMA StreamIs == TInv /\ SInv => StreamContiguous
<1>. SUFFICES ASSUME TInv, SInv, conn[Tui] = "on"
              PROVE  Seen = LastN(PktOnly(log), Len(Seen))
  BY DEF StreamContiguous, Seen, Evs
<1>. QED
  BY SeenType, EndIsLastN DEF SInv, SeenEnd

\* Whatever the sizes of the buffers, and however its reads, the broadcasts,
\* restarts of the relay and its own reconnections interleave, what a TUI has
\* shown on a live connection and what it has not read yet are a contiguous
\* run of the packet events up to the last one the relay took.
THEOREM StreamHasNoGap == Spec => []StreamContiguous
<1>1. Init => SInv
  BY InitStream
<1>2. TInv /\ TInv' /\ SInv /\ [Next]_vars => SInv'
  BY NextStream
<1>. QED
  BY <1>1, <1>2, TypesInvariant, StreamIs, PTL DEF Spec
=============================================================================
