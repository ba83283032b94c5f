--------------------------- MODULE ConntrackProofs ---------------------------
(***************************************************************************)
(* Proofs about Conntrack.  For every set of CPUs, flows and packets, every *)
(* lag and whatever the daemon and evictions do, types are correct, no      *)
(* entry comes back that was closed, the connection counter agrees with its *)
(* book, and a SYN is dropped only when the book says so.                   *)
(***************************************************************************)
EXTENDS Conntrack, FiniteSetTheorems, TLAPS

\* What a job is like at each place of the program.
Place(j) ==
    /\ j.at = "idle" => j = NoJob
    /\ j.at # "idle" => j.flow \in Flow /\ j.kind \in Kinds
    /\ j.at \in {"check", "lookup"} => j.kind # "esyn"
    /\ j.at = "refresh" => j.saw # None /\ j.kind \in {"syn", "ack", "eack"}
    /\ j.at = "swap" => j.op \in Updates

\* The job has still to count, or to uncount, a connection.
Busy(j, op) == j.at = op \/ (j.at = "swap" /\ j.op = op)

Places == \A c \in Cpu : Place(cpu[c])

\* An element that is as it was looked up is still in the map, and half-open
\* if the packet is about to promote it.
Held == \A c \in Cpu : (At(c, "promote") /\ cpu[c].hold = "same") =>
          ent[cpu[c].flow] # None /\ ent[cpu[c].flow].pend

CoreType == MapType /\ JobType /\ DaemonType
Inv == CoreType /\ Places /\ Held

-----------------------------------------------------------------------------
(* Types. *)

LEMMA Constants ==
  /\ Oldest \in Nat /\ MaxLag \in Nat /\ MaxLag <= Oldest /\ TcpTimeout <= Oldest
  /\ TcpTimeout \in Nat /\ SynTimeout \in Nat /\ SynTimeout <= TcpTimeout /\ Refresh \in Nat
  /\ MaxCount \in Nat /\ MaxCount >= 1 /\ Retries \in Nat /\ Retries >= 1
  /\ MaxTime \in Nat /\ Limit \in Nat /\ Limit >= 1
  BY ConntrackAssumption DEF Oldest

\* Records of the maps.
LEMMA NewEntry ==
  ASSUME NEW p \in BOOLEAN, NEW a \in 0..MaxLag
  PROVE  [pend |-> p, age |-> a] \in Entry
<1>1. a \in 0..Oldest
  BY Constants
<1>. QED
  BY <1>1 DEF Entry

LEMMA NewWord ==
  ASSUME NEW n \in 0..MaxCount, NEW a \in 0..MaxLag
  PROVE  [n |-> n, age |-> a] \in Word
<1>1. a \in 0..Oldest
  BY Constants
<1>. QED
  BY <1>1 DEF Word

LEMMA OlderEntry ==
  ASSUME NEW e \in Entry \cup {None}
  PROVE  /\ Older(e) \in Entry \cup {None} /\ (e # None <=> Older(e) # None)
         /\ e # None => (Older(e).pend <=> e.pend)
<1>1. CASE e = None
  BY <1>1 DEF Older
<1>2. CASE e \in Entry
  <2>. DEFINE a == IF e.age < Oldest THEN e.age + 1 ELSE e.age
  <2>1. e # None
    BY <1>2, NoneAssumption
  <2>2. e.age \in 0..Oldest /\ e = [pend |-> e.pend, age |-> e.age] /\ e.pend \in BOOLEAN
    BY <1>2 DEF Entry
  <2>3. a \in 0..Oldest
    BY <2>2, Constants
  <2>4. Older(e) = [pend |-> e.pend, age |-> a]
    BY <2>1, <2>2 DEF Older
  <2>5. Older(e) \in Entry /\ Older(e).pend = e.pend
    BY <2>2, <2>3, <2>4 DEF Entry
  <2>. QED
    BY <2>1, <2>5, NoneAssumption
<1>. QED
  BY <1>1, <1>2

LEMMA OlderWord ==
  ASSUME NEW w \in Word \cup {None}
  PROVE  Older(w) \in Word \cup {None} /\ (w # None <=> Older(w) # None)
<1>1. CASE w = None
  BY <1>1 DEF Older
<1>2. CASE w \in Word
  <2>. DEFINE a == IF w.age < Oldest THEN w.age + 1 ELSE w.age
  <2>1. w # None
    BY <1>2, NoneAssumption
  <2>2. w.age \in 0..Oldest /\ w = [n |-> w.n, age |-> w.age] /\ w.n \in 0..MaxCount
    BY <1>2 DEF Word
  <2>3. a \in 0..Oldest
    BY <2>2, Constants
  <2>4. Older(w) = [n |-> w.n, age |-> a]
    BY <2>1, <2>2 DEF Older
  <2>5. Older(w) \in Word
    BY <2>2, <2>3, <2>4 DEF Word
  <2>. QED
    BY <2>1, <2>5, NoneAssumption
<1>. QED
  BY <1>1, <1>2

LEMMA NewCountType ==
  ASSUME NEW op \in Updates, NEW w \in Word, NEW late \in 0..MaxLag
  PROVE  NewCount(op, w, late) \in 0..MaxCount
<1>1. w.n \in 0..MaxCount
  BY DEF Word
<1>. HIDE DEF Word
<1>2. CASE op = "record"
  <2>1. NewCount(op, w, late) \in {1, w.n + 1, w.n}
        /\ (NewCount(op, w, late) = w.n + 1 /\ w.n + 1 # 1 => w.n < MaxCount)
    BY <1>2, <1>1 DEF NewCount
  <2>. QED
    BY <2>1, <1>1, Constants
<1>3. CASE op = "activity"
  BY <1>3, <1>1, Constants DEF NewCount
<1>4. CASE op = "close"
  BY <1>4, <1>1, Constants DEF NewCount
<1>. QED
  BY <1>2, <1>3, <1>4 DEF Updates

LEMMA NoJobType == NoJob \in Job /\ Place(NoJob)
  BY Constants DEF NoJob, Job, Step, Place, Updates

\* A job that moves to another place.
LEMMA MoveJob ==
  ASSUME NEW j \in Job, Place(j), j.at # "idle", NEW s \in Step,
         s \notin {"idle", "check", "lookup", "refresh", "swap"}
  PROVE  [j EXCEPT !.at = s] \in Job /\ Place([j EXCEPT !.at = s])
  BY DEF Job, Place

\* One CPU's job is replaced.
LEMMA SetJob ==
  ASSUME JobType, Places, NEW c \in Cpu, NEW j, j \in Job, Place(j),
         cpu' = [cpu EXCEPT ![c] = j]
  PROVE  JobType' /\ Places'
  BY DEF JobType, Places

\* An element is touched.
LEMMA TouchJobs ==
  ASSUME JobType, Places, NEW c \in Cpu, ~At(c, "idle"), NEW f,
         NEW what \in {"changed", "gone"}, NEW s \in Step,
         s \notin {"check", "lookup", "refresh", "swap"}, Touch(c, f, what, s)
  PROVE  JobType' /\ Places'
<1>1. ASSUME NEW d \in Cpu PROVE cpu'[d] \in Job /\ Place(cpu'[d])
  <2>1. cpu[d] \in Job /\ Place(cpu[d]) /\ cpu[c] \in Job /\ Place(cpu[c]) /\ cpu[c].at # "idle"
    BY DEF JobType, Places, At
  <2>2. CASE d = c /\ s = "idle"
    BY <2>2, NoJobType DEF Touch
  <2>3. CASE d = c /\ s # "idle"
    <3>1. cpu'[d] = [cpu[c] EXCEPT !.at = s]
      BY <2>3 DEF Touch
    <3>. QED
      BY <3>1, <2>1, <2>3, MoveJob
  <2>4. CASE d # c
    <3>1. cpu'[d] \in {cpu[d], [cpu[d] EXCEPT !.hold = what]}
          /\ (cpu'[d] # cpu[d] => cpu[d].hold = "same")
      BY <2>4 DEF Touch
    <3>2. CASE cpu'[d] = cpu[d]
      BY <3>2, <2>1
    <3>3. CASE cpu'[d] = [cpu[d] EXCEPT !.hold = what] /\ cpu[d].hold = "same"
      <4>1. cpu[d].at # "idle"
        BY <3>3, <2>1 DEF Place, NoJob
      <4>. QED
        BY <4>1, <3>3, <2>1 DEF Job, Place
    <3>. QED
      BY <3>1, <3>2, <3>3
  <2>. QED
    BY <2>2, <2>3, <2>4
<1>2. cpu' = [d \in Cpu |-> cpu'[d]]
  BY DEF Touch
<1>. QED
  BY <1>1, <1>2 DEF JobType, Places

LEMMA DetachJobs ==
  ASSUME JobType, Places, NEW f \in Flow, Detach(f)
  PROVE  JobType' /\ Places'
<1>1. ASSUME NEW d \in Cpu PROVE cpu'[d] \in Job /\ Place(cpu'[d])
  <2>1. cpu[d] \in Job /\ Place(cpu[d])
    BY DEF JobType, Places
  <2>2. CASE cpu[d].flow = f
    <3>1. cpu'[d] = [cpu[d] EXCEPT !.hold = "gone"]
      BY <2>2 DEF Detach
    <3>2. CASE cpu[d].at = "idle"
      BY <3>1, <3>2, <2>1 DEF Place, NoJob, Job
    <3>3. CASE cpu[d].at # "idle"
      BY <3>1, <3>3, <2>1 DEF Place, Job
    <3>. QED
      BY <3>2, <3>3
  <2>3. CASE cpu[d].flow # f
    BY <2>3, <2>1 DEF Detach
  <2>. QED
    BY <2>2, <2>3
<1>2. cpu' = [d \in Cpu |-> cpu'[d]]
  BY DEF Detach
<1>. QED
  BY <1>1, <1>2 DEF JobType, Places

\* Where a packet goes after the counter.
LEMMA CountedJobs ==
  ASSUME JobType, Places, NEW c \in Cpu, ~At(c, "idle"), NEW op, Counted(c, op)
  PROVE  JobType' /\ Places'
<1>1. cpu[c] \in Job /\ Place(cpu[c]) /\ cpu[c].at # "idle"
  BY DEF JobType, Places, At
<1>2. CASE op = "close" /\ cpu[c].kind = "syn"
  <2>. DEFINE j == [cpu[c] EXCEPT !.at = "insert", !.op = "none", !.seen = None, !.tries = 0]
  <2>1. j \in Job /\ Place(j)
    <3>1. 0 \in 0..Retries
      BY Constants
    <3>. QED
      BY <1>1, <3>1 DEF Job, Step, Place
  <2>2. cpu' = [cpu EXCEPT ![c] = j]
    BY <1>2 DEF Counted
  <2>. HIDE DEF j
  <2>. QED
    BY <2>1, <2>2, SetJob
<1>3. CASE ~(op = "close" /\ cpu[c].kind = "syn")
  BY <1>3, NoJobType, SetJob DEF Counted, Done
<1>. QED
  BY <1>2, <1>3

\* The lookup of a packet: where it goes depends on the entry.
LEMMA DecideStep ==
  ASSUME NEW k \in Kinds, NEW e \in Entry \cup {None}, NEW late
  PROVE  /\ Decide(k, e, late) \in {"insert", "idle", "delete", "promote", "refresh"}
         /\ Decide(k, e, late) \in {"delete", "promote", "refresh"} => e # None
         /\ Decide(k, e, late) = "insert" => e = None /\ k = "syn"
         /\ Decide(k, e, late) = "refresh" => k \notin {"fin", "erst"}
  BY DEF Decide

-----------------------------------------------------------------------------
(* The inductive invariant of the general case, action by action. *)

LEMMA InitInv ==
  Init => Inv
<1>. SUFFICES ASSUME Init PROVE Inv
  OBVIOUS
<1>1. MapType /\ DaemonType
  BY Constants DEF Init, MapType, DaemonType
<1>2. JobType /\ Places
  BY NoJobType DEF Init, JobType, Places
<1>3. Held
  BY DEF Init, Held, At, NoJob
<1>. QED
  BY <1>1, <1>2, <1>3 DEF Inv, CoreType

LEMMA BeginInv ==
  ASSUME Inv, NEW c \in Cpu, Begin(c)
  PROVE  Inv'
<1>1. PICK k \in Kinds, f \in Flow :
        cpu' = [cpu EXCEPT ![c] = [NoJob EXCEPT !.kind = k, !.flow = f,
                   !.at = CASE k = "syn"  -> "check"
                            [] k = "esyn" -> "establish"
                            [] OTHER      -> "lookup"]]
  BY DEF Begin
<1>. DEFINE s == CASE k = "syn" -> "check" [] k = "esyn" -> "establish" [] OTHER -> "lookup"
            j == [NoJob EXCEPT !.kind = k, !.flow = f, !.at = s]
<1>2. s \in {"check", "establish", "lookup"} /\ (s \in {"check", "lookup"} => k # "esyn")
  OBVIOUS
<1>. HIDE DEF s
<1>3. j \in Job /\ Place(j) /\ j.at = s
  BY <1>2, NoJobType DEF Job, Step, Place, NoJob
<1>4. cpu' = [cpu EXCEPT ![c] = j]
  BY <1>1 DEF s
<1>. HIDE DEF j
<1>5. JobType' /\ Places'
  BY <1>3, <1>4, SetJob DEF Inv, CoreType
<1>6. Held'
  BY <1>2, <1>3, <1>4 DEF Inv, CoreType, JobType, Held, At, Begin
<1>7. MapType' /\ DaemonType'
  BY DEF Begin, Inv, CoreType, MapType, DaemonType, daemonVars
<1>. QED
  BY <1>5, <1>6, <1>7 DEF Inv, CoreType

LEMMA CheckLimitInv ==
  ASSUME Inv, NEW c \in Cpu, CheckLimit(c)
  PROVE  Inv'
<1>. DEFINE j == [cpu[c] EXCEPT !.at = "lookup"]
<1>1. cpu[c] \in Job /\ Place(cpu[c]) /\ cpu[c].at = "check" /\ cpu \in [Cpu -> Job]
  BY DEF Inv, CoreType, JobType, Places, CheckLimit, At
<1>2. j \in Job /\ Place(j) /\ j.at = "lookup"
  BY <1>1 DEF Job, Step, Place
<1>3. cpu' = [cpu EXCEPT ![c] = NoJob] \/ cpu' = [cpu EXCEPT ![c] = j]
  BY DEF CheckLimit, Done, Goto
<1>. HIDE DEF j
<1>4. JobType' /\ Places'
  BY <1>2, <1>3, NoJobType, SetJob DEF Inv, CoreType
<1>5. Held'
  BY <1>1, <1>2, <1>3 DEF Inv, Held, At, CheckLimit, NoJob
<1>6. MapType' /\ DaemonType'
  BY DEF CheckLimit, Inv, CoreType, MapType, DaemonType, daemonVars
<1>. QED
  BY <1>4, <1>5, <1>6 DEF Inv, CoreType

LEMMA LookupInv ==
  ASSUME Inv, NEW c \in Cpu, Lookup(c)
  PROVE  Inv'
<1>. DEFINE e == ent[cpu[c].flow]
            s == Decide(cpu[c].kind, e, cpu[c].lag)
            j == [cpu[c] EXCEPT !.at = s, !.saw = e, !.hold = IF e = None THEN "gone" ELSE "same"]
<1>1. cpu[c] \in Job /\ Place(cpu[c]) /\ cpu[c].at = "lookup" /\ cpu \in [Cpu -> Job]
  BY DEF Inv, CoreType, JobType, Places, Lookup, At
<1>2. cpu[c].kind \in Kinds /\ cpu[c].kind # "esyn" /\ cpu[c].flow \in Flow
  BY <1>1 DEF Place
<1>3. e \in Entry \cup {None}
  BY <1>2 DEF Inv, CoreType, MapType
<1>4. /\ s \in {"insert", "idle", "delete", "promote", "refresh"}
      /\ s \in {"delete", "promote", "refresh"} => e # None
      /\ s = "refresh" => cpu[c].kind \in {"syn", "ack", "eack"}
  <2>1. Kinds \subseteq {"syn", "ack", "fin", "esyn", "eack", "erst"}
    BY ConntrackAssumption DEF Ingress, Egress
  <2>. QED
    BY <2>1, <1>2, <1>3, DecideStep
<1>10. s = "promote" => e.pend
  BY DEF Decide
<1>5. IF s = "idle" THEN cpu' = [cpu EXCEPT ![c] = NoJob] ELSE cpu' = [cpu EXCEPT ![c] = j]
  BY DEF Lookup, Done
<1>. HIDE DEF s, e
<1>6. ASSUME s # "idle"
      PROVE  j \in Job /\ Place(j) /\ j.at = s /\ j.flow = cpu[c].flow
  BY <1>1, <1>2, <1>3, <1>4, <1>6 DEF Job, Step, Place
<1>. HIDE DEF j
<1>7. JobType' /\ Places'
  BY <1>5, <1>6, NoJobType, SetJob DEF Inv, CoreType
<1>8. Held'
  <2>1. ASSUME NEW d \in Cpu, cpu'[d].at = "promote", cpu'[d].hold = "same"
        PROVE  ent[cpu'[d].flow] # None /\ ent[cpu'[d].flow].pend
    <3>1. CASE d # c
      <4>1. cpu'[d] = cpu[d]
        BY <3>1, <1>5, <1>1
      <4>. QED
        BY <4>1, <2>1 DEF Inv, Held, At
    <3>2. CASE d = c
      <4>1. cpu'[c] = IF s = "idle" THEN NoJob ELSE j
        BY <1>5, <1>1
      <4>2. s = "promote"
        BY <4>1, <1>6, <2>1, <3>2 DEF NoJob
      <4>3. cpu'[c].flow = cpu[c].flow
        BY <4>1, <4>2, <1>6
      <4>. QED
        BY <4>2, <4>3, <3>2, <1>4, <1>10 DEF e
    <3>. QED
      BY <3>1, <3>2
  <2>2. ent' = ent
    BY DEF Lookup
  <2>. QED
    BY <2>1, <2>2 DEF Held, At
<1>9. MapType' /\ DaemonType'
  BY DEF Lookup, Inv, CoreType, MapType, DaemonType, daemonVars
<1>. QED
  BY <1>7, <1>8, <1>9 DEF Inv, CoreType

\* Touching an element keeps Held: whoever held it sees that it is gone.
LEMMA TouchHeld ==
  ASSUME Inv, NEW c \in Cpu, NEW f \in Flow, NEW what \in {"changed", "gone"}, NEW s \in Step,
         s # "promote", Touch(c, f, what, s), \A g \in Flow \ {f} : ent'[g] = ent[g]
  PROVE  Held'
<1>1. ASSUME NEW d \in Cpu, cpu'[d].at = "promote", cpu'[d].hold = "same"
      PROVE  ent'[cpu'[d].flow] # None /\ ent'[cpu'[d].flow].pend
  <2>1. cpu[d] \in Job /\ Place(cpu[d]) /\ cpu[c] \in Job
    BY DEF Inv, CoreType, JobType, Places
  <2>2. d # c
    <3>1. ASSUME d = c PROVE FALSE
      <4>1. cpu'[d] = NoJob \/ cpu'[d] = [cpu[c] EXCEPT !.at = s]
        BY <3>1 DEF Touch
      <4>. QED
        BY <4>1, <1>1, <2>1 DEF NoJob, Job
    <3>. QED
      BY <3>1
  <2>3. cpu'[d] = IF cpu[d].flow = f /\ cpu[d].hold = "same" THEN [cpu[d] EXCEPT !.hold = what]
                  ELSE cpu[d]
    BY <2>2 DEF Touch
  <2>4. cpu'[d] = cpu[d] /\ cpu[d].flow # f
    BY <2>1, <2>3, <1>1 DEF Job
  <2>5. cpu[d].flow \in Flow
    BY <2>1, <2>4, <1>1 DEF Place
  <2>. QED
    BY <2>4, <2>5, <1>1 DEF Inv, Held, At
<1>. QED
  BY <1>1 DEF Held, At

LEMMA DetachHeld ==
  ASSUME Inv, NEW f \in Flow, Detach(f), \A g \in Flow \ {f} : ent'[g] = ent[g]
  PROVE  Held'
<1>1. ASSUME NEW d \in Cpu, cpu'[d].at = "promote", cpu'[d].hold = "same"
      PROVE  ent'[cpu'[d].flow] # None /\ ent'[cpu'[d].flow].pend
  <2>1. cpu[d] \in Job /\ Place(cpu[d])
    BY DEF Inv, CoreType, JobType, Places
  <2>3. cpu'[d] = IF cpu[d].flow = f THEN [cpu[d] EXCEPT !.hold = "gone"] ELSE cpu[d]
    BY DEF Detach
  <2>4. cpu'[d] = cpu[d] /\ cpu[d].flow # f
    BY <2>1, <2>3, <1>1 DEF Job
  <2>5. cpu[d].flow \in Flow
    BY <2>1, <2>4, <1>1 DEF Place
  <2>. QED
    BY <2>4, <2>5, <1>1 DEF Inv, Held, At
<1>. QED
  BY <1>1 DEF Held, At

\* Only the job of c changes, and it does not come to the promotion.
LEMMA SetHeld ==
  ASSUME Held, NEW c \in Cpu, UNCHANGED ent, cpu'[c].at # "promote",
         \A d \in Cpu \ {c} : cpu'[d] = cpu[d]
  PROVE  Held'
  BY DEF Held, At

\* The job of a CPU that is at some place.
LEMMA JobOf ==
  ASSUME Inv, NEW c \in Cpu, ~At(c, "idle")
  PROVE  /\ cpu[c] \in Job /\ Place(cpu[c]) /\ cpu[c].at # "idle" /\ cpu \in [Cpu -> Job]
         /\ cpu[c].flow \in Flow /\ cpu[c].kind \in Kinds /\ cpu[c].lag \in 0..MaxLag
         /\ ent \in [Flow -> Entry \cup {None}] /\ ent[cpu[c].flow] \in Entry \cup {None}
<1>1. cpu \in [Cpu -> Job] /\ cpu[c] \in Job /\ Place(cpu[c]) /\ cpu[c].at # "idle"
  BY DEF Inv, CoreType, JobType, Places, At
<1>2. cpu[c].flow \in Flow /\ cpu[c].kind \in Kinds
  BY <1>1 DEF Place
<1>3. cpu[c].lag \in 0..MaxLag
  BY <1>1 DEF Job
<1>. QED
  BY <1>1, <1>2, <1>3 DEF Inv, CoreType, MapType

LEMMA DeleteInv ==
  ASSUME Inv, NEW c \in Cpu, Delete(c)
  PROVE  Inv'
<1>1. ~At(c, "idle") /\ cpu[c].flow \in Flow /\ ent \in [Flow -> Entry \cup {None}]
  BY JobOf DEF Delete, At
<1>. DEFINE s == IF cpu[c].kind \in Ingress /\ ~cpu[c].saw.pend THEN "close"
                 ELSE IF cpu[c].kind = "syn" THEN "insert" ELSE "idle"
<1>2. Touch(c, cpu[c].flow, "gone", s) /\ ent' = [ent EXCEPT ![cpu[c].flow] = None]
  BY DEF Delete
<1>3. s \in {"close", "insert", "idle"}
  OBVIOUS
<1>. HIDE DEF s
<1>4. JobType' /\ Places'
  BY <1>1, <1>2, <1>3, TouchJobs DEF Inv, CoreType, Step
<1>5. Held'
  BY <1>1, <1>2, <1>3, TouchHeld DEF Step
<1>6. MapType' /\ DaemonType'
  BY <1>1, <1>2 DEF Delete, Inv, CoreType, MapType, DaemonType, daemonVars
<1>. QED
  BY <1>4, <1>5, <1>6 DEF Inv, CoreType

LEMMA PromoteInv ==
  ASSUME Inv, NEW c \in Cpu, Promote(c)
  PROVE  Inv'
<1>1. ~At(c, "idle") /\ cpu[c].flow \in Flow /\ ent \in [Flow -> Entry \cup {None}]
      /\ cpu[c].lag \in 0..MaxLag /\ cpu[c] \in Job /\ Place(cpu[c]) /\ cpu \in [Cpu -> Job]
      /\ cpu[c].at # "idle"
  BY JobOf DEF Promote, At
<1>2. cnt' = cnt /\ UNCHANGED daemonVars
  BY DEF Promote
<1>3. DaemonType'
  BY <1>2 DEF Inv, CoreType, DaemonType, daemonVars
<1>4. CASE /\ cpu[c].hold = "same"
           /\ ent' = [ent EXCEPT ![cpu[c].flow] = [pend |-> FALSE, age |-> cpu[c].lag]]
           /\ Touch(c, cpu[c].flow, "changed", "record")
  <2>1. JobType' /\ Places'
    BY <1>1, <1>4, TouchJobs DEF Inv, CoreType, Step
  <2>2. Held'
    BY <1>1, <1>4, TouchHeld DEF Step
  <2>3. [pend |-> FALSE, age |-> cpu[c].lag] \in Entry
    BY <1>1, NewEntry
  <2>4. MapType'
    BY <1>1, <1>2, <1>4, <2>3 DEF Inv, CoreType, MapType
  <2>. QED
    BY <1>3, <2>1, <2>2, <2>4 DEF Inv, CoreType
<1>5. CASE (Goto(c, "record") \/ Done(c)) /\ UNCHANGED ent
  <2>. DEFINE j == [cpu[c] EXCEPT !.at = "record"]
  <2>1. j \in Job /\ Place(j)
    BY <1>1, MoveJob DEF Step
  <2>0. j.at = "record"
    BY <1>1 DEF Job
  <2>2. cpu' = [cpu EXCEPT ![c] = j] \/ cpu' = [cpu EXCEPT ![c] = NoJob]
    BY <1>5 DEF Goto, Done
  <2>. HIDE DEF j
  <2>3. JobType' /\ Places'
    BY <2>1, <2>2, NoJobType, SetJob DEF Inv, CoreType
  <2>4. Held'
    BY <1>1, <1>5, <2>0, <2>2, SetHeld DEF Inv, NoJob
  <2>5. MapType'
    BY <1>2, <1>5 DEF Inv, CoreType, MapType
  <2>. QED
    BY <1>3, <2>3, <2>4, <2>5 DEF Inv, CoreType
<1>. QED
  BY <1>4, <1>5 DEF Promote

LEMMA RefreshInv ==
  ASSUME Inv, NEW c \in Cpu, RefreshEntry(c)
  PROVE  Inv'
<1>1. ~At(c, "idle") /\ cpu[c].flow \in Flow /\ ent \in [Flow -> Entry \cup {None}]
      /\ cpu[c].lag \in 0..MaxLag /\ cpu[c] \in Job /\ Place(cpu[c]) /\ cpu[c].at = "refresh"
      /\ ent[cpu[c].flow] \in Entry \cup {None}
  BY JobOf DEF RefreshEntry, At
<1>. DEFINE s == IF cpu[c].kind \in Ingress THEN "activity" ELSE "idle"
<1>2. Touch(c, cpu[c].flow, "gone", s)
  BY DEF RefreshEntry
<1>3. s \in {"activity", "idle"}
  OBVIOUS
<1>. HIDE DEF s
<1>4. ent' = ent \/ \E p \in BOOLEAN :
            ent' = [ent EXCEPT ![cpu[c].flow] = [pend |-> p, age |-> cpu[c].lag]]
  <2>1. CASE ent[cpu[c].flow] = None
    BY <2>1 DEF RefreshEntry
  <2>2. CASE ent[cpu[c].flow] # None
    <3>1. cpu[c].saw \in Entry /\ ent[cpu[c].flow] \in Entry
          /\ cpu[c].kind \in {"syn", "ack", "eack"}
      BY <2>2, <1>1 DEF Place, Job
    <3>2. cpu[c].saw.pend \in BOOLEAN /\ ent[cpu[c].flow].pend \in BOOLEAN
      BY <3>1 DEF Entry
    <3>3. PICK p \in {FALSE, cpu[c].saw.pend, ent[cpu[c].flow].pend} :
            ent' = [ent EXCEPT ![cpu[c].flow] = [pend |-> p, age |-> cpu[c].lag]]
      <4>1. CASE cpu[c].kind = "ack"
        BY <4>1, <2>2 DEF RefreshEntry
      <4>2. CASE cpu[c].kind = "syn"
        BY <4>2, <2>2 DEF RefreshEntry
      <4>3. CASE cpu[c].kind = "eack"
        BY <4>3, <2>2 DEF RefreshEntry
      <4>. QED
        BY <4>1, <4>2, <4>3, <3>1
    <3>. QED
      BY <3>2, <3>3
  <2>. QED
    BY <2>1, <2>2
<1>5. JobType' /\ Places'
  BY <1>1, <1>2, <1>3, TouchJobs DEF Inv, CoreType, Step
<1>6. Held'
  <2>1. \A g \in Flow \ {cpu[c].flow} : ent'[g] = ent[g]
    BY <1>1, <1>4
  <2>. QED
    BY <1>1, <1>2, <1>3, <2>1, TouchHeld DEF Step
<1>7. MapType'
  <2>1. ASSUME NEW p \in BOOLEAN
        PROVE  [ent EXCEPT ![cpu[c].flow] = [pend |-> p, age |-> cpu[c].lag]]
                 \in [Flow -> Entry \cup {None}]
    <3>1. [pend |-> p, age |-> cpu[c].lag] \in Entry
      BY <1>1, NewEntry
    <3>. QED
      BY <1>1, <3>1
  <2>2. ent' \in [Flow -> Entry \cup {None}]
    BY <1>1, <1>4, <2>1
  <2>. QED
    BY <2>2 DEF RefreshEntry, Inv, CoreType, MapType
<1>8. DaemonType'
  BY DEF RefreshEntry, Inv, CoreType, DaemonType, daemonVars
<1>. QED
  BY <1>5, <1>6, <1>7, <1>8 DEF Inv, CoreType

LEMMA InsertInv ==
  ASSUME Inv, NEW c \in Cpu, InsertEntry(c)
  PROVE  Inv'
<1>1. PICK s \in {"insert", "establish"} :
        /\ At(c, s)
        /\ ent' = [ent EXCEPT ![cpu[c].flow] = [pend |-> s = "insert", age |-> cpu[c].lag]]
  BY DEF InsertEntry
<1>2. ~At(c, "idle") /\ cpu[c].flow \in Flow /\ ent \in [Flow -> Entry \cup {None}]
      /\ cpu[c].lag \in 0..MaxLag
  BY <1>1, JobOf DEF At
<1>3. Touch(c, cpu[c].flow, "gone", "idle")
  BY DEF InsertEntry
<1>4. JobType' /\ Places'
  BY <1>2, <1>3, TouchJobs DEF Inv, CoreType, Step
<1>5. Held'
  BY <1>1, <1>2, <1>3, TouchHeld DEF Step
<1>6. [pend |-> s = "insert", age |-> cpu[c].lag] \in Entry
  BY <1>2, NewEntry
<1>7. MapType' /\ DaemonType'
  BY <1>1, <1>2, <1>6 DEF InsertEntry, Inv, CoreType, MapType, DaemonType, daemonVars
<1>. QED
  BY <1>4, <1>5, <1>7 DEF Inv, CoreType

LEMMA CountedHeld ==
  ASSUME Inv, NEW c \in Cpu, NEW op, ~At(c, "idle"), UNCHANGED ent, Counted(c, op)
  PROVE  Held'
<1>1. cpu \in [Cpu -> Job] /\ cpu[c] \in Job
  BY JobOf
<1>2. cpu'[c].at # "promote" /\ \A d \in Cpu \ {c} : cpu'[d] = cpu[d]
  BY <1>1 DEF Counted, Done, NoJob, Job
<1>. QED
  BY <1>2, SetHeld DEF Inv

LEMMA CountReadInv ==
  ASSUME Inv, NEW c \in Cpu, CountRead(c)
  PROVE  Inv'
<1>1. PICK op \in Updates :
         /\ At(c, op)
         /\ IF cnt = None
            THEN /\ Counted(c, op)
                 /\ cnt' = IF op = "record" THEN [n |-> 1, age |-> cpu[c].lag] ELSE None
            ELSE /\ cpu' = [cpu EXCEPT ![c].at = "swap", ![c].op = op, ![c].seen = cnt]
                 /\ UNCHANGED cnt
  BY DEF CountRead, Updates
<1>2. ~At(c, "idle") /\ cpu[c] \in Job /\ Place(cpu[c]) /\ cpu \in [Cpu -> Job]
      /\ cpu[c].lag \in 0..MaxLag /\ cpu[c].at # "idle"
  BY <1>1, JobOf DEF At, Updates
<1>3. UNCHANGED <<ent, daemonVars>>
  BY DEF CountRead
<1>4. DaemonType'
  BY <1>3 DEF Inv, CoreType, DaemonType, daemonVars
<1>5. CASE cnt = None
  <2>1. JobType' /\ Places' /\ Held'
    BY <1>1, <1>2, <1>3, <1>5, CountedJobs, CountedHeld DEF Inv, CoreType
  <2>2. 1 \in 0..MaxCount
    BY Constants
  <2>3. MapType'
    BY <1>1, <1>2, <1>3, <1>5, <2>2, NewWord DEF Inv, CoreType, MapType
  <2>. QED
    BY <1>4, <2>1, <2>3 DEF Inv, CoreType
<1>6. CASE cnt # None
  <2>. DEFINE j == [cpu[c] EXCEPT !.at = "swap", !.op = op, !.seen = cnt]
  <2>1. cnt \in Word \cup {None}
    BY DEF Inv, CoreType, MapType
  <2>2. j \in Job /\ Place(j) /\ j.at = "swap"
    BY <1>2, <1>6, <2>1 DEF Job, Step, Place, Updates
  <2>3. cpu' = [cpu EXCEPT ![c] = j] /\ cnt' = cnt
    BY <1>1, <1>6
  <2>. HIDE DEF j
  <2>4. JobType' /\ Places'
    BY <2>2, <2>3, SetJob DEF Inv, CoreType
  <2>5. Held'
    BY <1>2, <1>3, <2>2, <2>3, SetHeld DEF Inv
  <2>6. MapType'
    BY <1>3, <2>3 DEF Inv, CoreType, MapType
  <2>. QED
    BY <1>4, <2>4, <2>5, <2>6 DEF Inv, CoreType
<1>. QED
  BY <1>5, <1>6

LEMMA CountSwapInv ==
  ASSUME Inv, NEW c \in Cpu, CountSwap(c)
  PROVE  Inv'
<1>1. ~At(c, "idle") /\ cpu[c] \in Job /\ Place(cpu[c]) /\ cpu \in [Cpu -> Job]
      /\ cpu[c].lag \in 0..MaxLag /\ cpu[c].at = "swap"
  BY JobOf DEF CountSwap, At
<1>2. /\ cpu[c].seen \in Word \cup {None} /\ cpu[c].op \in Updates
      /\ cpu[c].tries \in 0..Retries
  BY <1>1 DEF Place, Job
<1>3. UNCHANGED <<ent, daemonVars>>
  BY DEF CountSwap
<1>4. DaemonType'
  BY <1>3 DEF Inv, CoreType, DaemonType, daemonVars
<1>7. CASE Counted(c, cpu[c].op) /\ UNCHANGED cnt
  <2>1. JobType' /\ Places' /\ Held'
    BY <1>1, <1>3, <1>7, CountedJobs, CountedHeld DEF Inv, CoreType
  <2>2. MapType'
    BY <1>3, <1>7 DEF Inv, CoreType, MapType
  <2>. QED
    BY <1>4, <2>1, <2>2 DEF Inv, CoreType
<1>5. CASE /\ cpu[c].seen # None /\ Counted(c, cpu[c].op)
           /\ \/ cnt' = [n |-> NewCount(cpu[c].op, cpu[c].seen, cpu[c].lag), age |-> cpu[c].lag]
              \/ FailClosed(cpu[c].lag)
  <2>1. JobType' /\ Places' /\ Held'
    BY <1>1, <1>3, <1>5, CountedJobs, CountedHeld DEF Inv, CoreType
  <2>2. MaxCount \in 0..MaxCount /\ NewCount(cpu[c].op, cpu[c].seen, cpu[c].lag) \in 0..MaxCount
    BY <1>1, <1>2, <1>5, Constants, NewCountType
  <2>3. cnt' \in Word
    BY <1>1, <1>5, <2>2, NewWord DEF FailClosed
  <2>4. MapType'
    BY <1>3, <2>3 DEF Inv, CoreType, MapType
  <2>. QED
    BY <1>4, <2>1, <2>4 DEF Inv, CoreType
<1>6. CASE /\ cpu[c].tries + 1 < Retries
           /\ cpu' = [cpu EXCEPT ![c].at = cpu[c].op, ![c].tries = @ + 1] /\ UNCHANGED cnt
  <2>. DEFINE j == [cpu[c] EXCEPT !.at = cpu[c].op, !.tries = cpu[c].tries + 1]
  <2>1. cpu[c].tries + 1 \in 0..Retries
    BY <1>2, <1>6, Constants
  <2>2. j \in Job /\ Place(j) /\ j.at \in Updates
    BY <1>1, <1>2, <2>1 DEF Job, Step, Place, Updates
  <2>3. cpu' = [cpu EXCEPT ![c] = j]
    BY <1>6
  <2>. HIDE DEF j
  <2>4. JobType' /\ Places'
    BY <2>2, <2>3, SetJob DEF Inv, CoreType
  <2>5. Held'
    BY <1>1, <1>3, <2>2, <2>3, SetHeld DEF Inv, Updates
  <2>6. MapType'
    BY <1>3, <1>6 DEF Inv, CoreType, MapType
  <2>. QED
    BY <1>4, <2>4, <2>5, <2>6 DEF Inv, CoreType
<1>. QED
  BY <1>5, <1>6, <1>7 DEF CountSwap

\* What the eviction of the counter does to the job of c.
LEMMA EvictJob ==
  ASSUME Inv, NEW c \in Cpu, EvictCount
  PROVE  /\ cpu'[c] \in Job /\ Place(cpu'[c]) /\ cpu[c] \in Job
         /\ \A op \in {"record", "close"} : Busy(cpu'[c], op) <=> Busy(cpu[c], op)
         /\ cpu'[c].at \in {cpu[c].at, "swap"} /\ (cpu[c].at \in {"check", "idle", "promote"} => cpu'[c] = cpu[c])
         /\ cpu'[c].at = "promote" => cpu'[c] = cpu[c]
<1>1. cpu[c] \in Job /\ Place(cpu[c])
  BY DEF Inv, CoreType, JobType, Places
<1>2. CASE ~(At(c, "swap") \/ (cpu[c].at \in Updates /\ cpu[c].tries > 0))
  BY <1>1, <1>2 DEF EvictCount
<1>3. CASE At(c, "swap") \/ (cpu[c].at \in Updates /\ cpu[c].tries > 0)
  <2>1. PICK x : x = IF At(c, "swap") THEN cpu[c].op ELSE cpu[c].at
    OBVIOUS
  <2>2. x \in Updates /\ (cpu[c].at = "swap" => x = cpu[c].op) /\ (cpu[c].at # "swap" => x = cpu[c].at)
    BY <1>1, <1>3, <2>1 DEF At, Place
  <2>3. cpu'[c] = [cpu[c] EXCEPT !.at = "swap", !.op = x, !.seen = None]
    BY <1>3, <2>1 DEF EvictCount
  <2>4. cpu'[c] \in Job /\ cpu'[c].at = "swap" /\ cpu'[c].op = x
        /\ cpu'[c].flow = cpu[c].flow /\ cpu'[c].kind = cpu[c].kind
    BY <1>1, <2>2, <2>3 DEF Job, Step
  <2>5. cpu[c].at \in {"swap", "record", "activity", "close"}
    BY <1>3 DEF At, Updates
  <2>6. Place(cpu'[c])
    BY <1>1, <2>2, <2>4, <2>5 DEF Place
  <2>7. \A op \in {"record", "close"} : Busy(cpu'[c], op) <=> Busy(cpu[c], op)
    BY <2>2, <2>4, <2>5 DEF Busy, Updates
  <2>. QED
    BY <1>1, <2>4, <2>5, <2>6, <2>7
<1>. QED
  BY <1>2, <1>3

LEMMA EvictCountInv ==
  ASSUME Inv, EvictCount
  PROVE  Inv'
<1>1. UNCHANGED ent /\ cnt' = None /\ cpu' = [c \in Cpu |-> cpu'[c]]
  BY DEF EvictCount
<1>2. \A c \in Cpu : cpu'[c] \in Job /\ Place(cpu'[c]) /\ (cpu'[c].at = "promote" => cpu'[c] = cpu[c])
  BY EvictJob
<1>3. JobType' /\ Places'
  BY <1>1, <1>2 DEF JobType, Places
<1>4. Held'
  BY <1>1, <1>2 DEF Inv, Held, At
<1>5. MapType' /\ DaemonType'
  BY <1>1 DEF EvictCount, Inv, CoreType, MapType, DaemonType, daemonVars
<1>. QED
  BY <1>3, <1>4, <1>5 DEF Inv, CoreType

LEMMA DaemonInv ==
  ASSUME Inv, GcScan \/ GcDelete \/ SeedScan \/ SeedSet \/ Evict
  PROVE  Inv'
<1>1. CASE GcScan \/ SeedScan
  <2>1. UNCHANGED <<ent, cnt, cpu, time>> /\ toDelete' \subseteq Flow /\ toSeed' \subseteq Flow
    BY <1>1 DEF GcScan, SeedScan, Inv, CoreType, DaemonType
  <2>2. MapType' /\ JobType' /\ DaemonType'
    BY <2>1 DEF Inv, CoreType, MapType, JobType, DaemonType
  <2>3. Places' /\ Held'
    BY <2>1 DEF Inv, Places, Held, At
  <2>. QED
    BY <2>2, <2>3 DEF Inv, CoreType
<1>2. CASE GcDelete \/ SeedSet \/ Evict
  <2>1. PICK f \in Flow, e \in Entry \cup {None} : ent' = [ent EXCEPT ![f] = e] /\ Detach(f)
    <3>1. [pend |-> FALSE, age |-> 0] \in Entry
      <4>1. 0 \in 0..MaxLag
        BY Constants
      <4>. QED
        BY <4>1, NewEntry
    <3>. QED
      BY <3>1, <1>2 DEF GcDelete, SeedSet, Evict, Inv, CoreType, DaemonType
  <2>2. cnt' = cnt /\ DaemonType'
    BY <1>2 DEF GcDelete, SeedSet, Evict, daemonVars, Inv, CoreType, DaemonType
  <2>3. JobType' /\ Places'
    BY <2>1, DetachJobs DEF Inv, CoreType
  <2>4. Held'
    BY <2>1, DetachHeld DEF Inv, CoreType, MapType
  <2>5. MapType'
    BY <2>1, <2>2 DEF Inv, CoreType, MapType
  <2>. QED
    BY <2>2, <2>3, <2>4, <2>5 DEF Inv, CoreType
<1>. QED
  BY <1>1, <1>2

LEMMA ElapseInv ==
  ASSUME Inv, Elapse
  PROVE  Inv'
<1>1. ASSUME NEW c \in Cpu
      PROVE  cpu'[c] \in Job /\ Place(cpu'[c])
             /\ (cpu[c].at # "idle" => cpu'[c].flow = cpu[c].flow /\ cpu'[c].at = cpu[c].at
                                       /\ cpu'[c].hold = cpu[c].hold)
  <2>1. CASE At(c, "idle")
    BY <2>1, NoJobType DEF Elapse, At
  <2>2. CASE ~At(c, "idle")
    <3>1. cpu[c] \in Job /\ Place(cpu[c]) /\ cpu[c].at # "idle" /\ cpu[c].lag \in 0..MaxLag
      BY <2>2, JobOf
    <3>2. cpu[c].saw \in Entry \cup {None} /\ cpu[c].seen \in Word \cup {None}
      BY <3>1 DEF Job
    <3>3. cpu[c].lag + 1 \in 0..MaxLag
      <4>1. cpu[c].lag < MaxLag
        BY <2>2 DEF Elapse
      <4>. QED
        BY <3>1, <4>1, Constants
    <3>4. cpu'[c] = [cpu[c] EXCEPT !.lag = cpu[c].lag + 1, !.saw = Older(cpu[c].saw),
                                   !.seen = Older(cpu[c].seen)]
      BY <2>2 DEF Elapse
    <3>5. /\ Older(cpu[c].saw) \in Entry \cup {None}
          /\ (cpu[c].saw # None => Older(cpu[c].saw) # None)
          /\ Older(cpu[c].seen) \in Word \cup {None}
          /\ (cpu[c].seen # None => Older(cpu[c].seen) # None)
      BY <3>2, OlderEntry, OlderWord
    <3>6. cpu'[c] \in Job /\ cpu'[c].at = cpu[c].at /\ cpu'[c].flow = cpu[c].flow
          /\ cpu'[c].hold = cpu[c].hold /\ cpu'[c].kind = cpu[c].kind /\ cpu'[c].op = cpu[c].op
          /\ cpu'[c].saw = Older(cpu[c].saw) /\ cpu'[c].seen = Older(cpu[c].seen)
      BY <3>1, <3>3, <3>4, <3>5 DEF Job
    <3>7. Place(cpu'[c])
      BY <3>1, <3>5, <3>6 DEF Place
    <3>. QED
      BY <3>6, <3>7
  <2>. QED
    BY <2>1, <2>2
<1>2. JobType' /\ Places'
  <2>1. cpu' = [c \in Cpu |-> cpu'[c]]
    BY DEF Elapse
  <2>. QED
    BY <1>1, <2>1 DEF JobType, Places
<1>3. ent' = [f \in Flow |-> Older(ent[f])] /\ cnt' = Older(cnt)
  BY DEF Elapse
<1>4. MapType'
  BY <1>3, OlderEntry, OlderWord DEF Inv, CoreType, MapType
<1>5. Held'
  <2>1. ASSUME NEW c \in Cpu, cpu'[c].at = "promote", cpu'[c].hold = "same"
        PROVE  ent'[cpu'[c].flow] # None /\ ent'[cpu'[c].flow].pend
    <3>1. cpu[c].at # "idle"
      BY <2>1 DEF Elapse, At, NoJob
    <3>2. cpu[c].at = "promote" /\ cpu[c].hold = "same" /\ cpu'[c].flow = cpu[c].flow
      BY <3>1, <1>1, <2>1
    <3>3. cpu[c].flow \in Flow /\ ent[cpu[c].flow] \in Entry \cup {None}
      BY <3>1, JobOf DEF At
    <3>4. ent[cpu[c].flow] # None /\ ent[cpu[c].flow].pend
      BY <3>2 DEF Inv, Held, At
    <3>. QED
      BY <1>3, <3>2, <3>3, <3>4, OlderEntry
  <2>. QED
    BY <2>1 DEF Held, At
<1>6. DaemonType'
  <2>0. time \in 0..MaxTime /\ time < MaxTime /\ time' = time + 1
    BY DEF Elapse, Inv, CoreType, DaemonType
  <2>1. time \in Nat /\ time < MaxTime /\ time' = time + 1
    BY <2>0, Constants
  <2>2. time' \in 0..MaxTime
    BY <2>1, Constants
  <2>. QED
    BY <2>2 DEF Elapse, Inv, CoreType, DaemonType
<1>. QED
  BY <1>2, <1>4, <1>5, <1>6 DEF Inv, CoreType

LEMMA StepInv ==
  Inv /\ [Next]_vars => Inv'
<1>. SUFFICES ASSUME Inv, [Next]_vars PROVE Inv'
  OBVIOUS
<1>1. ASSUME NEW c \in Cpu, Packet(c) PROVE Inv'
  BY <1>1, BeginInv, CheckLimitInv, LookupInv, DeleteInv, PromoteInv, RefreshInv, InsertInv,
     CountReadInv, CountSwapInv DEF Packet
<1>2. CASE UNCHANGED vars
  <2>1. CoreType'
    BY <1>2 DEF vars, Inv, CoreType, MapType, JobType, DaemonType
  <2>2. Places' /\ Held'
    BY <1>2 DEF vars, Inv, Places, Held, At
  <2>. QED
    BY <2>1, <2>2 DEF Inv
<1>. QED
  BY <1>1, <1>2, DaemonInv, EvictCountInv, ElapseInv DEF Next

LEMMA SpecInv ==
  Spec => []Inv
<1>. QED
  BY InitInv, StepInv, PTL DEF Spec

-----------------------------------------------------------------------------
(* No entry comes back. *)

LEMMA StepNoResurrection ==
  ASSUME Inv, Next, NEW f \in Flow, ent[f] = None, ent'[f] # None
  PROVE  \/ f \in toSeed \ toSeed'
         \/ \E c \in Cpu : cpu[c].flow = f /\ cpu[c].at \in {"insert", "establish"}
<1>0. ent \in [Flow -> Entry \cup {None}]
  BY DEF Inv, CoreType, MapType
<1>1. ASSUME NEW c \in Cpu, Packet(c)
      PROVE  cpu[c].flow = f /\ cpu[c].at \in {"insert", "establish"}
  <2>1. ~(Begin(c) \/ CheckLimit(c) \/ Lookup(c) \/ CountRead(c) \/ CountSwap(c))
    BY DEF Begin, CheckLimit, Lookup, CountRead, CountSwap
  <2>2. ~Delete(c)
    BY <1>0 DEF Delete
  <2>3. ~Promote(c)
    <3>1. ASSUME Promote(c) PROVE FALSE
      <4>1. cpu[c].hold = "same" /\ cpu[c].flow = f
        BY <1>0, <3>1 DEF Promote
      <4>. QED
        BY <4>1, <3>1 DEF Inv, Held, Promote
    <3>. QED
      BY <3>1
  <2>4. ~RefreshEntry(c)
    BY <1>0 DEF RefreshEntry
  <2>5. InsertEntry(c)
    BY <1>1, <2>1, <2>2, <2>3, <2>4 DEF Packet
  <2>. QED
    BY <1>0, <2>5 DEF InsertEntry, At
<1>2. ~(GcScan \/ SeedScan)
  BY DEF GcScan, SeedScan
<1>3. ~GcDelete /\ ~Evict /\ ~EvictCount
  BY <1>0 DEF GcDelete, Evict, EvictCount
<1>4. ASSUME SeedSet PROVE f \in toSeed \ toSeed'
  BY <1>0, <1>4 DEF SeedSet
<1>5. ~Elapse
  BY <1>0, OlderEntry DEF Elapse
<1>. QED
  BY <1>1, <1>2, <1>3, <1>4, <1>5 DEF Next

\* A packet that had looked an entry up never brings it back after it was closed,
\* collected or evicted: for any CPUs, flows and delays, only a SYN, an outgoing SYN or
\* a seed of the daemon makes an entry.
THEOREM NoneComesBack ==
  Spec => NoResurrection
<1>1. Inv /\ [Next]_vars =>
        [\A f \in Flow : (ent[f] = None /\ ent'[f] # None) =>
           \/ f \in toSeed \ toSeed'
           \/ \E c \in Cpu : cpu[c].flow = f /\ cpu[c].at \in {"insert", "establish"}]_vars
  BY StepNoResurrection
<1>. QED
  BY <1>1, SpecInv, PTL DEF Spec, NoResurrection
-----------------------------------------------------------------------------
(* The book. *)

\* An update of an evicted counter is under way only while the book is closed.
Orphaned == \A c \in Cpu :
    (At(c, "swap") /\ cpu[c].seen = None /\ cpu[c].op # "activity") => spoilt

\* A counter that left the book has an empty one.
BookInv == BookType /\ CountExact /\ (spoilt => booked = {})

LEMMA UnderDef ==
  ASSUME NEW op
  PROVE  Under(op) = {c \in Cpu : Busy(cpu[c], op)} /\ IsFiniteSet(Under(op))
<1>1. Under(op) = {c \in Cpu : Busy(cpu[c], op)}
  BY DEF Under, Busy, At
<1>2. Under(op) \subseteq Cpu
  BY <1>1
<1>. QED
  BY <1>1, <1>2, ConntrackAssumption, FS_Subset

\* How the number of updates under way changes when only c's job does.
LEMMA UnderMove ==
  ASSUME NEW op, NEW c \in Cpu, \A d \in Cpu \ {c} : Busy(cpu'[d], op) <=> Busy(cpu[d], op)
  PROVE  /\ Cardinality(Under(op)) \in Nat /\ Cardinality(Under(op))' \in Nat
         /\ (Busy(cpu'[c], op) <=> Busy(cpu[c], op)) =>
              Cardinality(Under(op))' = Cardinality(Under(op)) /\ Under(op)' = Under(op)
         /\ Busy(cpu'[c], op) /\ ~Busy(cpu[c], op) =>
              Cardinality(Under(op))' = Cardinality(Under(op)) + 1
         /\ ~Busy(cpu'[c], op) /\ Busy(cpu[c], op) =>
              Cardinality(Under(op)) = Cardinality(Under(op))' + 1
<1>1. PICK A : A = Under(op)
  OBVIOUS
<1>2. PICK B : B = Under(op)'
  OBVIOUS
<1>3. A = {d \in Cpu : Busy(cpu[d], op)} /\ IsFiniteSet(A)
  BY <1>1, UnderDef
<1>4. B = {d \in Cpu : Busy(cpu'[d], op)}
  BY <1>2 DEF Under, Busy, At
<1>5. IsFiniteSet(B)
  <2>1. B \subseteq Cpu
    BY <1>4
  <2>. QED
    BY <2>1, ConntrackAssumption, FS_Subset
<1>6. Cardinality(A) \in Nat /\ Cardinality(B) \in Nat
  BY <1>3, <1>5, FS_CardinalityType
<1>7. (Busy(cpu'[c], op) <=> Busy(cpu[c], op)) => A = B
  BY <1>3, <1>4
<1>8. ASSUME Busy(cpu'[c], op), ~Busy(cpu[c], op) PROVE Cardinality(B) = Cardinality(A) + 1
  <2>1. B = A \cup {c} /\ c \notin A
    BY <1>3, <1>4, <1>8
  <2>. QED
    BY <2>1, <1>3, FS_AddElement
<1>9. ASSUME ~Busy(cpu'[c], op), Busy(cpu[c], op) PROVE Cardinality(A) = Cardinality(B) + 1
  <2>1. A = B \cup {c} /\ c \notin B
    BY <1>3, <1>4, <1>9
  <2>. QED
    BY <2>1, <1>5, FS_AddElement
<1>. QED
  BY <1>1, <1>2, <1>6, <1>7, <1>8, <1>9

\* Nobody's updates change.
LEMMA UnderSame ==
  ASSUME NEW op, \A d \in Cpu : Busy(cpu'[d], op) <=> Busy(cpu[d], op)
  PROVE  Under(op)' = Under(op) /\ Cardinality(Under(op))' = Cardinality(Under(op))
<1>1. Under(op)' = {d \in Cpu : Busy(cpu'[d], op)}
  BY DEF Under, Busy, At
<1>2. Under(op)' = Under(op)
  BY <1>1, UnderDef
<1>. QED
  BY <1>2

LEMMA Finite ==
  ASSUME BookType
  PROVE  /\ IsFiniteSet(booked) /\ Cardinality(booked) \in Nat /\ Due \in Nat
         /\ booked \subseteq Flow /\ lost \in Nat
<1>1. booked \subseteq Flow
  BY DEF BookType, Est
<1>2. IsFiniteSet(booked)
  BY <1>1, ConntrackAssumption, FS_Subset
<1>3. Cardinality(booked) \in Nat
  BY <1>2, FS_CardinalityType
<1>. QED
  BY <1>1, <1>2, <1>3 DEF BookType, Due

LEMMA CountType ==
  ASSUME MapType
  PROVE  Count \in Nat /\ (cnt = None => Count = 0) /\ (cnt # None => Count = cnt.n /\ cnt \in Word)
  BY Constants DEF MapType, Count, Word

LEMMA SpoilInv ==
  ASSUME Spoil
  PROVE  BookInv'
  BY DEF Spoil, BookInv, BookType, CountExact

\* Nothing is booked and no entry changes.
LEMMA SameBook ==
  ASSUME BookInv, UNCHANGED <<ent, booked, lost, spoilt>>
  PROVE  BookType' /\ Due' = Due /\ (spoilt' => booked' = {})
  BY DEF BookInv, BookType, Est, Due

\* Booking the flows B, whatever becomes of their entries.
LEMMA BookDue ==
  ASSUME BookInv, NEW B, B \subseteq Flow, Book(B)
  PROVE  /\ BookType' /\ (spoilt' => booked' = {}) /\ spoilt' = spoilt
         /\ ~spoilt => Due' = Cardinality(B) + lost
<1>1. CASE spoilt
  BY <1>1 DEF BookInv, BookType, Book, bookVars
<1>2. CASE ~spoilt
  <2>1. PICK E : E = Est'
    OBVIOUS
  <2>2. booked' = B \cap E /\ lost' = lost + Cardinality(B \ E) /\ spoilt' = spoilt
    BY <1>2, <2>1 DEF Book
  <2>3. IsFiniteSet(B) /\ IsFiniteSet(B \cap E) /\ IsFiniteSet(B \ E)
    <3>1. B \cap E \subseteq Flow /\ B \ E \subseteq Flow
      OBVIOUS
    <3>. QED
      BY <3>1, ConntrackAssumption, FS_Subset
  <2>4. Cardinality(B) = Cardinality(B \cap E) + Cardinality(B \ E)
        /\ Cardinality(B \cap E) \in Nat /\ Cardinality(B \ E) \in Nat
    <3>1. Cardinality(B \cap E) \in Nat /\ Cardinality(B \ E) \in Nat
      BY <2>3, FS_CardinalityType
    <3>2. B = (B \cap E) \cup (B \ E) /\ (B \cap E) \cap (B \ E) = {}
      OBVIOUS
    <3>3. Cardinality(B) = Cardinality(B \cap E) + Cardinality(B \ E) - Cardinality({})
      BY <2>3, <3>2, FS_Union
    <3>. QED
      BY <3>1, <3>3, FS_EmptySet
  <2>5. BookType'
    BY <2>1, <2>2, <2>4 DEF BookInv, BookType
  <2>6. Due' = Cardinality(B) + lost
    <3>1. Due' = Cardinality(B \cap E) + (lost + Cardinality(B \ E))
      BY <2>2 DEF Due
    <3>2. lost \in Nat
      BY DEF BookInv, BookType
    <3>. QED
      BY <3>1, <3>2, <2>4
  <2>. QED
    BY <1>2, <2>2, <2>5, <2>6
<1>. QED
  BY <1>1, <1>2 DEF BookInv, BookType

\* An entry is changed and booked no more than before: the sum does not change.
LEMMA KeepBook ==
  ASSUME Inv, BookInv, Book(booked), UNCHANGED cnt,
         \A d \in Cpu : \A op \in {"record", "close"} : Busy(cpu'[d], op) <=> Busy(cpu[d], op)
  PROVE  BookInv'
<1>1. booked \subseteq Flow
  BY Finite DEF BookInv
<1>2. BookType' /\ (spoilt' => booked' = {}) /\ spoilt' = spoilt /\ (~spoilt => Due' = Due)
  BY <1>1, BookDue DEF Due
<1>3. Cardinality(Under("record"))' = Cardinality(Under("record"))
      /\ Cardinality(Under("close"))' = Cardinality(Under("close"))
  BY UnderSame
<1>4. Count' = Count
  BY DEF Count
<1>5. CountExact'
  BY <1>2, <1>3, <1>4 DEF BookInv, CountExact
<1>. QED
  BY <1>2, <1>5 DEF BookInv

\* Neither an entry, nor the counter, nor an update under way changes.
LEMMA KeepAll ==
  ASSUME BookInv, UNCHANGED <<ent, booked, lost, spoilt>>, Count' = Count,
         \A d \in Cpu : \A op \in {"record", "close"} : Busy(cpu'[d], op) <=> Busy(cpu[d], op)
  PROVE  BookInv'
<1>1. BookType' /\ Due' = Due /\ (spoilt' => booked' = {})
  BY SameBook
<1>2. Cardinality(Under("record"))' = Cardinality(Under("record"))
      /\ Cardinality(Under("close"))' = Cardinality(Under("close"))
  BY UnderSame
<1>3. CountExact'
  BY <1>1, <1>2 DEF BookInv, CountExact
<1>. QED
  BY <1>1, <1>3 DEF BookInv


\* Touching an element changes nobody's updates but c's.
LEMMA TouchBusy ==
  ASSUME Inv, NEW c \in Cpu, ~At(c, "idle"), NEW f, NEW what, NEW s \in Step, Touch(c, f, what, s)
  PROVE  /\ cpu'[c].at = s
         /\ \A d \in Cpu \ {c} : \A op : Busy(cpu'[d], op) <=> Busy(cpu[d], op)
<1>1. cpu[c] \in Job
  BY JobOf
<1>2. cpu'[c].at = s
  BY <1>1 DEF Touch, Job, NoJob
<1>3. ASSUME NEW d \in Cpu, d # c PROVE cpu'[d].at = cpu[d].at /\ cpu'[d].op = cpu[d].op
  <2>1. cpu[d] \in Job
    BY DEF Inv, CoreType, JobType
  <2>2. cpu'[d] = cpu[d] \/ cpu'[d] = [cpu[d] EXCEPT !.hold = what]
    BY <1>3 DEF Touch
  <2>. QED
    BY <2>1, <2>2 DEF Job
<1>. QED
  BY <1>2, <1>3 DEF Busy

LEMMA DetachBusy ==
  ASSUME Inv, NEW f, Detach(f)
  PROVE  \A d \in Cpu : \A op : Busy(cpu'[d], op) <=> Busy(cpu[d], op)
<1>1. ASSUME NEW d \in Cpu PROVE cpu'[d].at = cpu[d].at /\ cpu'[d].op = cpu[d].op
  <2>1. cpu[d] \in Job
    BY DEF Inv, CoreType, JobType
  <2>2. cpu'[d] = cpu[d] \/ cpu'[d] = [cpu[d] EXCEPT !.hold = "gone"]
    BY DEF Detach
  <2>. QED
    BY <2>1, <2>2 DEF Job
<1>. QED
  BY <1>1 DEF Busy

\* Before the maps are changed.
LEMMA ReadJob ==
  ASSUME Inv, NEW c \in Cpu, Begin(c) \/ CheckLimit(c) \/ Lookup(c)
  PROVE  /\ cpu[c].at \in {"idle", "check", "lookup"}
         /\ cpu'[c].at \notin {"record", "close", "swap"}
         /\ \A d \in Cpu \ {c} : cpu'[d] = cpu[d]
<1>2. \A d \in Cpu \ {c} : cpu'[d] = cpu[d]
  <2>1. cpu \in [Cpu -> Job]
    BY DEF Inv, CoreType, JobType
  <2>2. \E j : cpu' = [cpu EXCEPT ![c] = j]
    BY DEF Begin, CheckLimit, Lookup, Done, Goto
  <2>. QED
    BY <2>1, <2>2
<1>3. cpu[c].at \in {"idle", "check", "lookup"} /\ cpu \in [Cpu -> Job] /\ cpu[c] \in Job
  BY DEF Begin, CheckLimit, Lookup, At, Inv, CoreType, JobType
<1>4. cpu'[c].at \notin {"record", "close", "swap"}
  <2>1. CASE Begin(c)
    <3>1. PICK k \in Kinds, f \in Flow :
            cpu'[c] = [NoJob EXCEPT !.kind = k, !.flow = f,
                         !.at = CASE k = "syn"  -> "check"
                                  [] k = "esyn" -> "establish"
                                  [] OTHER      -> "lookup"]
      BY <2>1, <1>3 DEF Begin
    <3>2. cpu'[c].at \in {"check", "establish", "lookup"}
      BY <3>1 DEF NoJob
    <3>. QED
      BY <3>2
  <2>2. CASE CheckLimit(c)
    <3>1. cpu'[c] = NoJob \/ cpu'[c] = [cpu[c] EXCEPT !.at = "lookup"]
      BY <2>2, <1>3 DEF CheckLimit, Done, Goto
    <3>. QED
      BY <3>1, <1>3 DEF NoJob, Job
  <2>3. CASE Lookup(c)
    <3>1. PICK s : s = Decide(cpu[c].kind, ent[cpu[c].flow], cpu[c].lag)
      OBVIOUS
    <3>2. s \in {"insert", "idle", "delete", "promote", "refresh"}
      BY <3>1 DEF Decide
    <3>3. cpu'[c] = NoJob \/ cpu'[c].at = s
      <4>1. cpu' = [cpu EXCEPT ![c] = NoJob] \/ \E e, h :
              cpu' = [cpu EXCEPT ![c] = [cpu[c] EXCEPT !.at = s, !.saw = e, !.hold = h]]
        BY <2>3, <3>1 DEF Lookup, Done
      <4>. QED
        BY <4>1, <1>3 DEF Job
    <3>. QED
      BY <3>2, <3>3 DEF NoJob
  <2>. QED
    BY <2>1, <2>2, <2>3
<1>. QED
  BY <1>2, <1>3, <1>4

LEMMA ReadBook ==
  ASSUME Inv, BookInv, NEW c \in Cpu, Begin(c) \/ CheckLimit(c) \/ Lookup(c)
  PROVE  BookInv'
<1>1. UNCHANGED <<ent, cnt, booked, lost, spoilt>>
  BY DEF Begin, CheckLimit, Lookup, bookVars
<1>5. \A d \in Cpu : \A op \in {"record", "close"} : Busy(cpu'[d], op) <=> Busy(cpu[d], op)
  BY ReadJob DEF Busy
<1>6. Count' = Count
  BY <1>1 DEF Count
<1>. QED
  BY <1>1, <1>5, <1>6, KeepAll

\* An ingress packet that deletes an entry it saw established owes an uncount.
LEMMA DeleteBook ==
  ASSUME Inv, BookInv, NEW c \in Cpu, Delete(c)
  PROVE  BookInv'
<1>. DEFINE f == cpu[c].flow
            closes == cpu[c].kind \in Ingress /\ ~cpu[c].saw.pend
            s == IF closes THEN "close" ELSE IF cpu[c].kind = "syn" THEN "insert" ELSE "idle"
<1>1. ~At(c, "idle") /\ f \in Flow /\ ent \in [Flow -> Entry \cup {None}] /\ cpu[c].at = "delete"
  BY JobOf DEF Delete, At
<1>2. /\ ent' = [ent EXCEPT ![f] = None] /\ Touch(c, f, "gone", s) /\ cnt' = cnt
      /\ IF closes THEN Uncount(f) ELSE Book(booked)
  BY DEF Delete
<1>3. s \in {"close", "insert", "idle"} /\ (s = "close" <=> closes)
  OBVIOUS
<1>. HIDE DEF s, closes
<1>4. cpu'[c].at = s /\ \A d \in Cpu \ {c} : \A op : Busy(cpu'[d], op) <=> Busy(cpu[d], op)
  BY <1>1, <1>2, <1>3, TouchBusy DEF Step
<1>5. CASE ~closes
  <2>1. \A d \in Cpu : \A op \in {"record", "close"} : Busy(cpu'[d], op) <=> Busy(cpu[d], op)
    BY <1>1, <1>3, <1>4, <1>5 DEF Busy
  <2>. QED
    BY <1>2, <1>5, <2>1, KeepBook
<1>6. CASE closes /\ f \notin booked
  BY <1>2, <1>6, SpoilInv DEF Uncount
<1>7. CASE closes /\ f \in booked
  <2>1. Book(booked \ {f})
    BY <1>2, <1>7 DEF Uncount
  <2>2. /\ IsFiniteSet(booked) /\ Cardinality(booked) \in Nat /\ Due \in Nat
        /\ booked \subseteq Flow /\ lost \in Nat
    BY Finite DEF BookInv
  <2>3. BookType' /\ (spoilt' => booked' = {}) /\ spoilt' = spoilt
        /\ (~spoilt => Due' = Cardinality(booked \ {f}) + lost)
    BY <2>1, <2>2, BookDue
  <2>4. Cardinality(booked \ {f}) = Cardinality(booked) - 1
    BY <1>7, <2>2, FS_RemoveElement
  <2>5. Cardinality(Under("close"))' = Cardinality(Under("close")) + 1
        /\ Cardinality(Under("close")) \in Nat
    <3>1. Busy(cpu'[c], "close") /\ ~Busy(cpu[c], "close")
      BY <1>1, <1>3, <1>4, <1>7 DEF Busy
    <3>. QED
      BY <3>1, <1>4, UnderMove
  <2>6. Cardinality(Under("record"))' = Cardinality(Under("record"))
    BY <1>1, <1>3, <1>4, <1>7, UnderMove DEF Busy
  <2>7. Count' = Count
    BY <1>2 DEF Count
  <2>8. CountExact'
    BY <2>2, <2>3, <2>4, <2>5, <2>6, <2>7 DEF BookInv, CountExact, Due
  <2>. QED
    BY <2>3, <2>8 DEF BookInv
<1>. QED
  BY <1>5, <1>6, <1>7

\* The ACK that wins books the flow and owes a count.
LEMMA PromoteBook ==
  ASSUME Inv, BookInv, NEW c \in Cpu, Promote(c)
  PROVE  BookInv'
<1>. DEFINE f == cpu[c].flow
<1>1. ~At(c, "idle") /\ f \in Flow /\ ent \in [Flow -> Entry \cup {None}] /\ cpu[c].at = "promote"
      /\ cpu \in [Cpu -> Job]
  BY JobOf DEF Promote, At
<1>2. cnt' = cnt
  BY DEF Promote
<1>3. CASE /\ cpu[c].hold = "same"
           /\ Touch(c, f, "changed", "record") /\ Book(booked \cup {f})
  <2>1. cpu'[c].at = "record" /\ \A d \in Cpu \ {c} : \A op : Busy(cpu'[d], op) <=> Busy(cpu[d], op)
    BY <1>1, <1>3, TouchBusy DEF Step
  <2>2. f \notin booked
    <3>1. ent[f] # None /\ ent[f].pend
      BY <1>1, <1>3 DEF Inv, Held, At
    <3>. QED
      BY <3>1 DEF BookInv, BookType, Est
  <2>3. /\ IsFiniteSet(booked) /\ Cardinality(booked) \in Nat /\ Due \in Nat
        /\ booked \subseteq Flow /\ lost \in Nat
    BY Finite DEF BookInv
  <2>4. BookType' /\ (spoilt' => booked' = {}) /\ spoilt' = spoilt
        /\ (~spoilt => Due' = Cardinality(booked \cup {f}) + lost)
    BY <1>1, <1>3, <2>3, BookDue
  <2>5. Cardinality(booked \cup {f}) = Cardinality(booked) + 1
    BY <2>2, <2>3, FS_AddElement
  <2>6. Cardinality(Under("record"))' = Cardinality(Under("record")) + 1
        /\ Cardinality(Under("record")) \in Nat
    <3>1. Busy(cpu'[c], "record") /\ ~Busy(cpu[c], "record")
      BY <1>1, <2>1 DEF Busy
    <3>. QED
      BY <3>1, <2>1, UnderMove
  <2>7. Cardinality(Under("close"))' = Cardinality(Under("close"))
        /\ Cardinality(Under("close")) \in Nat
    <3>1. ~Busy(cpu'[c], "close") /\ ~Busy(cpu[c], "close")
      BY <1>1, <2>1 DEF Busy
    <3>. QED
      BY <3>1, <2>1, UnderMove
  <2>8. Count' = Count /\ Count \in Nat
    BY <1>2, CountType DEF Count, Inv, CoreType
  <2>9. CountExact'
    BY <2>3, <2>4, <2>5, <2>6, <2>7, <2>8 DEF BookInv, CountExact, Due
  <2>. QED
    BY <2>4, <2>9 DEF BookInv
<1>4. CASE Spoil
  BY <1>4, SpoilInv
<1>5. CASE Done(c) /\ UNCHANGED <<ent, bookVars>>
  <2>1. \A d \in Cpu : \A op \in {"record", "close"} : Busy(cpu'[d], op) <=> Busy(cpu[d], op)
    BY <1>1, <1>5 DEF Done, Busy, NoJob
  <2>2. Count' = Count
    BY <1>2 DEF Count
  <2>. QED
    BY <1>5, <2>1, <2>2, KeepAll DEF bookVars
<1>. QED
  BY <1>3, <1>4, <1>5 DEF Promote

LEMMA WriteBook ==
  ASSUME Inv, BookInv, NEW c \in Cpu, RefreshEntry(c) \/ InsertEntry(c)
  PROVE  BookInv'
<1>1. PICK s \in {"activity", "idle"} : Touch(c, cpu[c].flow, "gone", s)
  BY DEF RefreshEntry, InsertEntry
<1>2. ~At(c, "idle") /\ cpu[c].at \in {"refresh", "insert", "establish"}
  BY DEF RefreshEntry, InsertEntry, At
<1>3. cpu'[c].at = s /\ \A d \in Cpu \ {c} : \A op : Busy(cpu'[d], op) <=> Busy(cpu[d], op)
  BY <1>1, <1>2, TouchBusy DEF Step
<1>4. \A d \in Cpu : \A op \in {"record", "close"} : Busy(cpu'[d], op) <=> Busy(cpu[d], op)
  BY <1>2, <1>3 DEF Busy
<1>5. Book(booked) /\ UNCHANGED cnt
  BY DEF RefreshEntry, InsertEntry
<1>. QED
  BY <1>4, <1>5, KeepBook

LEMMA DaemonBook ==
  ASSUME Inv, BookInv, GcScan \/ GcDelete \/ SeedScan \/ SeedSet \/ Evict
  PROVE  BookInv'
<1>1. CASE GcScan \/ SeedScan
  <2>1. UNCHANGED <<ent, cnt, cpu, booked, lost, spoilt>>
    BY <1>1 DEF GcScan, SeedScan, bookVars
  <2>2. Count' = Count
    BY <2>1 DEF Count
  <2>. QED
    BY <2>1, <2>2, KeepAll
<1>2. CASE GcDelete \/ SeedSet \/ Evict
  <2>1. (\E f : Detach(f)) /\ Book(booked) /\ UNCHANGED cnt
    BY <1>2 DEF GcDelete, SeedSet, Evict
  <2>2. \A d \in Cpu : \A op \in {"record", "close"} : Busy(cpu'[d], op) <=> Busy(cpu[d], op)
    BY <2>1, DetachBusy
  <2>. QED
    BY <2>1, <2>2, KeepBook
<1>. QED
  BY <1>1, <1>2

LEMMA ElapseBook ==
  ASSUME Inv, BookInv, Elapse
  PROVE  BookInv'
<1>1. ent' = [f \in Flow |-> Older(ent[f])] /\ cnt' = Older(cnt)
      /\ UNCHANGED <<booked, lost, spoilt>>
  BY DEF Elapse, bookVars
<1>2. Est' = Est
  <2>1. ASSUME NEW f \in Flow
        PROVE  (ent'[f] # None /\ ~ent'[f].pend) <=> (ent[f] # None /\ ~ent[f].pend)
    <3>1. ent[f] \in Entry \cup {None} /\ ent'[f] = Older(ent[f])
      BY <1>1 DEF Inv, CoreType, MapType
    <3>. QED
      BY <3>1, OlderEntry
  <2>. QED
    BY <2>1 DEF Est
<1>3. BookType' /\ Due' = Due /\ (spoilt' => booked' = {})
  BY <1>1, <1>2 DEF BookInv, BookType, Due
<1>4. Count' = Count
  <2>1. cnt \in Word \cup {None}
    BY DEF Inv, CoreType, MapType
  <2>2. Older(cnt) = None <=> cnt = None
    BY <2>1, OlderWord
  <2>3. cnt # None => Older(cnt).n = cnt.n
    BY <2>1 DEF Older, Word
  <2>. QED
    BY <1>1, <2>2, <2>3 DEF Count
<1>5. \A d \in Cpu : \A op \in {"record", "close"} : Busy(cpu'[d], op) <=> Busy(cpu[d], op)
  <2>1. ASSUME NEW d \in Cpu, At(d, "idle")
        PROVE  cpu'[d].at = "idle" /\ cpu[d].at = "idle"
    BY <2>1 DEF Elapse, NoJob, At
  <2>2. ASSUME NEW d \in Cpu, ~At(d, "idle")
        PROVE  cpu'[d].at = cpu[d].at /\ cpu'[d].op = cpu[d].op
    <3>1. cpu[d] \in Job
      BY DEF Inv, CoreType, JobType
    <3>2. cpu'[d] = [cpu[d] EXCEPT !.lag = @ + 1, !.saw = Older(@), !.seen = Older(@)]
      BY <2>2 DEF Elapse
    <3>. QED
      BY <3>1, <3>2 DEF Job
  <2>. QED
    BY <2>1, <2>2 DEF Busy
<1>6. Cardinality(Under("record"))' = Cardinality(Under("record"))
      /\ Cardinality(Under("close"))' = Cardinality(Under("close"))
  BY <1>5, UnderSame
<1>7. CountExact'
  BY <1>1, <1>3, <1>4, <1>6 DEF BookInv, CountExact
<1>. QED
  BY <1>3, <1>7 DEF BookInv


\* Where a packet is after the counter.
LEMMA CountedBusy ==
  ASSUME Inv, NEW c \in Cpu, ~At(c, "idle"), NEW op, Counted(c, op)
  PROVE  /\ \A x \in {"record", "close"} : ~Busy(cpu'[c], x)
         /\ \A d \in Cpu \ {c} : \A x : Busy(cpu'[d], x) <=> Busy(cpu[d], x)
<1>1. cpu \in [Cpu -> Job] /\ cpu[c] \in Job
  BY JobOf
<1>2. cpu'[c].at \in {"insert", "idle"} /\ \A d \in Cpu \ {c} : cpu'[d] = cpu[d]
  BY <1>1 DEF Counted, Done, NoJob, Job
<1>. QED
  BY <1>2 DEF Busy

LEMMA CountReadBook ==
  ASSUME Inv, BookInv, NEW c \in Cpu, CountRead(c)
  PROVE  BookInv'
<1>1. PICK op \in Updates :
         /\ At(c, op)
         /\ IF cnt = None
            THEN /\ Counted(c, op)
                 /\ cnt' = IF op = "record" THEN [n |-> 1, age |-> cpu[c].lag] ELSE None
                 /\ IF op = "close" THEN Spoil ELSE UNCHANGED bookVars
            ELSE /\ cpu' = [cpu EXCEPT ![c].at = "swap", ![c].op = op, ![c].seen = cnt]
                 /\ UNCHANGED <<cnt, bookVars>>
  BY DEF CountRead, Updates
<1>2. ~At(c, "idle") /\ cpu[c] \in Job /\ cpu \in [Cpu -> Job] /\ cpu[c].at = op
  BY <1>1, JobOf DEF At, Updates
<1>3. UNCHANGED ent
  BY DEF CountRead
<1>4. CASE cnt # None
  <2>1. cpu' = [cpu EXCEPT ![c] = [cpu[c] EXCEPT !.at = "swap", !.op = op, !.seen = cnt]]
    BY <1>1, <1>4
  <2>2. cpu'[c].at = "swap" /\ cpu'[c].op = op /\ \A d \in Cpu \ {c} : cpu'[d] = cpu[d]
    BY <1>2, <2>1 DEF Job
  <2>3. \A d \in Cpu : \A x \in {"record", "close"} : Busy(cpu'[d], x) <=> Busy(cpu[d], x)
    BY <1>2, <2>2 DEF Busy, Updates
  <2>4. Count' = Count /\ UNCHANGED <<booked, lost, spoilt>>
    BY <1>1, <1>4 DEF Count, bookVars
  <2>. QED
    BY <1>3, <2>3, <2>4, KeepAll
<1>5. CASE cnt = None /\ op = "close"
  BY <1>1, <1>5, SpoilInv
<1>6. CASE cnt = None /\ op = "activity"
  <2>1. \A x \in {"record", "close"} : ~Busy(cpu'[c], x)
        /\ \A d \in Cpu \ {c} : Busy(cpu'[d], x) <=> Busy(cpu[d], x)
    BY <1>1, <1>2, <1>6, CountedBusy
  <2>2. \A d \in Cpu : \A x \in {"record", "close"} : Busy(cpu'[d], x) <=> Busy(cpu[d], x)
    <3>1. \A x \in {"record", "close"} : ~Busy(cpu[c], x)
      BY <1>2, <1>6 DEF Busy
    <3>. QED
      BY <2>1, <3>1
  <2>3. Count' = Count /\ UNCHANGED <<booked, lost, spoilt>>
    BY <1>1, <1>6 DEF Count, bookVars
  <2>. QED
    BY <1>3, <2>2, <2>3, KeepAll
<1>7. CASE cnt = None /\ op = "record"
  <2>1. Counted(c, op) /\ cnt' = [n |-> 1, age |-> cpu[c].lag] /\ UNCHANGED <<booked, lost, spoilt>>
    BY <1>1, <1>7 DEF bookVars
  <2>2. ~Busy(cpu'[c], "record") /\ ~Busy(cpu'[c], "close")
        /\ \A d \in Cpu \ {c} : \A x : Busy(cpu'[d], x) <=> Busy(cpu[d], x)
    BY <1>2, <2>1, CountedBusy
  <2>3. Busy(cpu[c], "record") /\ ~Busy(cpu[c], "close")
    BY <1>2, <1>7 DEF Busy
  <2>4. Cardinality(Under("record")) = Cardinality(Under("record"))' + 1
        /\ Cardinality(Under("record"))' \in Nat
    BY <2>2, <2>3, UnderMove
  <2>5. Cardinality(Under("close"))' = Cardinality(Under("close"))
    BY <2>2, <2>3, UnderMove
  <2>6. Count = 0 /\ Count' = 1
    <3>1. cnt' # None
      <4>1. [n |-> 1, age |-> cpu[c].lag] \in Word
        <5>1. 1 \in 0..MaxCount /\ cpu[c].lag \in 0..MaxLag
          BY <1>2, Constants, JobOf
        <5>. QED
          BY <5>1, NewWord
      <4>. QED
        BY <4>1, <2>1, NoneAssumption
    <3>. QED
      BY <1>7, <2>1, <3>1 DEF Count
  <2>7. BookType' /\ Due' = Due /\ (spoilt' => booked' = {})
    BY <1>3, <2>1, SameBook
  <2>8. CountExact'
    BY <2>1, <2>4, <2>5, <2>6, <2>7 DEF BookInv, CountExact
  <2>. QED
    BY <2>7, <2>8 DEF BookInv
<1>. QED
  BY <1>4, <1>5, <1>6, <1>7 DEF Updates


\* The first connection after the timeout starts the counter, and the book, anew.
LEMMA RestartBook ==
  ASSUME Inv, BookInv, NEW c \in Cpu, UNCHANGED ent, Count' = 1,
         (Under("record") \cup Under("close")) \ {c} = {},
         \A x \in {"record", "close"} : ~Busy(cpu'[c], x),
         \A d \in Cpu \ {c} : \A x : Busy(cpu'[d], x) <=> Busy(cpu[d], x),
         booked' = {cpu[c].flow} \cap Est,
         lost' = 1 - Cardinality({cpu[c].flow} \cap Est), spoilt' = FALSE
  PROVE  BookInv'
<1>1. PICK A : A = {cpu[c].flow} \cap Est
  OBVIOUS
<1>2. Cardinality(A) \in {0, 1}
  <2>1. A = {} \/ A = {cpu[c].flow}
    BY <1>1
  <2>. QED
    BY <2>1, FS_EmptySet, FS_Singleton
<1>3. Est' = Est
  BY DEF Est
<1>4. BookType'
  <2>1. booked' \subseteq Est'
    BY <1>3
  <2>2. lost' \in Nat
    BY <1>1, <1>2
  <2>. QED
    BY <2>1, <2>2 DEF BookType
<1>5. Due' = 1
  <2>1. Due' = Cardinality(A) + (1 - Cardinality(A))
    BY <1>1 DEF Due
  <2>. QED
    BY <2>1, <1>2
<1>6. ASSUME NEW op \in {"record", "close"} PROVE Cardinality(Under(op))' = 0
  <2>1. \A d \in Cpu : ~Busy(cpu'[d], op)
    BY <1>6, UnderDef
  <2>2. Under(op)' = {}
    BY <2>1 DEF Under, Busy, At
  <2>. QED
    BY <2>2, FS_EmptySet
<1>7. CountExact'
  BY <1>5, <1>6 DEF CountExact
<1>. QED
  BY <1>4, <1>7 DEF BookInv

LEMMA CountSwapBook ==
  ASSUME Inv, BookInv, Orphaned, NEW c \in Cpu, CountSwap(c)
  PROVE  BookInv'
<1>1. PICK op, w, late : op = cpu[c].op /\ w = cpu[c].seen /\ late = cpu[c].lag
  OBVIOUS
<1>2. ~At(c, "idle") /\ cpu[c] \in Job /\ Place(cpu[c]) /\ cpu \in [Cpu -> Job]
      /\ late \in 0..MaxLag /\ cpu[c].at = "swap"
  BY <1>1, JobOf DEF CountSwap, At
<1>3. w \in Word \cup {None} /\ op \in Updates
  BY <1>1, <1>2 DEF Place, Job
<1>4. UNCHANGED ent
  BY DEF CountSwap
<1>8. CASE w = None /\ Counted(c, op) /\ UNCHANGED <<cnt, bookVars>>
  <2>1. UNCHANGED <<booked, lost, spoilt>> /\ Count' = Count
    BY <1>8 DEF bookVars, Count
  <2>2. CASE spoilt
    <3>1. BookType' /\ (spoilt' => booked' = {})
      BY <1>4, <2>1, SameBook
    <3>. QED
      BY <2>1, <2>2, <3>1 DEF BookInv, CountExact
  <2>3. CASE ~spoilt
    <3>1. op = "activity"
      BY <1>1, <1>2, <1>8, <2>3 DEF Orphaned, At
    <3>2. (\A x \in {"record", "close"} : ~Busy(cpu'[c], x))
          /\ \A d \in Cpu \ {c} : \A x : Busy(cpu'[d], x) <=> Busy(cpu[d], x)
      BY <1>2, <1>8, CountedBusy
    <3>3. \A x \in {"record", "close"} : ~Busy(cpu[c], x)
      BY <1>1, <1>2, <3>1 DEF Busy
    <3>4. \A d \in Cpu : \A x \in {"record", "close"} : Busy(cpu'[d], x) <=> Busy(cpu[d], x)
      BY <3>2, <3>3
    <3>. QED
      BY <1>4, <2>1, <3>4, KeepAll
  <2>. QED
    BY <2>2, <2>3
<1>5. CASE /\ cpu' = [cpu EXCEPT ![c].at = cpu[c].op, ![c].tries = @ + 1]
           /\ UNCHANGED <<cnt, bookVars>>
  <2>1. cpu'[c].at = op /\ \A d \in Cpu \ {c} : cpu'[d] = cpu[d]
    BY <1>1, <1>2, <1>5 DEF Job
  <2>2. \A d \in Cpu : \A x \in {"record", "close"} : Busy(cpu'[d], x) <=> Busy(cpu[d], x)
    BY <1>1, <1>2, <1>3, <2>1 DEF Busy, Updates
  <2>3. Count' = Count /\ UNCHANGED <<booked, lost, spoilt>>
    BY <1>5 DEF Count, bookVars
  <2>. QED
    BY <1>4, <2>2, <2>3, KeepAll
<1>6. CASE Spoil
  BY <1>6, SpoilInv
<1>7. CASE /\ w # None /\ WordUnchanged(c)
           /\ cnt' = [n |-> NewCount(op, w, late), age |-> late]
           /\ Counted(c, op) /\ Tally(c, op, w)
  <2>0. w \in Word
    BY <1>3, <1>7
  <2>1. cnt = w /\ Count = w.n /\ w.n \in 0..MaxCount
    BY <1>1, <2>0, <1>7, NoneAssumption DEF WordUnchanged, Count, Word
  <2>2. Count' = NewCount(op, w, late)
    <3>1. cnt' \in Word
      BY <1>2, <1>3, <2>0, <1>7, NewCountType, NewWord
    <3>2. cnt' # None
      BY <3>1, NoneAssumption
    <3>. QED
      BY <3>2, <1>7 DEF Count
  <2>3. (\A x \in {"record", "close"} : ~Busy(cpu'[c], x))
        /\ \A d \in Cpu \ {c} : \A x : Busy(cpu'[d], x) <=> Busy(cpu[d], x)
    BY <1>2, <1>7, CountedBusy
  <2>4. \A x \in {"record", "close"} : Busy(cpu[c], x) <=> x = op
    BY <1>1, <1>2 DEF Busy
  <2>5. CASE op = "record" /\ w.n > 0 /\ Expired(w.age, cpu[c].lag, TcpTimeout)
    <3>1. CASE (Under("record") \cup Under("close")) \ {c} = {}
      <4>1. /\ booked' = {cpu[c].flow} \cap Est
            /\ lost' = 1 - Cardinality({cpu[c].flow} \cap Est) /\ spoilt' = FALSE
        BY <1>7, <2>5, <3>1 DEF Tally
      <4>2. Count' = 1
        BY <1>1, <2>2, <2>5 DEF NewCount
      <4>. QED
        BY <1>4, <2>3, <3>1, <4>1, <4>2, RestartBook
    <3>2. CASE ~((Under("record") \cup Under("close")) \ {c} = {})
      BY <1>7, <2>5, <3>2, SpoilInv DEF Tally
    <3>. QED
      BY <3>1, <3>2
  <2>6. CASE ~(op = "record" /\ w.n > 0 /\ Expired(w.age, cpu[c].lag, TcpTimeout))
    <3>1. CASE w.n = (IF op = "record" THEN MaxCount ELSE 0)
      BY <1>7, <2>6, <3>1, SpoilInv DEF Tally
    <3>2. CASE w.n # (IF op = "record" THEN MaxCount ELSE 0)
      <4>1. UNCHANGED <<booked, lost, spoilt>>
        BY <1>7, <2>6, <3>2 DEF Tally, bookVars
      <4>2. BookType' /\ Due' = Due /\ (spoilt' => booked' = {})
        BY <1>4, <4>1, SameBook
      <4>3. w.n \in Nat /\ MaxCount \in Nat /\ w.n <= MaxCount
        BY <2>1, Constants
      <4>4. ASSUME NEW x \in {"record", "close"}
            PROVE  /\ Cardinality(Under(x)) \in Nat /\ Cardinality(Under(x))' \in Nat
                   /\ x # op => Cardinality(Under(x))' = Cardinality(Under(x))
                   /\ x = op => Cardinality(Under(x)) = Cardinality(Under(x))' + 1
        BY <2>3, <2>4, UnderMove
      <4>5. CASE op = "record"
        <5>1. NewCount(op, w, late) = w.n + 1
          BY <1>1, <2>6, <3>2, <4>3, <4>5 DEF NewCount
        <5>. QED
          BY <2>1, <2>2, <4>1, <4>2, <4>3, <4>4, <4>5, <5>1, Finite DEF BookInv, CountExact
      <4>6. CASE op = "activity"
        <5>1. NewCount(op, w, late) = w.n
          BY <3>2, <4>6 DEF NewCount
        <5>. QED
          BY <2>1, <2>2, <4>1, <4>2, <4>3, <4>4, <4>6, <5>1, Finite DEF BookInv, CountExact
      <4>7. CASE op = "close"
        <5>1. NewCount(op, w, late) = w.n - 1
          BY <3>2, <4>3, <4>7 DEF NewCount
        <5>. QED
          BY <2>1, <2>2, <4>1, <4>2, <4>3, <4>4, <4>7, <5>1, Finite DEF BookInv, CountExact
      <4>. QED
        BY <4>5, <4>6, <4>7, <1>3 DEF Updates
    <3>. QED
      BY <3>1, <3>2
  <2>. QED
    BY <2>5, <2>6
<1>. QED
  BY <1>1, <1>5, <1>6, <1>7, <1>8 DEF CountSwap

\* The book starts anew with the counter.
LEMMA EvictCountBook ==
  ASSUME Inv, BookInv, EvictCount
  PROVE  BookInv'
<1>1. CASE Spoil
  BY <1>1, SpoilInv
<1>2. CASE /\ Under("record") \cup Under("close") = {}
           /\ booked' = {} /\ lost' = 0 /\ spoilt' = FALSE
  <2>1. \A d \in Cpu : \A op \in {"record", "close"} : Busy(cpu'[d], op) <=> Busy(cpu[d], op)
    BY EvictJob
  <2>2. ASSUME NEW op \in {"record", "close"} PROVE Cardinality(Under(op))' = 0
    <3>1. Under(op)' = Under(op) /\ Under(op) = {}
      BY <1>2, <2>1, UnderSame
    <3>. QED
      BY <3>1, FS_EmptySet
  <2>3. Due' = 0
    <3>1. Cardinality(booked') = 0
      BY <1>2, FS_EmptySet
    <3>. QED
      BY <1>2, <3>1 DEF Due
  <2>4. Count' = 0
    BY DEF EvictCount, Count
  <2>5. BookType'
    BY <1>2 DEF BookType
  <2>6. CountExact'
    BY <2>2, <2>3, <2>4 DEF CountExact
  <2>. QED
    BY <1>2, <2>5, <2>6 DEF BookInv
<1>. QED
  BY <1>1, <1>2 DEF EvictCount

\* Where an orphan was before, and that the book stays closed.
LEMMA OrphanStep ==
  Inv /\ Orphaned /\ [Next]_vars => Orphaned'
<1>. SUFFICES ASSUME Inv, Orphaned, [Next]_vars PROVE Orphaned'
  OBVIOUS
<1>. DEFINE Orphan(j) == j.at = "swap" /\ j.seen = None /\ j.op # "activity"
            Keeps == \A d \in Cpu : Orphan(cpu'[d]) => Orphan(cpu[d])
<1>0. ASSUME Keeps, spoilt => spoilt' PROVE Orphaned'
  BY <1>0 DEF Orphaned, At
<1>1. cpu \in [Cpu -> Job]
  BY DEF Inv, CoreType, JobType
<1>2. ASSUME NEW c \in Cpu, ~Orphan(cpu'[c]), \A d \in Cpu \ {c} : cpu'[d] = cpu[d]
      PROVE  Keeps
  BY <1>2
<1>3. ASSUME NEW c \in Cpu, NEW f, NEW what, NEW s, s # "swap", ~At(c, "idle"), Touch(c, f, what, s)
      PROVE  Keeps
  <2>1. ASSUME NEW d \in Cpu, Orphan(cpu'[d]) PROVE Orphan(cpu[d])
    <3>1. d # c
      <4>1. ASSUME d = c PROVE FALSE
        <5>1. cpu'[c] = NoJob \/ cpu'[c] = [cpu[c] EXCEPT !.at = s]
          BY <1>3 DEF Touch
        <5>. QED
          BY <5>1, <4>1, <2>1, <1>1, <1>3 DEF NoJob, Job
      <4>. QED
        BY <4>1
    <3>2. cpu'[d] = cpu[d] \/ cpu'[d] = [cpu[d] EXCEPT !.hold = what]
      BY <3>1, <1>3 DEF Touch
    <3>. QED
      BY <3>2, <2>1, <1>1 DEF Job
  <2>. QED
    BY <2>1
<1>4. ASSUME \E B : Book(B) PROVE spoilt => spoilt'
  BY <1>4 DEF Book, bookVars
<1>5. ASSUME NEW c \in Cpu, Begin(c) \/ CheckLimit(c) \/ Lookup(c) PROVE Orphaned'
  <2>1. ~Orphan(cpu'[c]) /\ \A d \in Cpu \ {c} : cpu'[d] = cpu[d]
    BY <1>5, ReadJob
  <2>2. UNCHANGED spoilt
    BY <1>5 DEF Begin, CheckLimit, Lookup, bookVars
  <2>. QED
    BY <1>0, <1>2, <2>1, <2>2
<1>6. ASSUME NEW c \in Cpu, Delete(c) \/ RefreshEntry(c) \/ InsertEntry(c) PROVE Orphaned'
  <2>1. (\E f, what, s : s # "swap" /\ Touch(c, f, what, s)) /\ ~At(c, "idle")
    BY <1>6 DEF Delete, RefreshEntry, InsertEntry, At
  <2>2. Keeps
    BY <2>1, <1>3
  <2>3. (\E B : Book(B)) \/ Spoil
    BY <1>6 DEF Delete, RefreshEntry, InsertEntry, Uncount
  <2>. QED
    BY <1>0, <1>4, <2>2, <2>3 DEF Spoil
<1>7. ASSUME NEW c \in Cpu, Promote(c) PROVE Orphaned'
  <2>1. Keeps
    <3>1. CASE \E f, what : Touch(c, f, what, "record")
      BY <1>3, <1>7, <3>1 DEF Promote, At
    <3>2. CASE Goto(c, "record") \/ Done(c)
      <4>1. cpu'[c].at # "swap" /\ \A d \in Cpu \ {c} : cpu'[d] = cpu[d]
        BY <1>1, <3>2 DEF Goto, Done, NoJob, Job
      <4>. QED
        BY <4>1, <1>2
    <3>. QED
      BY <1>7, <3>1, <3>2 DEF Promote
  <2>2. (\E B : Book(B)) \/ Spoil \/ UNCHANGED spoilt
    BY <1>7 DEF Promote, bookVars
  <2>. QED
    BY <1>0, <1>4, <2>1, <2>2 DEF Spoil
<1>8. ASSUME NEW c \in Cpu, NEW op, Counted(c, op) PROVE Keeps
  <2>1. cpu'[c].at # "swap" /\ \A d \in Cpu \ {c} : cpu'[d] = cpu[d]
    BY <1>1, <1>8 DEF Counted, Done, NoJob, Job
  <2>. QED
    BY <2>1, <1>2
<1>9. ASSUME NEW c \in Cpu, CountRead(c) PROVE Orphaned'
  <2>1. CASE cnt = None
    <3>1. (\E op : Counted(c, op)) /\ (Spoil \/ UNCHANGED spoilt)
      BY <1>9, <2>1 DEF CountRead, bookVars
    <3>. QED
      BY <3>1, <1>0, <1>8 DEF Spoil
  <2>2. CASE cnt # None
    <3>1. PICK op : cpu' = [cpu EXCEPT ![c] = [cpu[c] EXCEPT !.at = "swap", !.op = op, !.seen = cnt]]
      BY <1>9, <2>2 DEF CountRead
    <3>2. cpu'[c].seen # None /\ \A d \in Cpu \ {c} : cpu'[d] = cpu[d]
      BY <3>1, <1>1, <2>2 DEF Job
    <3>3. UNCHANGED spoilt
      BY <1>9, <2>2 DEF CountRead, bookVars
    <3>. QED
      BY <3>2, <3>3, <1>0, <1>2
  <2>. QED
    BY <2>1, <2>2
<1>10. ASSUME NEW c \in Cpu, CountSwap(c) PROVE Orphaned'
  <2>1. PICK op, w : op = cpu[c].op /\ w = cpu[c].seen
    OBVIOUS
  <2>2. CASE Counted(c, op) /\ (Spoil \/ UNCHANGED spoilt)
    BY <2>2, <1>0, <1>8 DEF Spoil
  <2>3. CASE cpu' = [cpu EXCEPT ![c].at = cpu[c].op, ![c].tries = @ + 1] /\ UNCHANGED spoilt
    <3>1. cpu[c].op # "swap" /\ cpu[c] \in Job
      BY <1>1 DEF Job, Updates
    <3>2. cpu'[c].at # "swap" /\ \A d \in Cpu \ {c} : cpu'[d] = cpu[d]
      BY <3>1, <1>1, <2>3 DEF Job
    <3>. QED
      BY <3>2, <2>3, <1>0, <1>2
  <2>4. CASE /\ Counted(c, op) /\ (Under("record") \cup Under("close")) \ {c} = {}
    <3>1. ASSUME NEW d \in Cpu, Orphan(cpu'[d]) PROVE FALSE
      <4>1. cpu'[c].at # "swap" /\ \A b \in Cpu \ {c} : cpu'[b] = cpu[b]
        BY <1>1, <2>4 DEF Counted, Done, NoJob, Job
      <4>2. d # c /\ Orphan(cpu[d])
        BY <3>1, <4>1
      <4>3. cpu[d].op \in {"record", "close"}
        <5>1. Place(cpu[d]) /\ cpu[d].at = "swap"
          BY <4>2 DEF Inv, Places
        <5>. QED
          BY <4>2, <5>1 DEF Place, Updates
      <4>4. d \in Under("record") \cup Under("close")
        BY <4>2, <4>3 DEF Under, At
      <4>. QED
        BY <4>2, <4>4, <2>4
    <3>. QED
      BY <3>1 DEF Orphaned, At
  <2>. QED
    BY <1>10, <2>1, <2>2, <2>3, <2>4 DEF CountSwap, Tally, bookVars
<1>11. ASSUME GcScan \/ GcDelete \/ SeedScan \/ SeedSet \/ Evict PROVE Orphaned'
  <2>1. cpu' = cpu \/ \E f : Detach(f)
    BY <1>11 DEF GcScan, GcDelete, SeedScan, SeedSet, Evict
  <2>2. ASSUME NEW d \in Cpu, Orphan(cpu'[d]) PROVE Orphan(cpu[d])
    <3>1. cpu'[d] = cpu[d] \/ cpu'[d] = [cpu[d] EXCEPT !.hold = "gone"]
      BY <2>1 DEF Detach
    <3>. QED
      BY <3>1, <2>2, <1>1 DEF Job
  <2>3. (\E B : Book(B)) \/ UNCHANGED spoilt
    BY <1>11 DEF GcScan, GcDelete, SeedScan, SeedSet, Evict, bookVars
  <2>. QED
    BY <1>0, <1>4, <2>2, <2>3
<1>12. ASSUME EvictCount PROVE Orphaned'
  <2>1. CASE Spoil
    BY <2>1 DEF Spoil, Orphaned
  <2>2. CASE Under("record") \cup Under("close") = {}
    <3>1. ASSUME NEW d \in Cpu, Orphan(cpu'[d]) PROVE FALSE
      <4>1. Place(cpu'[d]) /\ \A op \in {"record", "close"} : Busy(cpu'[d], op) <=> Busy(cpu[d], op)
        BY <1>12, EvictJob
      <4>2. cpu'[d].op \in {"record", "close"}
        BY <3>1, <4>1 DEF Place, Updates
      <4>3. Busy(cpu'[d], cpu'[d].op)
        BY <3>1 DEF Busy
      <4>4. Busy(cpu[d], cpu'[d].op)
        BY <4>1, <4>2, <4>3
      <4>5. d \in Under(cpu'[d].op)
        BY <4>4 DEF Under, Busy, At
      <4>. QED
        BY <4>2, <4>5, <2>2
    <3>. QED
      BY <3>1 DEF Orphaned, At
  <2>. QED
    BY <1>12, <2>1, <2>2 DEF EvictCount
<1>13. ASSUME Elapse PROVE Orphaned'
  <2>1. ASSUME NEW d \in Cpu, Orphan(cpu'[d]) PROVE Orphan(cpu[d])
    <3>1. ~At(d, "idle")
      BY <1>13, <2>1 DEF Elapse, NoJob
    <3>2. cpu'[d] = [cpu[d] EXCEPT !.lag = @ + 1, !.saw = Older(@), !.seen = Older(@)]
      BY <1>13, <3>1 DEF Elapse
    <3>3. cpu'[d].at = cpu[d].at /\ cpu'[d].op = cpu[d].op /\ cpu'[d].seen = Older(cpu[d].seen)
          /\ cpu[d].seen \in Word \cup {None}
      BY <3>2, <1>1 DEF Job
    <3>. QED
      BY <3>3, <2>1, OlderWord
  <2>2. UNCHANGED spoilt
    BY <1>13 DEF Elapse, bookVars
  <2>. QED
    BY <1>0, <2>1, <2>2
<1>14. CASE UNCHANGED vars
  BY <1>14 DEF vars, Orphaned, At
<1>. QED
  BY <1>5, <1>6, <1>7, <1>9, <1>10, <1>11, <1>12, <1>13, <1>14 DEF Next, Packet

LEMMA BookStep ==
  Inv /\ BookInv /\ Orphaned /\ [Next]_vars => BookInv'
<1>. SUFFICES ASSUME Inv, BookInv, Orphaned, [Next]_vars PROVE BookInv'
  OBVIOUS
<1>1. ASSUME NEW c \in Cpu, Packet(c) PROVE BookInv'
  BY <1>1, ReadBook, DeleteBook, PromoteBook, WriteBook, CountReadBook, CountSwapBook DEF Packet
<1>2. CASE UNCHANGED vars
  <2>1. UNCHANGED <<ent, cnt, cpu, booked, lost, spoilt>>
    BY <1>2 DEF vars
  <2>2. Count' = Count
    BY <2>1 DEF Count
  <2>. QED
    BY <2>1, <2>2, KeepAll
<1>. QED
  BY <1>1, <1>2, DaemonBook, EvictCountBook, ElapseBook DEF Next

LEMMA BookSpec ==
  Spec => [](Inv /\ BookInv /\ Orphaned)
<1>1. Init => BookInv
  <2>. SUFFICES ASSUME Init PROVE BookInv
    OBVIOUS
  <2>1. Cardinality(booked) = 0 /\ lost = 0 /\ spoilt = FALSE /\ booked = {} /\ Count = 0
    BY FS_EmptySet DEF Init, Count
  <2>2. ASSUME NEW op \in {"record", "close"} PROVE Cardinality(Under(op)) = 0
    <3>1. Under(op) = {}
      BY <2>2 DEF Init, Under, At, NoJob
    <3>. QED
      BY <3>1, FS_EmptySet
  <2>3. BookType
    BY <2>1 DEF BookType
  <2>5. Due = 0
    BY <2>1 DEF Due
  <2>4. CountExact
    BY <2>1, <2>2, <2>5 DEF CountExact
  <2>. QED
    BY <2>1, <2>3, <2>4 DEF BookInv
<1>2. Init => Orphaned
  BY DEF Init, Orphaned, At, NoJob
<1>. QED
  BY <1>1, <1>2, InitInv, StepInv, BookStep, OrphanStep, PTL DEF Spec

\* Every variable always has its type, and what is booked is established: no
\* map value, job or list of the daemon leaves its range, whatever packets,
\* collection, seeds and evictions interleave.
THEOREM TypeCorrect ==
  Spec => []TypeOK
<1>1. Inv /\ BookInv => TypeOK
  BY DEF Inv, CoreType, BookInv, TypeOK
<1>. QED
  BY <1>1, BookSpec, PTL

\* For any number of CPUs, flows, attempts of the compare-and-swap and any delay
\* of a packet, the counter and the updates under way always make up the
\* connections that a handshake established and those lost to the counter,
\* until an event that the code lets spoil it.
THEOREM CountIsExact ==
  Spec => []CountExact
<1>1. BookInv => CountExact
  BY DEF BookInv
<1>. QED
  BY <1>1, BookSpec, PTL

\* A packet leaves the limit check for the idle state only when the limit is
\* reached.
LEMMA DropIsLimit ==
  ASSUME Inv, Next, NEW c \in Cpu, At(c, "check"), cpu'[c].at = "idle"
  PROVE  cnt # None /\ cnt.n >= Limit
<1>1. cpu \in [Cpu -> Job] /\ cpu[c] \in Job /\ cpu[c].at = "check"
  BY DEF Inv, CoreType, JobType, At
<1>2. ASSUME NEW d \in Cpu, Packet(d), d # c PROVE FALSE
  <2>1. cpu'[c].at = cpu[c].at
    <3>1. CASE \E j : cpu' = [cpu EXCEPT ![d] = j]
      BY <3>1, <1>1, <1>2
    <3>2. CASE \E f, what, s : Touch(d, f, what, s)
      <4>1. cpu'[c] = cpu[c] \/ \E what : cpu'[c] = [cpu[c] EXCEPT !.hold = what]
        BY <3>2, <1>2 DEF Touch
      <4>. QED
        BY <4>1, <1>1 DEF Job
    <3>3. (\E j : cpu' = [cpu EXCEPT ![d] = j]) \/ (\E f, what, s : Touch(d, f, what, s))
      <4>1. CASE Begin(d) \/ CheckLimit(d) \/ Lookup(d)
        BY <4>1 DEF Begin, CheckLimit, Lookup, Done, Goto
      <4>2. CASE Delete(d) \/ RefreshEntry(d) \/ InsertEntry(d)
        BY <4>2 DEF Delete, RefreshEntry, InsertEntry
      <4>3. CASE Promote(d)
        BY <4>3 DEF Promote, Done, Goto
      <4>4. CASE CountRead(d) \/ CountSwap(d)
        BY <4>4 DEF CountRead, CountSwap, Counted, Done
      <4>. QED
        BY <1>2, <4>1, <4>2, <4>3, <4>4 DEF Packet
    <3>. QED
      BY <3>1, <3>2, <3>3
  <2>. QED
    BY <2>1, <1>1
<1>3. ASSUME Packet(c) PROVE cnt # None /\ cnt.n >= Limit
  <2>1. CheckLimit(c)
    BY <1>1, <1>3 DEF Packet, Begin, Lookup, Delete, Promote, RefreshEntry, InsertEntry,
       CountRead, CountSwap, At, Updates
  <2>2. LimitReached(cpu[c].lag)
    <3>1. ASSUME Goto(c, "lookup") PROVE FALSE
      <4>1. cpu'[c] = [cpu[c] EXCEPT !.at = "lookup"]
        BY <1>1, <3>1 DEF Goto
      <4>. QED
        BY <4>1, <1>1 DEF Job
    <3>. QED
      BY <2>1, <3>1 DEF CheckLimit
  <2>. QED
    BY <2>2 DEF LimitReached
<1>4. ASSUME GcScan \/ GcDelete \/ SeedScan \/ SeedSet \/ Evict PROVE FALSE
  <2>1. cpu' = cpu \/ \E f : Detach(f)
    BY <1>4 DEF GcScan, GcDelete, SeedScan, SeedSet, Evict
  <2>2. cpu'[c] = cpu[c] \/ cpu'[c] = [cpu[c] EXCEPT !.hold = "gone"]
    BY <2>1 DEF Detach
  <2>. QED
    BY <2>2, <1>1 DEF Job
<1>5. ASSUME Elapse PROVE FALSE
  <2>1. cpu'[c] = [cpu[c] EXCEPT !.lag = @ + 1, !.saw = Older(@), !.seen = Older(@)]
    BY <1>1, <1>5 DEF Elapse, At
  <2>. QED
    BY <2>1, <1>1 DEF Job
<1>6. ASSUME EvictCount PROVE FALSE
  BY <1>1, <1>6, EvictJob
<1>. QED
  BY <1>2, <1>3, <1>4, <1>5, <1>6 DEF Next

\* For any constants, a SYN is dropped for the connection limit only when the
\* connections that are established, lost to the counter or on their way out
\* reach the limit, or when the counter was spoilt.
THEOREM DropsAreJustified ==
  Spec => LimitDropJustified
<1>1. ASSUME Inv, BookInv, Next, NEW c \in Cpu, At(c, "check"), cpu'[c].at = "idle"
      PROVE  spoilt \/ Due + Cardinality(Under("close")) >= Limit
  <2>1. cnt # None /\ cnt.n >= Limit
    BY <1>1, DropIsLimit
  <2>2. Count \in Nat /\ Count >= Limit
    BY <1>1, <2>1, CountType DEF Inv, CoreType
  <2>3. Cardinality(Under("record")) \in Nat
    BY UnderDef, FS_CardinalityType
  <2>. QED
    BY <1>1, <2>2, <2>3, Constants DEF BookInv, CountExact
<1>2. Inv /\ BookInv /\ [Next]_vars =>
        [\A c \in Cpu : (At(c, "check") /\ cpu'[c].at = "idle") =>
           spoilt \/ Due + Cardinality(Under("close")) >= Limit]_vars
  BY <1>1
<1>. QED
  BY <1>2, BookSpec, PTL DEF Spec, LimitDropJustified
=============================================================================
