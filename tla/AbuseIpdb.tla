------------------------------ MODULE AbuseIpdb ------------------------------
(***************************************************************************)
(* The AbuseIPDB thread (auto_xdp/abuseipdb.py) beside the daemon's main   *)
(* thread.  The thread replaces the block list in the abuseipdb_v4 trie,   *)
(* one bpf call at a time, and switches it on in xdp_runtime_cfg, which    *)
(* the main thread (XdpBackend.apply_reconcile_plan) writes as well.  Both *)
(* threads go through one BpfRuntimeConfigMap, whose buffer _val they      *)
(* share: ctypes lets the other one run during the system call.            *)
(*                                                                         *)
(* A runtime configuration is a record [t, a, o]: the timing fields, the   *)
(* AbuseIPDB flag and the other flags.                                     *)
(***************************************************************************)
EXTENDS Naturals, FiniteSets

CONSTANTS
    Ip,            \* addresses, numbered in the order sorted() gives them
    Capacity,      \* max_entries of the trie
    Lists,         \* the IPv4 addresses upstream may publish (none: IPv6 only)
    InitKernel,    \* entries of the trie when the daemon starts
    Wants,         \* runtime configurations the operator may ask for
    InitWant,      \* the one at first
    MaxReloads,    \* bound: reloads that change the runtime configuration
    MaxFaults      \* bound: bpf calls that fail

ASSUME AbuseAssumption ==
    /\ Ip \subseteq Nat /\ IsFiniteSet(Ip) /\ Capacity \in Nat
    /\ \A l \in Lists : l \subseteq Ip
    /\ Wants \subseteq [t : Nat \ {0}, a : BOOLEAN, o : BOOLEAN]
    /\ InitKernel \subseteq Ip /\ Cardinality(InitKernel) <= Capacity /\ InitWant \in Wants
    /\ {MaxReloads, MaxFaults} \subseteq Nat

VARIABLES
    kernel,        \* the trie
    cache,         \* BpfLpmMap._cache
    missed,        \* history: entries the cache did not get when it was loaded
    rt,            \* xdp_runtime_cfg
    val,           \* BpfRuntimeConfigMap._val
    tpc,           \* where the thread stands
    rb,            \* replace_all rolls back
    target, previous, previousActive, added, removed,   \* locals of replace_all
    flags, timing,                                      \* locals of set_active
    torn,          \* history: a call of the rollback failed
    mpc, current,  \* main thread: where it stands, the timing it has read
    want,          \* the runtime configuration of the DesiredState
    calm,          \* history: a reconcile has "begun" or "done" its work since the
                   \* last refresh, without a call that failed
    reloads, faults

vars == <<kernel, cache, missed, rt, val, tpc, rb, target, previous, previousActive, added,
          removed, flags, timing, torn, mpc, current, want, calm, reloads, faults>>
trieVars  == <<kernel, cache>>
localVars == <<target, previous, previousActive>>
mainVars  == <<mpc, current, want, calm, reloads>>

Fault == faults < MaxFaults /\ faults' = faults + 1

Lowest(S)  == CHOOSE x \in S : \A y \in S : x <= y
Highest(S) == CHOOSE x \in S : \A y \in S : y <= x

\* A lookup that fails reads as zeros.
Unset == [t |-> 0, a |-> FALSE, o |-> FALSE]

\* _read_kernel: a key that cannot be read is left out, and a failed walk over
\* the keys ends with what there is so far, so the cache may miss any entries.
Init ==
    /\ kernel = InitKernel /\ cache \in SUBSET InitKernel
    /\ missed = InitKernel \ cache
    /\ rt = InitWant /\ val = InitWant /\ want = InitWant
    /\ tpc = "wait" /\ rb = FALSE /\ target = {} /\ previous = {} /\ previousActive = FALSE
    /\ added = {} /\ removed = {} /\ flags = Unset /\ timing = Unset.t /\ torn = FALSE
    /\ mpc = "idle" /\ current = Unset.t
    /\ calm = "no" /\ reloads = 0 /\ faults = 0

-----------------------------------------------------------------------------
(* replace_all. *)

\* _refresh with what was fetched, once it is normalised; when nothing was
\* fetched or an entry is malformed, the map is left alone.  _run refreshes for
\* ever, and a reload does not stop it.
Fetch(list) ==
    /\ tpc = "wait" /\ calm' = "no"
    /\ target' = list /\ previous' = cache /\ added' = {} /\ removed' = {}
    /\ rb' = FALSE /\ torn' = FALSE /\ tpc' = "was"
    /\ UNCHANGED <<trieVars, missed, rt, val, previousActive, flags, timing, mpc, current, want,
                   reloads, faults>>

\* The bpf call of a lookup fills the shared buffer, then it is unpacked.
Lookup(pc, next) ==
    /\ tpc = pc /\ tpc' = next /\ val' = rt
    /\ UNCHANGED <<trieVars, missed, rt, rb, localVars, added, removed, flags, timing, torn,
                   mainVars, faults>>

\* The lookup at pc was made and is unpacked, or it failed.
Looked(pc, unpack, result) ==
    \/ tpc = unpack /\ result = val /\ UNCHANGED faults
    \/ tpc = pc /\ result = Unset /\ Fault

ReadWasActive(result) ==
    /\ Looked("was", "was-read", result) /\ tpc' = "add" /\ previousActive' = result.a
    /\ UNCHANGED <<trieVars, missed, rt, val, rb, target, previous, added, removed, flags, timing,
                   torn, mainVars>>

\* BpfLpmMap.set and delete, when the bpf call succeeds.
Put(x)  == kernel' = kernel \cup {x} /\ cache' = cache \cup {x}
Take(x) == kernel' = kernel \ {x} /\ cache' = cache \ {x}
Full(x) == x \notin kernel /\ Cardinality(kernel) >= Capacity

\* The except branch of replace_all.
StartRollback == rb' = TRUE /\ tpc' = "undo-add"

\* The next new entry; all of them are written before any goes.
AddNew ==
    /\ tpc = "add"
    /\ LET left == target \ (previous \cup added)
           x    == Lowest(left)
       IN  \/ /\ left = {} /\ tpc' = "del" /\ UNCHANGED <<trieVars, added, rb, faults>>
           \/ /\ left # {} /\ ~Full(x) /\ Put(x) /\ added' = added \cup {x}
              /\ UNCHANGED <<tpc, rb, faults>>
           \/ /\ left # {} /\ IF Full(x) THEN UNCHANGED faults ELSE Fault
              /\ StartRollback /\ UNCHANGED <<trieVars, added>>
    /\ UNCHANGED <<missed, rt, val, localVars, removed, flags, timing, torn, mainVars>>

\* Mutant: every old entry goes.
StaleAll == previous

\* Entries that are no longer listed.
Stale == previous \ target

\* The next of them.
RemoveStale ==
    /\ tpc = "del"
    /\ LET left == Stale \ removed
           x    == Lowest(left)
       IN  \/ /\ left = {} /\ tpc' = "flags" /\ UNCHANGED <<trieVars, removed, rb, faults>>
           \/ /\ left # {} /\ Take(x) /\ removed' = removed \cup {x}
              /\ UNCHANGED <<tpc, rb, faults>>
           \/ left # {} /\ Fault /\ StartRollback /\ UNCHANGED <<trieVars, removed>>
    /\ UNCHANGED <<missed, rt, val, localVars, added, flags, timing, torn, mainVars>>

\* Rollback: the entries that were added are removed, newest first; an error
\* is logged and the loop goes on.
UndoAdd ==
    /\ tpc = "undo-add"
    /\ IF added = {} THEN tpc' = "undo-del" /\ UNCHANGED <<trieVars, added, torn, faults>>
       ELSE /\ added' = added \ {Highest(added)} /\ UNCHANGED tpc
            /\ \/ Take(Highest(added)) /\ UNCHANGED <<torn, faults>>
               \/ Fault /\ torn' = TRUE /\ UNCHANGED trieVars
    /\ UNCHANGED <<missed, rt, val, rb, localVars, removed, flags, timing, mainVars>>

\* Mutant: entries that were removed are not put back.
RestoreNone == {}

\* The removed entries that are to be put back.
ToRestore == removed

UndoDel ==
    /\ tpc = "undo-del"
    /\ IF ToRestore = {} THEN tpc' = "flags" /\ UNCHANGED <<trieVars, removed, torn, faults>>
       ELSE LET x == Lowest(removed)
            IN  /\ removed' = removed \ {x} /\ UNCHANGED tpc
                /\ \/ ~Full(x) /\ Put(x) /\ UNCHANGED <<torn, faults>>
                   \/ /\ IF Full(x) THEN UNCHANGED faults ELSE Fault
                      /\ torn' = TRUE /\ UNCHANGED trieVars
    /\ UNCHANGED <<missed, rt, val, rb, localVars, added, flags, timing, mainVars>>

-----------------------------------------------------------------------------
(* set_active: flags, timing, then the whole record. *)

\* Active as soon as anything is listed; a rollback restores what was.
Active == IF rb THEN previousActive ELSE target # {}

ReadFlags(result) ==
    /\ Looked("flags", "flags-read", result) /\ tpc' = "timing" /\ flags' = result
    /\ UNCHANGED <<trieVars, missed, rt, val, rb, localVars, added, removed, timing, torn,
                   mainVars>>

ReadTiming(result) ==
    /\ Looked("timing", "timing-read", result) /\ tpc' = "pack" /\ timing' = result.t
    /\ UNCHANGED <<trieVars, missed, rt, val, rb, localVars, added, removed, flags, torn,
                   mainVars>>

\* Mutant: the timing fields are sliced one place off.
PackedShifted == [t |-> timing + 1, a |-> Active, o |-> flags.o]

\* The record that is packed: both parts as they were read.
Packed == [t |-> timing, a |-> Active, o |-> flags.o]

PackActive ==
    /\ tpc = "pack" /\ tpc' = "update" /\ val' = Packed
    /\ UNCHANGED <<trieVars, missed, rt, rb, localVars, added, removed, flags, timing, torn,
                   mainVars, faults>>

\* replace_all returns or raises: its locals are gone.
Return ==
    /\ tpc' = "wait" /\ rb' = FALSE /\ target' = {} /\ previous' = {} /\ previousActive' = FALSE
    /\ added' = {} /\ removed' = {} /\ flags' = Unset /\ timing' = Unset.t

\* The bpf call writes what the buffer holds by now.
UpdateActive ==
    /\ tpc = "update"
    /\ \/ rt' = val /\ Return /\ UNCHANGED <<torn, faults>>
       \/ rb /\ Fault /\ Return /\ torn' = TRUE /\ UNCHANGED rt
       \/ /\ ~rb /\ Fault /\ StartRollback
          /\ UNCHANGED <<rt, localVars, added, removed, flags, timing, torn>>
    /\ UNCHANGED <<trieVars, missed, val, mainVars>>

Thread ==
    \/ Lookup("was", "was-read") \/ Lookup("flags", "flags-read") \/ Lookup("timing", "timing-read")
    \/ \E result \in {val, Unset} : ReadWasActive(result) \/ ReadFlags(result) \/ ReadTiming(result)
    \/ AddNew \/ RemoveStale \/ UndoAdd \/ UndoDel \/ PackActive \/ UpdateActive

-----------------------------------------------------------------------------
(* The main thread, in every reconcile. *)

threadVars == <<trieVars, missed, tpc, rb, localVars, added, removed, flags, timing, torn>>

\* A reload changes what is wanted.
ReloadRuntime(w) ==
    /\ mpc = "idle" /\ reloads < MaxReloads /\ reloads' = reloads + 1 /\ want' = w
    /\ calm' = "no"
    /\ UNCHANGED <<threadVars, rt, val, mpc, current, faults>>

\* History of a reconcile: it starts, a call of it fails, it ends.
Starts == calm' = IF calm = "no" /\ tpc = "wait" THEN "begun" ELSE calm
Fails  == calm' = IF calm = "begun" THEN "no" ELSE calm
Ends   == calm' = IF calm = "begun" THEN "done" ELSE calm

\* get(): the call, then the unpacking; get_cfg_flags() the same.
MainLookup(pc, next) ==
    /\ mpc = pc /\ mpc' = next /\ val' = rt
    /\ IF pc = "idle" THEN Starts ELSE UNCHANGED calm
    /\ UNCHANGED <<threadVars, rt, current, want, reloads, faults>>

MainReadTiming ==
    /\ mpc' = "flags"
    /\ \/ mpc = "timing-read" /\ current' = val.t /\ UNCHANGED <<calm, faults>>
       \/ mpc = "idle" /\ current' = Unset.t /\ Fault /\ UNCHANGED calm
    /\ UNCHANGED <<threadVars, rt, val, want, reloads>>

\* Mutant: only the timing is compared.
DiffersInTiming(read) == want.t # current

\* The configuration that was read is not the one that is wanted.
Differs(read) == [read EXCEPT !.t = current] # want

MainReadFlags(read) ==
    /\ \/ mpc = "flags-read" /\ read = val /\ UNCHANGED faults
       \/ mpc = "flags" /\ read = Unset /\ Fault
    /\ mpc' = IF Differs(read) THEN "pack" ELSE "idle"
    /\ current' = Unset.t
    /\ IF mpc = "flags" THEN Fails ELSE IF Differs(read) THEN UNCHANGED calm ELSE Ends
    /\ UNCHANGED <<threadVars, rt, val, want, reloads>>

MainPack ==
    /\ mpc = "pack" /\ mpc' = "update" /\ val' = want
    /\ UNCHANGED <<threadVars, rt, current, want, calm, reloads, faults>>

MainUpdate ==
    /\ mpc = "update" /\ mpc' = "idle"
    /\ \/ rt' = val /\ Ends /\ UNCHANGED faults
       \/ Fault /\ UNCHANGED rt /\ Fails
    /\ UNCHANGED <<threadVars, val, current, want, reloads>>

Main ==
    \/ MainLookup("idle", "timing-read") \/ MainReadTiming
    \/ MainLookup("flags", "flags-read") \/ (\E read \in {val, Unset} : MainReadFlags(read))
    \/ MainPack \/ MainUpdate

Next == Thread \/ Main \/ (\E l \in Lists : Fetch(l)) \/ (\E w \in Wants : ReloadRuntime(w))

Spec == Init /\ [][Next]_vars

\* Both threads are scheduled; the reconcile of the main thread is periodic.
FairSpec == Spec /\ WF_vars(Thread) /\ WF_vars(Main)

-----------------------------------------------------------------------------
(* Properties. *)

Timing  == {0} \cup {w.t : w \in Wants}
Runtime == [t : Timing, a : BOOLEAN, o : BOOLEAN]

\* The trie and what the thread knows of it; the trie stays within its capacity.
TrieType ==
    /\ kernel \subseteq Ip /\ Cardinality(kernel) <= Capacity /\ cache \subseteq Ip
    /\ missed \subseteq Ip /\ target \subseteq Ip /\ previous \subseteq Ip /\ added \subseteq Ip
    /\ removed \subseteq Ip

\* The record and the shared buffer always hold fields that were asked for or
\* zeros.
RuntimeType ==
    /\ rt \in Runtime /\ val \in Runtime /\ want \in Wants
    /\ flags \in Runtime /\ timing \in Timing /\ current \in Timing

\* Where the threads stand.
ControlType ==
    /\ tpc \in {"wait", "was", "was-read", "add", "del", "undo-add", "undo-del", "flags",
                "flags-read", "timing", "timing-read", "pack", "update"}
    /\ rb \in BOOLEAN /\ previousActive \in BOOLEAN /\ torn \in BOOLEAN
    /\ mpc \in {"idle", "timing-read", "flags", "flags-read", "pack", "update"}
    /\ calm \in {"no", "begun", "done"}

CountType ==
    reloads \in 0..MaxReloads /\ faults \in 0..MaxFaults

\* Types of all variables.
TypeOK == TrieType /\ RuntimeType /\ ControlType /\ CountType

\* While the list is replaced the trie holds all of the old list or all of the
\* new one.  While a failed replacement is rolled back it need not (the run
\* abuse_rollback): then the trie lacks those entries of the old list that were
\* removed and are not restored yet, and no others.  An address that is on both
\* lists is blocked throughout.
OldOrUnion ==
    tpc # "wait" =>
        /\ previous \cap target \subseteq kernel
        /\ ~rb => previous \subseteq kernel \/ target \subseteq kernel
        /\ rb /\ ~torn => previous \ removed \subseteq kernel

\* "New entries are written before stale entries are removed, so readers see
\* either the old blocklist or a fail-closed union of old and new entries. Any
\* update failure rolls back the changes" (abuseipdb.py): at no time is there
\* less than one of the two lists.
NeverLessThanAList ==
    tpc # "wait" => previous \subseteq kernel \/ target \subseteq kernel

\* A refresh ends with exactly the new list or, after an error, with exactly
\* the old one, as long as no call of the rollback fails too; only entries
\* the cache missed when it was loaded may be left over.
AllOrNothing ==
    [][(tpc # "wait" /\ tpc' = "wait" /\ ~torn') =>
          /\ cache = IF rb THEN previous ELSE target
          /\ kernel \ cache \subseteq missed /\ cache \subseteq kernel]_vars

\* A refresh may write back a flag or a timing that a reload has replaced, and
\* each thread may write what the other left in the shared buffer.  One
\* reconcile between two refreshes without a call that fails repairs it, and
\* until the next refresh or reload the configuration is the wanted one.
ReconcileRestores == calm = "done" => rt = want

\* However the two threads interleave on the shared buffer and on the record,
\* the runtime configuration ends up as the operator wants it, once no list is
\* published any more.  (While refreshes go on, each may undo it again.)
RuntimeSettles == <>[](tpc = "wait") => <>[](rt = want)
=============================================================================
