----------------------------- MODULE HandlerSwap -----------------------------
(***************************************************************************)
(* Loading, replacing and unloading the handler of one key of a program    *)
(* array (auto_xdp/admin_cli.py): "slot" handlers are pinned as files, one *)
(* per IP protocol, "port" handlers as directories, one per TCP or UDP     *)
(* port.  A command runs bpftool and renames pins step by step; any call   *)
(* may fail, the command may be killed between any two of them, and        *)
(* packets run through the entry all the while.                            *)
(*                                                                         *)
(* A program is named by the number of the load that made it.  A pin is    *)
(* None, a program, or Hollow: a port directory without a prog pin.        *)
(***************************************************************************)
EXTENDS Naturals

CONSTANTS
    None,          \* no program, no pin
    Hollow,        \* a directory that holds no program
    MaxLoads,      \* bound: load commands
    MaxFaults,     \* bound: calls that fail
    MaxDeaths      \* bound: commands that are killed

ASSUME HandlerAssumption ==
    /\ MaxLoads \in Nat /\ MaxFaults \in Nat /\ MaxDeaths \in Nat
    /\ None \notin Nat /\ Hollow \notin Nat /\ None # Hollow

VARIABLES
    kind,          \* "slot" or "port"
    wide,          \* the port is above 255
    entry,         \* program of the array entry
    live,          \* pin at the canonical path
    next, backup,  \* pins at the candidate and rollback paths of the command
    strays,        \* pins that earlier commands left behind
    conf,          \* handler named by the configuration file
    cache,         \* handlers that made the validation entries of the port
    pc, cmd,       \* where the command stands, and which one it is
    cand, old, active,  \* candidate_id, old_id, active_id
    moved,         \* moved_old, moved_candidate
    undone,        \* rollback_error is None
    outcome,       \* how the last command ended
    before,        \* history: entry, live, strays and conf when it began
    hit,           \* history: calls that failed in it
    loads, faults, deaths

pinVars   == <<live, next, backup, strays>>
swapVars  == <<cand, old, active, moved, undone>>
countVars == <<kind, wide, cmd, before, loads, deaths>>
vars == <<kind, wide, entry, pinVars, conf, cache, pc, cmd, swapVars, outcome, before, hit,
          loads, faults, deaths>>

Prog == 1..MaxLoads

Works == UNCHANGED <<hit, faults>>
Fails(n) == faults + n <= MaxFaults /\ faults' = faults + n /\ hit' = hit + n

\* The program a pin path names; None when prog does not exist there.
Pinned(pin) == IF pin = Hollow THEN None ELSE pin

Init ==
    /\ kind \in {"slot", "port"} /\ wide \in BOOLEAN /\ (wide => kind = "port")
    /\ entry = None /\ live = None /\ next = None /\ backup = None /\ strays = {}
    /\ conf = None /\ cache = {}
    /\ pc = "idle" /\ cmd = "none"
    /\ cand = None /\ old = None /\ active = None /\ moved = {} /\ undone = TRUE
    /\ outcome = "none"
    /\ before = [entry |-> None, live |-> None, strays |-> {}, conf |-> None]
    /\ hit = 0 /\ loads = 0 /\ faults = 0 /\ deaths = 0

\* A command begins.
Begin(c) ==
    /\ pc = "idle" /\ cmd' = c /\ outcome' = "none"
    /\ before' = [entry |-> entry, live |-> live, strays |-> strays, conf |-> conf]

\* A command ends; pins under its own random names are forgotten.
End(how, leftLive, leftNext, leftBackup) ==
    /\ pc' = "idle" /\ outcome' = how
    /\ live' = leftLive /\ next' = None /\ backup' = None
    /\ strays' = strays \cup ({leftNext, leftBackup} \ {None})
    /\ cand' = None /\ old' = None /\ active' = None /\ moved' = {} /\ undone' = TRUE

-----------------------------------------------------------------------------
(* Load: the candidate is pinned, checked and put into the array. *)

\* Every check of the arguments and of the pinned maps, the compiler and
\* bpftool prog load; a failure leaves nothing behind.
LoadCandidate ==
    /\ Begin("load") /\ loads < MaxLoads /\ loads' = loads + 1
    /\ \/ /\ hit' = 0 /\ UNCHANGED faults
          /\ next' = loads' /\ cand' = loads' /\ pc' = "preflight"
       \/ /\ faults < MaxFaults /\ faults' = faults + 1 /\ hit' = 1
          /\ pc' = "failed" /\ UNCHANGED <<next, cand>>
    /\ UNCHANGED <<kind, wide, entry, live, backup, strays, conf, cache, old, active, moved, undone,
                   deaths>>

LoadSlot == kind = "slot" /\ LoadCandidate
LoadPort == kind = "port" /\ LoadCandidate

\* The load failed: return 1.
LoadFailed ==
    /\ pc = "failed" /\ Works
    /\ End("failed", live, None, None)
    /\ UNCHANGED <<entry, conf, cache, countVars>>

\* An active entry needs a live pin of the same program to roll back to.
Refused(o, a) == \/ o = None /\ a # None
                 \/ o # None /\ a \notin {None, o}

\* The three ids are read before anything is touched.  A lookup that fails
\* looks like an empty entry; a pin that cannot be read raises.
Preflight ==
    /\ pc = "preflight"
    /\ old' = Pinned(live)
    /\ \/ Works /\ active' = entry /\ pc' = IF Refused(old', active') THEN "discard" ELSE "update"
       \/ Fails(1) /\ active' = None /\ pc' \in {"discard", "update"}
    /\ UNCHANGED <<entry, pinVars, conf, cache, cand, moved, undone, outcome, countVars>>

\* A refused candidate is unlinked; an error of that is ignored.
Discard ==
    /\ pc = "discard"
    /\ \/ Works /\ End("refused", live, None, None)
       \/ Fails(1) /\ End("refused", live, next, None)
    /\ UNCHANGED <<entry, conf, cache, countVars>>

\* _prog_array_update: the only step that changes what packets run through.
UpdateArray ==
    /\ pc = "update"
    /\ \/ Works /\ entry' = next /\ pc' = "verify"
       \/ Fails(1) /\ pc' = "drop" /\ UNCHANGED entry
    /\ UNCHANGED <<pinVars, conf, cache, swapVars, outcome, countVars>>

\* _verify_prog_array_entry, a first time; then what is to be moved.
VerifySwitch ==
    /\ pc = "verify"
    /\ \/ Works /\ entry = cand /\ pc' = IF live = None THEN "moveNew" ELSE "moveOld"
       \/ Fails(1) /\ pc' = "undo"
    /\ UNCHANGED <<entry, pinVars, conf, cache, swapVars, outcome, countVars>>

\* Mutant: the old pin is dropped as soon as the array is switched.
MoveOldDrops ==
    /\ pc = "moveOld"
    /\ Works /\ live' = None /\ moved' = moved \cup {"old"} /\ pc' = "moveNew"
    /\ UNCHANGED <<entry, next, backup, strays, conf, cache, cand, old, active, undone, outcome,
                   countVars>>

\* The live pin or directory becomes the backup.
MoveOld ==
    /\ pc = "moveOld"
    /\ \/ /\ Works
          /\ backup' = live /\ live' = None /\ moved' = moved \cup {"old"} /\ pc' = "moveNew"
       \/ Fails(1) /\ pc' = "undo" /\ UNCHANGED <<live, backup, moved>>
    /\ UNCHANGED <<entry, next, strays, conf, cache, cand, old, active, undone, outcome, countVars>>

\* The candidate becomes the live pin.
MoveNew ==
    /\ pc = "moveNew"
    /\ \/ /\ Works
          /\ live' = next /\ next' = None /\ moved' = moved \cup {"new"} /\ pc' = "commit"
       \/ Fails(1) /\ pc' = "undo" /\ UNCHANGED <<live, next, moved>>
    /\ UNCHANGED <<entry, backup, strays, conf, cache, cand, old, active, undone, outcome, countVars>>

\* Array and live pin are verified once more.
VerifyCommit ==
    /\ pc = "commit"
    /\ \/ /\ Works /\ entry = cand /\ live = cand
          /\ pc' = IF "old" \in moved THEN "dropOld" ELSE "flush"
       \/ Fails(1) /\ pc' = "undo"
    /\ UNCHANGED <<entry, pinVars, conf, cache, swapVars, outcome, countVars>>

\* backup_pin.unlink(), still under the exception handler.
DropOldFile ==
    /\ pc = "dropOld"
    /\ \/ Works /\ backup' = None /\ pc' = "flush"
       \/ Fails(1) /\ pc' = "undo" /\ UNCHANGED backup
    /\ UNCHANGED <<entry, live, next, strays, conf, cache, swapVars, outcome, countVars>>

\* shutil.rmtree(backup_dir): a failure is only a warning.
DropOldDir ==
    /\ pc = "dropOld"
    /\ \/ Works /\ backup' = None
       \/ Fails(1) /\ backup' \in {backup, Hollow}
    /\ pc' = "flush"
    /\ UNCHANGED <<entry, live, next, strays, conf, cache, swapVars, outcome, countVars>>

\* Mutant: caches are flushed only when a handler was replaced.
FlushIfReplaced ==
    /\ pc = "flush" /\ Works /\ pc' = "record"
    /\ cache' = IF old = None THEN cache ELSE {}
    /\ UNCHANGED <<entry, pinVars, conf, swapVars, outcome, countVars>>

\* The validation entries of the port are deleted.  An error is not caught:
\* the command ends in the middle, with the new handler in force.
Flush ==
    /\ pc = "flush"
    /\ \/ /\ Works /\ pc' = "record"
          /\ cache' = IF kind = "port" THEN {} ELSE cache
          /\ UNCHANGED <<pinVars, swapVars, outcome>>
       \/ /\ kind = "port" /\ Fails(1)
          /\ cache' \in SUBSET cache
          /\ End("aborted", live, next, backup)
    /\ UNCHANGED <<entry, conf, countVars>>

\* The configuration after a command that puts h into it; the port commands
\* leave it alone under --no-config-update.
Recorded(h) == IF kind = "port" THEN {h, conf} ELSE {h}

\* The file is replaced as a whole or, when that fails, not at all.
Record ==
    /\ pc = "record"
    /\ \/ /\ Works /\ End("loaded", live, next, backup)
          /\ conf' \in Recorded(cand)
       \/ Fails(1) /\ End("aborted", live, next, backup) /\ UNCHANGED conf
    /\ UNCHANGED <<entry, cache, countVars>>

-----------------------------------------------------------------------------
(* Load: the exception handler. *)

\* Mutant: the candidate is taken out before the old program is put back.
UndoDeletes ==
    /\ pc = "undo" /\ pc' = "undoNew"
    /\ \/ Works /\ entry' = None /\ undone' = TRUE
       \/ Fails(1) /\ undone' = FALSE /\ UNCHANGED entry
    /\ UNCHANGED <<pinVars, conf, cache, cand, old, active, moved, outcome, countVars>>

\* _rollback_prog_array_entry.  Without an old program the entry is deleted:
\* an error only if a lookup then still finds it, and a lookup that fails
\* finds nothing.  Otherwise the old pin, wherever it is now, goes back into
\* the array and is verified.
Undo ==
    /\ pc = "undo" /\ pc' = "undoNew"
    /\ \/ /\ old = None
          /\ \/ Works /\ entry' = None /\ undone' = TRUE
             \/ Fails(1) /\ undone' = FALSE /\ UNCHANGED entry
             \/ Fails(2) /\ undone' = TRUE /\ UNCHANGED entry
       \/ /\ old # None
          /\ LET pin == IF "old" \in moved THEN backup ELSE live
             IN  \/ Works /\ entry' = Pinned(pin) /\ undone' = TRUE
                 \/ Fails(1) /\ undone' = FALSE /\ entry' \in {entry, Pinned(pin)}
    /\ UNCHANGED <<pinVars, conf, cache, cand, old, active, moved, outcome, countVars>>

\* live -> candidate; an error is ignored.
UndoNew ==
    /\ pc = "undoNew" /\ pc' = "undoOld"
    /\ \/ /\ Works
          /\ IF "new" \in moved THEN next' = live /\ live' = None ELSE UNCHANGED <<live, next>>
       \/ "new" \in moved /\ Fails(1) /\ UNCHANGED <<live, next>>
    /\ UNCHANGED <<entry, backup, strays, conf, cache, swapVars, outcome, countVars>>

\* Mutant: the backup is not renamed back.
UndoOldForgets ==
    /\ pc = "undoOld" /\ pc' = "drop" /\ Works
    /\ UNCHANGED <<entry, pinVars, conf, cache, swapVars, outcome, countVars>>

\* backup -> live, unless live is taken; an error is ignored.
UndoOld ==
    /\ pc = "undoOld" /\ pc' = "drop"
    /\ LET back == "old" \in moved /\ live = None
       IN  \/ /\ Works
              /\ IF back THEN live' = backup /\ backup' = None ELSE UNCHANGED <<live, backup>>
           \/ back /\ Fails(1) /\ UNCHANGED <<live, backup>>
    /\ UNCHANGED <<entry, next, strays, conf, cache, swapVars, outcome, countVars>>

\* After a rollback that failed both pins are kept; otherwise the candidate
\* is removed, if that works, and the command reports "previous program
\* restored".
Drop ==
    /\ pc = "drop"
    /\ \/ ~undone /\ Works /\ End("rollback failed", live, next, backup)
       \/ undone /\ Works /\ End("restored", live, None, backup)
       \/ undone /\ next # None /\ Fails(1) /\ End("restored", live, next, backup)
    /\ UNCHANGED <<entry, conf, cache, countVars>>

-----------------------------------------------------------------------------
(* Unload. *)

StartUnload ==
    /\ Begin("unload") /\ hit' = 0 /\ pc' = "delete"
    /\ UNCHANGED <<kind, wide, entry, pinVars, conf, cache, swapVars, loads, faults, deaths>>

\* bpftool map delete; its result is not looked at.  Both commands write the
\* key as its number and three zeros, and bpftool takes each for one byte: for
\* a port above 255 the entry of another key is deleted.
DeleteEntry ==
    /\ pc = "delete" /\ pc' = IF kind = "port" THEN "unflush" ELSE "unpin"
    /\ \/ Works /\ entry' = IF wide THEN entry ELSE None
       \/ Fails(1) /\ UNCHANGED entry
    /\ UNCHANGED <<pinVars, conf, cache, swapVars, outcome, countVars>>

\* The port's validation entries; an error ends the command.
UnloadFlush ==
    /\ pc = "unflush"
    /\ \/ /\ Works /\ cache' = {} /\ pc' = "unpin" /\ UNCHANGED <<pinVars, swapVars, outcome>>
       \/ Fails(1) /\ cache' \in SUBSET cache /\ End("aborted", live, next, backup)
    /\ UNCHANGED <<entry, conf, countVars>>

\* Mutant: the slot's pin is removed the way a port's directory is.
UnpinTree ==
    /\ pc = "unpin" /\ pc' = "forget"
    /\ \/ Works /\ live' = None
       \/ live # None /\ Fails(1) /\ live' \in {live, Hollow}
    /\ UNCHANGED <<entry, next, backup, strays, conf, cache, swapVars, outcome, countVars>>

\* pin_path.unlink() raises; shutil.rmtree(ignore_errors=True) may leave a
\* directory with or without its program.
Unpin ==
    /\ pc = "unpin"
    /\ \/ /\ Works /\ live' = None /\ pc' = "forget"
          /\ UNCHANGED <<next, backup, strays, swapVars, outcome>>
       \/ /\ kind = "port" /\ live # None /\ Fails(1) /\ live' \in {live, Hollow} /\ pc' = "forget"
          /\ UNCHANGED <<next, backup, strays, swapVars, outcome>>
       \/ kind = "slot" /\ live # None /\ Fails(1) /\ End("aborted", live, next, backup)
    /\ UNCHANGED <<entry, conf, cache, countVars>>

\* _cmd_slot_disable, _port_handler_config_update(..., None).
Forget ==
    /\ pc = "forget"
    /\ \/ /\ Works /\ End("unloaded", live, next, backup)
          /\ conf' \in Recorded(None)
       \/ Fails(1) /\ End("aborted", live, next, backup) /\ UNCHANGED conf
    /\ UNCHANGED <<entry, cache, countVars>>

-----------------------------------------------------------------------------
(* Kills, packets. *)

\* The command is killed.
Die ==
    /\ pc # "idle" /\ deaths < MaxDeaths /\ deaths' = deaths + 1 /\ Works
    /\ End("died", live, next, backup)
    /\ UNCHANGED <<kind, wide, entry, conf, cache, cmd, before, loads>>

\* The active handler of a port validates a flow.
Packet ==
    /\ kind = "port" /\ entry # None
    /\ cache' = cache \cup {entry}
    /\ UNCHANGED <<kind, wide, entry, pinVars, conf, pc, cmd, swapVars, outcome, before, hit,
                   loads, faults, deaths>>

Swap == \/ Preflight \/ Discard \/ UpdateArray \/ VerifySwitch \/ MoveOld \/ MoveNew
        \/ VerifyCommit \/ Undo \/ UndoNew \/ UndoOld \/ Drop

\* The two swap functions differ in when and how the backup is removed.
FileSwap == kind = "slot" /\ (Swap \/ DropOldFile)
DirSwap  == kind = "port" /\ (Swap \/ DropOldDir)

SlotUnload == kind = "slot" /\ (StartUnload \/ DeleteEntry \/ Unpin \/ Forget)
PortUnload == kind = "port" /\ (StartUnload \/ DeleteEntry \/ UnloadFlush \/ Unpin \/ Forget)

Next == \/ LoadSlot \/ LoadPort \/ LoadFailed \/ FileSwap \/ DirSwap \/ Flush \/ Record
        \/ SlotUnload \/ PortUnload \/ Die \/ Packet

Spec == Init /\ [][Next]_vars

-----------------------------------------------------------------------------
(* Properties. *)

Pin == Prog \cup {None, Hollow}

\* Array and pins; a slot never has a hollow pin.
PinType ==
    /\ kind \in {"slot", "port"} /\ wide \in BOOLEAN /\ entry \in Prog \cup {None}
    /\ live \in Pin /\ next \in Pin /\ backup \in Pin /\ strays \subseteq Pin
    /\ kind = "slot" => Hollow \notin {live, next, backup} \cup strays
    /\ conf \in Prog \cup {None} /\ cache \subseteq Prog

\* The command and its locals.
CommandType ==
    /\ pc \in {"idle", "failed", "preflight", "discard", "update", "verify", "moveOld", "moveNew",
               "commit", "dropOld", "flush", "record", "undo", "undoNew", "undoOld", "drop",
               "delete", "unflush", "unpin", "forget"}
    /\ cmd \in {"none", "load", "unload"}
    /\ {cand, old, active} \subseteq Prog \cup {None}
    /\ moved \subseteq {"old", "new"} /\ undone \in BOOLEAN
    /\ outcome \in {"none", "failed", "refused", "loaded", "restored", "rollback failed",
                    "unloaded", "aborted", "died"}
    /\ before \in [entry : Prog \cup {None}, live : Pin, strays : SUBSET Pin,
                   conf : Prog \cup {None}]

CountType ==
    /\ hit \in 0..MaxFaults /\ loads \in 0..MaxLoads /\ faults \in 0..MaxFaults
    /\ deaths \in 0..MaxDeaths

\* Types of all variables.
TypeOK == PinType /\ CommandType /\ CountType

\* "Atomically switch a PROG_ARRAY entry" (_transactional_file_prog_swap):
\* from the first look at an active entry to the end of the load, the rollback
\* included, packets run through the old handler or the new one, never none.
HandlerNeverLost ==
    (cmd = "load" /\ pc # "idle" /\ active # None) => entry \in {active, cand}

\* "The old program remains pinned until the kernel lookup confirms the new
\* program ID": whatever fails and wherever the load is killed, the program
\* it found pinned is still pinned under some name, or array and live pin both
\* hold the new one.
OldStaysPinned ==
    (cmd = "load" /\ before.live \in Prog /\ before.live \notin {live, next, backup} \cup strays)
        => entry = loads /\ live = loads

\* "Any failure before the final cleanup restores the old entry and pin name":
\* a load that starts from an entry and a live pin that agree and meets a
\* single failure in the swap changes nothing, and one that meets no failure
\* succeeds.
AllOrNothing ==
    (cmd = "load" /\ pc = "idle" /\ before.entry = Pinned(before.live)) =>
        /\ (outcome \in {"failed", "refused", "restored"} /\ hit <= 1) =>
              /\ [entry |-> entry, live |-> live, strays |-> strays, conf |-> conf] = before
        /\ (hit = 0 /\ outcome # "died") => outcome = "loaded"

\* "Handler-specific validation caches must not survive a successful handler
\* replacement": after a load or unload that succeeds, every validation entry
\* was made by the handler that is active now.
NoStaleValidation ==
    (pc = "idle" /\ kind = "port" /\ outcome \in {"loaded", "unloaded"}) => cache \subseteq {entry}

\* "Remove handler from a port" (axdp): after an unload in which no call failed
\* packets run through no handler.
UnloadRemoves ==
    (cmd = "unload" /\ outcome = "unloaded" /\ hit = 0) => entry = None
=============================================================================
