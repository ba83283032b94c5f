# Auto_XDP: TLA+ models and proofs

Auto_XDP keeps a default-deny XDP firewall in step with the sockets a host
listens on. A Python daemon discovers the sockets, resolves a policy and writes
it into pinned BPF maps; XDP and tc programs read those maps for every packet
and keep conntrack entries and counters in others.

This directory models the parts in which the order of steps matters: the
daemon's reconcile on both backends, its watch loop, discovery, policy and
configuration, the AbuseIPDB thread, the packet relay and its subscribers, the
commands that swap handlers, the shared rate window and TCP connection tracking.
`PROJECT.json` lists the components, runs, mutants, source lines, findings,
hazards and theorems.

## Inventory

| Component | State | Operations | Interacts with | What is hard | What makes it correct |
|---|---|---|---|---|---|
| XDP backend, map wrappers (`auto_xdp/backends/xdp.py`, `auto_xdp/bpf/maps.py`, `state.py`, `policy.py`) | pinned kernel maps; one cache per map; `_conntrack_stale_rounds`, `last_apply_failures` | open, close, reconcile (22 stages of single map syscalls), verify, conntrack GC | packet path (same maps), watch loop (caller) | failure or crash between two syscalls, reads that fail without an error, caches that differ from the kernel, views that share one entry | a port is opened only under protection; a clean reconcile converges; repeated reconciles repair everything |
| Watch loop (`syncer.py`, `proc_events.py`) | event time stamps, sockets, backend handle, reload flag | open backend, wait, drain, debounce, periodic reconcile, SIGHUP, stale check | backend, pkt_relay, proc connector | events during a sync, retries, lost sources, starvation | no announced change is lost; bounded staleness; policy follows the sockets |
| Window rate limiter (`rate_limit.h`, `WINDOW_RATE_CHECK`) | one 64-bit word per key in LRU maps | check a packet | all CPUs, LRU eviction | compare-and-swap races, tick wraparound, clock lag | exact count, limit per window, drops justified |
| TCP conntrack and connection limits (`conntrack.h`, `rate_limit.h`, `tc_flow_track.c`) | entry per flow with pending bit, counter words | SYN, ACK, FIN, RST; egress SYN, ACK, RST; GC; seed; LRU eviction | all CPUs, daemon | in-place swap against replaced elements, check at SYN and count at ACK, entries that go without being uncounted | count agrees with the handshakes and closes; drops justified by it; no resurrection |
| Global UDP limiter (`rate_limit.h` 775-904) | global budget, per-CPU batch, `blocked_until_ns` | admit bytes | all CPUs, runtime configuration | batches across rollover | overshoot bounded by CPUs times batch |
| XDP pipeline (`xdp_firewall.c`, `trust_acl.h`, `port_dispatch.h`, `slots.h`) | whitelists, trusted, ACL, slots | verdict | everything above | order of exceptions, tail calls that return | nothing passes but by a listed reason |
| Handlers (`handlers/`) | login state, block list, SCTP entries | per-protocol checks | dispatch | state kept between packets | no pass without handshake |
| nftables backend (`nftables.py`) | one table, `_policy_signature` | bootstrap, migrate, reconcile in one transaction | watch loop | skipping what seems installed, a table that is gone, migration | what was installed is what was wanted; permanent ports never fall out |
| pkt_relay, sock_state (`pkt_relay.py`, `sock_state.py`, `sock_state_track.c`) | two ring buffers, queue, history, subscribers | drain, queue, accept, broadcast, drop slow subscriber | watch loop, TUI | two threads, full buffers, torn lines, kill between queueing and consuming | order kept, losses only where a buffer is full or the relay dies, no subscriber blocks another |
| Discovery, policy, configuration (`discovery.py`, `policy.py`, `config.py`) | module globals | dump sockets, look up processes, resolve limits; apply a file | watch loop, axdp | values that raise half way, sockets that close between two looks, precedence | reload is all or nothing; no limit only where one says so |
| AbuseIPDB (`abuseipdb.py`) | trie, its cache, flag in the runtime configuration | download, replace, roll back | main thread, runtime configuration map | partial replacement, full trie, shared buffer of two threads | old list or union; all or nothing; settings survive |
| Handler commands (`admin_cli.py`) | program arrays, pins, `config.toml`, validation entries | load, replace, unload | packet path, start script | failure or kill between switching and renaming | never without a handler, old program pinned, no stale validation |
| Configuration commands (`admin_cli.py`) | `config.toml` | trust, acl, permanent, exclude | daemon (SIGHUP) | concurrent read-modify-write | readers see whole files |
| Installer, start scripts | files, attached programs | install, start, roll back | everything | failure half way | old firewall stays until the new one runs |
| TUI (`tui.py`) | `RelayClient` line buffer, events | poll | relay | half lines across connections | events without gap or repetition |

## Modules

| Module | Models | State and actions |
|---|---|---|
| `XdpBackend` | XDP backend | `k...` kernel maps, `c...` caches; `pc` is the stage of `apply_reconcile_plan`, `todo` its remaining items. `Reconcile` computes the plan, `Advance` enters a stage, `ApplyOne` makes one map syscall (`SetPort`, `DeleteFlow`, `SeedFlow`, `WriteView`, `WriteSlot`, `WritePrefix`, `WriteAux`), each of which may fail. Reads may fail too: `Load` fills the caches with all but a set of missed entries (`Missable`, `PolicyReads`), and the lookups of `Reconcile` and `Advance` may read nothing; `unread` remembers what was missed, `sitOpen` whether the 6in4 map is open. `BackendInit`, `BackendGone`, `VerifyKernelState`, `RunCtGc`; `PacketPath`, `Drift`, `ChangeTarget` for the rest of the world |
| `Syncer` | `watch()` | `pc` is the place in the loop; time stamps are ages in ticks of 0.05 s; the sockets are a version number. One action per block of the loop |
| `PolicySync` | promise of the daemon | `listeners`, `applied`; abstract specification implemented by `Syncer` (`Promise` there is the refinement mapping) |
| `AtomicWindow` | promise of `WINDOW_RATE_CHECK` | `windows` of a start time and a count instead of words with ticks; `Check` looks up and makes, reopens or counts in one step; implemented by `RateWindow` (`Atomic` there maps the tick of each word to the time it stands for) |
| `RateWindow` | `WINDOW_RATE_CHECK` | one key; per CPU a program counter, packet, pointer and word read; `Arrive`, `Lookup`, `Create`, `CreateFails`, `Read`, `Swap`, `Evict`, `Elapse` |
| `Conntrack` | TCP conntrack, connection counter | entries, one counter, one job per CPU in steps of one map access; `hold` says what became of an element a CPU has a pointer to. `Evict` and `EvictCount` are the LRU maps at their limit. `booked`, `lost` and `spoilt` are the book kept beside the counter: the flows a handshake counted, how many of them went without being uncounted, and whether something happened after which the counter can no longer agree |
| `HandlerSwap` | `slot load/unload`, `port-handler load/unload` | one key of a program array: `entry`, the pins `live`, `next`, `backup`, `strays`, the configured handler and the handlers whose validations are cached. `pc` is the place in `_transactional_file_prog_swap` or `_transactional_dir_prog_swap`; one action per bpftool call or rename and per step of the exception handler, each of which may fail; `Die` between any two; `Packet` |
| `PktRelay` | relay, TUI's `RelayClient`, daemon's `_drain_relay_lines` | rings with busy and ready records, queue, history, socket buffers of two subscribers; `Reader` and `Main` are the two threads, `Reserve`, `Submit` the kernel, `StopRelay` a stop or kill |
| `Policy` | `config.py`, `discovery.py`, `policy.py` | operators: `ApplyToml`, `ListenTcp`, `ListenUdp`, `TcpProcess`, `PortRateLimit`, `TierLimit`, `UdpLimit`, `DesiredState` |
| `Nftables` | nftables backend under the daemon; composes `Policy`, the axdp configuration commands, reload and restart | `open` sockets, `file`, `held` by each command, `running` configuration, `kernel` tables, `sig`; `AdminRead`, `AdminWrite`, `HandEdit`, `Sighup`, `Reload`, `OpenBackend`, `DumpTcp`, `DumpUdp`, `ApplySkip`, `ApplyInstall`, `ApplyFails`, `Kill`, `Start`, `StartBlind`, `RemoveTable`. `blind`: the daemon runs on the empty configuration of a start without its file; `icmpAt`: the ICMP limit at the last install |
| `AbuseIpdb` | AbuseIPDB thread beside the main thread's runtime stage | trie and cache, `rt` (runtime configuration), `val` (the shared buffer); every lookup and update is a call and an unpacking or packing of its own; `calm` follows a reconcile that no refresh or failing call disturbs |
| `MC...` | | constants for TLC |
| `...Proofs` | | theorems about the module they extend: `XdpBackend`, `Syncer`, `RateWindow`, `Conntrack`, `HandlerSwap`, `PktRelay`, `Nftables`, `AbuseIpdb` |

Operators whose comment begins with "Mutant:" are plausible bugs of the code.
They are used by no specification; putting one in place of the definition below
it makes the property `PROJECT.json` names for it fail.

### Abstractions

* A port is a (protocol, number) pair; limits, prefixes, capacities and values
  of the five remaining maps are small sets. The order of items inside a stage
  is left open, which allows every order the code's `sorted()` can produce.
* The kernel does one map syscall atomically. A failed syscall changes neither
  kernel nor cache.
* A failed read is never an error to the caller. The cache of a whitelist, of the
  trusted sources, the ACL or the inner maps may miss any of the entries; that of a
  policy map is empty; the walk over the conntrack maps may end anywhere; the
  lookup of the global UDP limit or of the runtime settings reads as none. The one
  read that raises is the walk over the 6in4 endpoints: at start it leaves
  `sit4_map` at None for the life of the object, in `verify_kernel_state` it ends
  the daemon, which is `BackendGone`. Not modelled: optional pinned maps that are
  not there at all, and an inner map whose size cannot be read at start.
* `drifted` marks that something else than the daemon changed the maps since
  the caches were loaded. The properties of a reconcile are stated without
  drift; `EventuallyConverges` includes it.
* Ticks of `RateWindow` are `TickMod` wide, the differences unsigned as in C.
  In `Conntrack` a time stamp later than the packet's own clock counts as
  expired, which is what `now - ts > timeout` gives in unsigned arithmetic.
* In `Conntrack`, compare-and-swap through a pointer to an element no longer in
  the map may go either way: the memory may have been reused. A CPU that updates a
  counter while it is evicted goes on with the old element. What a stale pointer
  may do to the entry of another key is not modelled, here and in `RateWindow`.
* In `HandlerSwap` a program is the number of the load that made it, a port
  directory without its program is `Hollow`. A key above 255 (`wide`) matters
  only where the code encodes it differently. Random pin names never collide,
  so pins of earlier commands are a set (`strays`).
* In `PktRelay` a socket buffer holds whole lines, plus the torn part of the line
  at which a subscriber is dropped. `recv` may split any line (`ReadHalf`).
* In `Policy` a section of `config.toml` is one value that is valid, coerced to
  the default or raising; the four limits that share one resolution are one
  (`TierLimit`). The address of a socket is a class of addresses.
* In `Nftables` a ruleset is the record of what it admits and limits, its
  installation one atomic step, as nftables transactions are.
* In `AbuseIpdb` the timing fields are one number; ctypes releases the
  interpreter lock in every bpf call, so the other thread may run before and
  after it. A lookup that fails leaves the buffer alone.
* `dry_run`, logging and the remaining key encodings are left out.

## Runs

| Run | Expect | States, time | Shows |
|---|---|---|---|
| `backend_sync` | pass | 799 k, 2 min | with failing updates and reads, drift and crashes: a port is opened only when its limits, inner maps and every wanted entry of the auxiliary maps are in force (`NewPortProtected`); a clean reconcile converges but for unwanted entries that a failed read missed (`CleanReconcileConverges`); a flow is removed as stale only after two misses in a row (`StaleNeedsMisses`); everything, those entries included, converges for good once faults stop (`EventuallyConverges`) |
| `backend_tail` | violation | | a port whose only limits are per prefix or per port is opened without them |
| `syncer_loop` | pass | 1.4 M, 1 min | no announced change is lost; state is read at least every 30 s, later only by one wait for each fault (`DiscoveryFresh`); debounce is capped; `Syncer` implements `PolicySync`, liveness included (`FollowsListeners`) |
| `rate_window` | pass | 2.6 M, 2.5 min | exact counting, admission within the limit, bounded bursts, justified drops; the interleaved check implements the check of one step in `AtomicWindow` (`ChecksAreAtomic`) |
| `conn_track` | pass | 3.6 M, 2 min | counter and updates under way make up the connections of the book (`CountExact`); a SYN is refused for the limit only when the book has that many (`LimitDropJustified`); a refresh or promotion never brings a deleted entry back (`NoResurrection`) |
| `handler_swap` | pass | 273 k, 10 s | during a load packets run through the old or the new handler (`HandlerNeverLost`); the old program stays pinned until the new one is in force and has its name (`OldStaysPinned`); one failure changes nothing (`AllOrNothing`); a successful command leaves no validation of another handler (`NoStaleValidation`) |
| `handler_unload` | violation | | unloading the handler of a port above 255 leaves it in force |
| `relay_stream` | pass | 390 k, 2 min | every event is delivered in order, still under way or lost to a full buffer or a dying relay (`Accounted`); the TUI's stream has no gap or repetition (`StreamContiguous`); no subscriber holds up the relay (`EveryEventMoves`); the daemon acts on every port change it was not kept from (`PortChangeNoticed`) |
| `nft_policy` | pass | 902 k, 2.5 min | a sync without an error leaves the wanted policy, also when it was skipped, with the ICMP limit of the last install (`SyncInstallsPolicy`); a daemon that has read its file never takes a permanent port out (`PermanentStaysOpen`); no SYN limit is missing unless an explicit value of 0 or less says so (`UnlimitedIsPinned`); the table follows sockets and configuration (`Converges`) |
| `nft_icmp` | violation | | a reload that changes only the ICMP limit is synced without an error and does not reach the table |
| `abuse_refresh` | pass | 1.1 M, 1 min | while the list is replaced the trie holds the old list or all of the new one, addresses on both throughout, and a rollback lacks no more than what it has still to restore (`OldOrUnion`); a refresh ends with exactly one of the lists (`AllOrNothing`); one undisturbed reconcile between two refreshes restores the operator's runtime configuration (`ReconcileRestores`), and it stays when refreshes stop (`RuntimeSettles`) |
| `abuse_rollback` | violation | | during a rollback the trie may hold neither list |

### Differences found

With a run:

* `backend_tail`: `BpfPortPolicyViewMap.set` drops the whole entry when its first
  three fields are 0, and with it the two connection limits behind them.
* `handler_unload`: `_cleanup_existing_port_handler` passes the port to bpftool as
  one byte and three zeros. Above 255 the entry of another key, or none, is
  deleted, the result is not looked at, and "Unloaded" is printed. The handler
  stays in force without a pin, so the next load of the port is refused. With
  the bundled Minecraft handler (port 25565) this is the normal case.
* `nft_icmp`: `_policy_signature` (`nftables.py` 80-103) leaves out the ICMP limits
  that `_render_ruleset` writes: a reload that changes only them is skipped,
  although `config.toml` 3 says the file is reloaded without a restart.
* `abuse_rollback`: the docstring of `replace_all` promises readers the old list or
  the union. When a removal or `set_active` fails, the rollback deletes the new
  entries before it restores the old ones (`abuseipdb.py` 156-161), so for a while
  the trie has less than either list.

Visible in the models, without a run of their own:

* An outgoing RST, the collector, the daemon and an eviction take conntrack entries
  away without decrementing the connection counters (`tc_flow_track.c` 313), so a SYN
  can be refused for a connection that is gone until the counter times out. These
  are the `lost` connections of `CountExact` and `LimitDropJustified`.
* Some events leave the counter wrong until it restarts (`spoilt`): two packets
  close one flow, or close one that no handshake counted (seeded, or of an outgoing
  SYN); an ACK promotes an element that has left the map; the attempts of the
  compare-and-swap run out, or the number of connections does; a close or a
  refresh meets an empty counter; a counter that looks expired, also
  because the clock of the packet was read before another CPU stamped it
  (`rate_limit.h` 358; the comment at 282 calls the delta wrap-safe), is restarted
  while other CPUs update it; it is evicted while they do.
* A read of a map that fails (`maps.py` 262-271, 360-371, 506-519) is not counted in
  `last_apply_failures`: a stale CIDR, rule, rate or inner map can outlive a
  reconcile that reports success (`Leftover`), until a verification reads it.
* A daemon that starts when its file is missing or unreadable comes up with an empty
  configuration (`config.py` 284-292, not strict at `cli.py` 31), and its first sync
  removes the permanent ports (`blind` in `PermanentStaysOpen`).
* An `nft list table` that fails is taken for no table, and the bootstrap ruleset is
  added to the one that is there; until the first sync its own rules still decide.
* An AbuseIPDB refresh writes back the active flag it read before a reload
  changed it, and goes on doing so while the thread runs (`abuseipdb.py` 214-217);
  the next reconcile repairs it (`ReconcileRestores`).
* `gc_expired` deletes by a list it made before; an entry refreshed or made anew
  since then is deleted too (`maps.py` 718; `config.toml` 320 speaks of stale
  entries).
* `syn_rate_check` gets the source prefix (24 by default), so the limit "per
  source IP" of `config.toml` 95 is counted per prefix (`rate_limit.h` 681).
* An nftables table that another program removed goes unnoticed as long as the
  policy stays the same (`Excused` in `Converges`), and a reload that names
  another table leaves the old one in force.
* A handler that was tried and rolled back leaves the validation entries it made
  in between; the comment at `admin_cli.py` 1500-1502 says a failed candidate never
  mutates the active handler's state. `NoStaleValidation` speaks of successful
  commands.
* A live `port_change` line is ignored by the TUI, which looks for the type only
  inside the history.
* Two axdp commands that overlap lose one of the changes: nothing locks
  `config.toml`.
* `ensure_prefixes` throws the result of its update away, so a port can be opened
  with the prefixes of the old configuration (`WritePrefix` counts nothing).
* Rate windows are fixed, not sliding as `config.toml` says, so two adjacent ones
  let twice the limit pass (`BurstBound` states the bound that holds; with a lag of
  more than half a window and enough CPUs, checks of the past and of the present
  can take turns in opening the window, and there is none as small); a packet
  whose clock lags reopens a rate window that has just begun; a key idle for a
  whole turn of the tick (49.7 days) looks current again.
* The connection limit is checked at the SYN and counted at the ACK, so
  handshakes that overlap exceed it; a saturated counter is stamped anew by the
  traffic of established flows and does not time out while they last.

### Bounds

* `XdpBackend`: one port of each protocol, one flow, limits 0 to 2, one fault and two
  changes of the target. One fault is a failed update, a read that misses any part of
  the maps, a drift or a crash at any place; the targets move limits between all
  fields that share an entry, fill and empty every auxiliary map, and have the flow or
  not. A read that misses an entry and the reconcile made from it are within one
  fault, and so is the repair that follows; more faults are covered by the
  theorems. The UDP purge runs on an empty cache here.
* `Syncer`: `Full` 3, `Poll` and `MaxWait` 2, `Debounce` and `Retry` 1 tick; the
  order of the constants is that of the code (`TimeAssumption`). Two versions of
  the sockets, two faults, one of the events that need no repetition. Process
  events are unbounded.
* `RateWindow`: two CPUs, limit 2, increment 1; the clock starts just before a
  wrap (`Boot` 7 of 8), so that the run crosses it, and runs past the end of
  a window, so that there is a rollover; a creation may fail. `MaxLag`
  is the time a check may take. Other
  limits, limits that change and increments of bytes are covered by the theorems.
* `Conntrack`: two CPUs with every kind of packet on one flow, so that they meet on
  every entry; lag 1, all of the daemon, evictions. Time passes beyond the timeouts
  (`MaxTime` 2, `TcpTimeout` 1), so that entries and counter expire and restart;
  limit 2 of a counter to 3, two attempts, so that it saturates.
  More flows, CPUs and time are covered by the theorems.
* `HandlerSwap`: three loads, so that a swap can follow one that was rolled back or
  killed; three failures, which is one in the swap and two in its rollback; one
  kill. Unloads and packets are unbounded.
* `PktRelay`: every buffer holds one element except the history (2), so that every
  one of them overflows with two events; one restart, refusal or leaving TUI.
* `Nftables`: a permanent port, a TCP socket whose process has an explicit 0, two
  UDP sockets of one port; five files (plain, a permanent list that raises, other
  limits with another table, a coerced ICMP limit, cut short); a command and an editor
  that may overlap; a table of the old schema to begin with; one socket change, two
  edits, one SIGHUP, two faults. Commands that overlap with each other are covered
  by the theorems.
* `AbuseIpdb`: four addresses, a trie for three, any part of it missing from the
  cache; lists that overlap with the old one, replace it and empty it. Refreshes are
  not bounded. One fault, which starts a rollback (a full trie does too), and one
  reload. `abuse_rollback` has the same bounds.

### Fairness

`XdpBackend!Fairness`: the watch loop is one thread that finishes each call,
calls reconcile again (periodically if nothing else) and reopens a backend that
is gone: weak fairness of `BackendInit`, `Reconcile`, `Advance`, `ApplyOne`. The
verification competes with reconciles for the idle backend and is reached every
30 s: strong fairness of `VerifyKernelState`. `Syncer!FairSpec`: weak fairness
of the loop as a whole. Faults are finitely many in all specifications.

`PktRelay!FairSpec`: a BPF program that reserved a record submits it, both threads
are scheduled, the service manager restarts the relay and the daemon reads its
socket; nothing is assumed of the TUI. `Nftables!FairSpec`: the daemon's thread
runs on, events or the periodic reconcile start a sync again and again, a
pending SIGHUP is taken up between two syncs, and the service is restarted.
`AbuseIpdb!FairSpec`: both threads are scheduled, and the main thread reconciles
periodically. Packets, commands, edits and refreshes are never assumed to come.

## Proofs

`tlapm` checks the proof modules from no other assumptions than the `ASSUME`s of
the modelled modules, which TLC evaluates in the runs: disjoint ports, 0 among the
limits, UDP ports without connection limits, different keys for different maps,
the order of the loop's intervals,
finite sets of CPUs, flows and addresses, positive runtime limits
(`_coerce_positive_int`), a last socket in every dump, permanent ports (`Keep`) that
no version of the file is without and no command names, a `None` that is no
value, positive limits, increments and windows, buffers of the relay that hold at
least one element. Nothing else bounds the constants: the theorems hold for any number of
ports, flows, CPUs, files, commands and faults.

Every proof of an invariant follows the same three steps: the initial states
satisfy an inductive invariant, every action keeps it (one lemma per action), and
it implies the property. The inductive invariants were checked by TLC on the
instances of the runs before they were proved.

* `XdpBackendProofs`: `TypeCorrect`, `OpenedProtected`, `StaleOnlyAfterMisses`,
  `CleanConverges`. `NewPortProtected` speaks of the moment a port is opened; that
  its protection is in force then is the result of all stages before. `PInv`
  follows one reconcile: as long as no failure was counted, every limit of a
  desired port is as desired in the cache or its write is still in the plan ahead
  (`HeadInv`), an entry that could not be read has all its writes ahead
  (`EntryInv`), finished stages left their caches as desired (`SlotInv`, `AuxInv`),
  and without drift kernel and cache agree but for what a failed read missed
  (`KernelSync`): what is in a cache is in the kernel, and a kernel entry that is
  not in its cache is in `unread`. So a wanted entry, which is in the cache at the
  end, is in force, and only an unwanted one can be left over. `ReadyToOpen` draws
  these together, `OpenInv` carries the result through the last stage, failures
  inside it included. `QInv` adds what a clean reconcile promises beyond that: the
  whitelists after each of their four stages (`WlInv`) and the limits behind the
  first three, which are as desired, gone with their entry or still to be written
  (`TailInv`). `ViewWriteLimit` and `ViewWriteTail` are the facts about views this
  rests on: a view write keeps the other two of the first three limits even when
  it drops the entry, and the fields behind them may be lost then, which is the
  finding of `backend_tail`. `MissInv` relates `_conntrack_stale_rounds` to the
  reconciles that really missed a flow, and the plan to both.
* `SyncerProofs`: `TypeCorrect`, `NoEventLost`, `StateIsFresh`, `DebounceIsCapped`,
  `ImplementsPromise`. The invariant adds which versions of the sockets the loop
  has seen (`Versions`), where an announced change may be (`Pending`), how the two
  time stamps of the debounce relate (`Debouncing`), and how long ago the state was
  read at every place of the loop (`Reading`). `ImplementsPromise` is the safety
  half of the refinement of `PolicySync`: every step of the loop is one of its
  steps or a stutter. The attempt to prove `DiscoveryFresh` corrected it: its bound
  was one tick for each fault, but as long as `last_reconcile_t` is 0.0 every
  rejected SIGHUP can add a whole wait (`Late`); with `Poll` 5, `Full` 6 and `Retry` 1
  TLC shows it.
* `RateWindowProofs`: `TypeCorrect`, `CountIsExact`, `WithinLimit`,
  `DropsAreJustified`, `BurstIsBounded`, `ChecksImplementAtomic`. `IInv` adds to the types and `CountExact` that a CPU about to
  swap has a word read for which the swap was justified (`SwapJustified`) and that a
  packet under way has attempts left and is within its limit by itself
  (`UnderWay`). Without the former, the swap could admit a packet on a word never
  compared with the limit. For the drops, `Opened` gives the tick of every element,
  which is only known modulo the width of the word, a time it stands for, since
  which at least the element's count was admitted; `InTime` bounds the lag of the
  checks. From there `MinusTicks` shows that the subtraction of ticks is right across
  a wrap. The theorem has two conditions: finitely many sources, and a run shorter
  than a turn of the tick counter, since an element that nobody touched for a full
  turn looks fresh again. The lemmas on `SumFunctionOnSet` (a sum can be taken in
  any order, grows with its set, and changes by what is added at one index) are
  proved by induction over the subsets of a finite set. For the burst, `BInv` shares
  what was admitted since a time `t` out among the elements (`Burst`), and gives each
  of them the largest limit for every window it closed since `t` (`Spent`). How many
  those are follows from where the open window starts (`Closed`): an opening is either
  a whole window later than the one before, or from the past by at most the lag, and
  within the time of one window there is room for two of the first kind only while
  the lag is at most half a window. `BurstCase` has that condition and a largest
  limit beside those of the drops. `ChecksImplementAtomic` is the refinement of
  `AtomicWindow`: the creation that wins and the compare-and-swap that succeeds are
  its steps (`CreateRefines`, `SwapRefines`), everything else is a stutter. The mapping
  needs that a tick stands for one time (`TickTime`) and that every element has one
  (`Dated`); then a word is over exactly for the packets outside of its window
  (`OverWhen`, `NotOverWhen`). The second holds only if the unsigned difference of a
  packet from before the window, almost a turn, is at least a window:
  `MaxLag + Window <= TickMod` (`AtomicCase`).
* `ConntrackProofs`: `TypeCorrect`, `NoneComesBack`, `CountIsExact`,
  `DropsAreJustified`, for every number of CPUs and flows, every lag and time, with
  the daemon and evictions, and without conditions on how packets are steered. `Held`
  says what a CPU's pointer still refers to. `BookInv` is the book: what is booked is
  established, and counter plus CPUs that have still to count equals booked plus
  lost connections plus CPUs that have still to uncount. The last two are sets of
  CPUs (`Under`), which the compare-and-swap that succeeds leaves one at a time; that
  no packet counts or uncounts twice is what the places of a job say (`Places`). An
  ACK books only the flow whose element it promoted itself, which is why an
  element that has left the map meanwhile spoils the book.
* `HandlerSwapProofs`: `TypeCorrect`, `AtomicSwitch`, `OldPinned`,
  `LoadIsTransactional`, `CachesAreFresh`. None of the four properties is inductive:
  `Places` says for every place of the command and of its exception handler where
  the old and the new program are pinned, which of them the entry has, and what
  the caches hold (`Commands`, `Failures`, `Untouched`, `Switched`, `Undoing`, `Active`,
  `Flushed`).
* `PktRelayProofs`: `TypeCorrect`, `EventsAccounted`, `StreamHasNoGap`, for every size
  of the rings, the queue, the history and the socket buffers. The types need that
  the position `drain` read lies in its ring (`ReaderT`). `Accounted` is strengthened to
  `AInv`: the records of a ring are in order (`RingOrder`) and none of them is older
  than what has left it (`Behind`); a record that was queued and not yet consumed is
  known to the queue, the log or the losses (`PutKnown`); and each record that a kill
  left at the head of its ring, to be queued again, is already paid for by a fault
  (`Count`).
  `StreamContiguous` follows from `SInv`: the history is an end of the log
  (`HistEnd`); what the TUI has shown and what its socket holds are an end of the
  packet events of the log (`SeenEnd`); and a new connection starts with nothing
  shown, whatever an earlier one left in the buffer (`TuiFresh`). `PktOnly` and `FlattenSeq` are recursive functions; that they exist and
  distribute over concatenation is proved by induction on the length.
* `NftablesProofs`: `TypeCorrect`, `PermanentPortsStay`, `SyncIsInstalled`,
  `UnlimitedOnlyIfPinned`. The invariant says that no file, whether in place, held
  by a command or applied, is without the kept ports unless the daemon is `blind`
  (`FileInv`, `ConfigInv`); that
  the table, while it is there, holds the policy of the remembered signature and
  the ICMP limit of its install (`Remembers`), which is what makes skipping an install
  right as far as it is; and that the policy
  about to be applied was resolved with the configuration that still runs
  (`Wanting`). The lemmas about `Policy` say what the commands and `apply_toml_config`
  make of a configuration (`EditedFile`, `ApplyAny`), that `_port_rate_limit` gives no
  limit only where a value says so (`RateLimitValue`), and that a ruleset only has
  rules for ports it admits (`RenderType`).
* `AbuseIpdbProofs`: `TypeCorrect`, `NoGap`, `RefreshIsTransactional`,
  `ReconcileRepairs`. The invariant has the cache know every entry of the trie but
  those it missed at the start (`Mirror`) and says what the trie holds for each set
  of addresses still to be added, removed or rolled back (`Progress`, `Contents`), and
  what an undisturbed reconcile has read and packed is still so (`Settled`).
  That a finite set of addresses has a first and a last (`MinMax`) is proved from the
  well-foundedness of the strict subset order.

Induction is done without an operator as parameter: the set of numbers or of
subsets for which a claim fails has a minimal element, by the well-foundedness of
the order (`WFMin`), and that element is refuted (`Induction`, `SubsetInduction`).

Only model-checked: liveness (`EventuallyConverges`, `FollowsListeners`,
`EveryEventMoves`, `PortChangeNoticed`, `Converges`, `RuntimeSettles`), which is outside
the prover's reach. Every safety property of the passing runs is proved.

### Hazards without a property

Besides those `PROJECT.json` lists with a note: optional maps that fail to open are
left out without being counted (`xdp.py` 176); a flow of a port that is being
closed is purged and, while its socket lasts, seeded again (`xdp.py` 403); an ACL
with more ports than the kernel struct holds is cut in the kernel and not in the
cache (`maps.py` 535); compare-and-swap attempts that run out drop a packet within
its limit (`rate_limit.h` 174); two axdp commands may swap one key at a time, since
nothing locks it; a pin left by a killed command makes `slot unload NAME` end in a
ValueError (`admin_cli.py` 1325); a history line longer than the socket buffer
refuses every subscriber (`pkt_relay.py` 438); the relay's pid file is unlinked
before its lock is released (`pkt_relay.py` 590); a UDP port is judged by the first
socket of the dump (`discovery.py` 379); a source that cannot be fetched loses its
addresses (`abuseipdb.py` 223).

## Not modelled, and the plan

Models that could follow: the global UDP byte budget with its batches per CPU; the
verdict of the XDP pipeline as an ordered decision against default deny,
composed with the entries left over when a port closes; the Minecraft login
states; attach, map reuse and roll-back of the start script.

Left out: header parsing and checksums (no state); the psutil fallback of
discovery (same result by another library); peer authorisation and pid file of
the relay (system calls of single answers); statistics, listing, attack mode and
log level of the admin CLI; package installation, downloads and command lines;
the display of the TUI. They change no shared state in steps another actor could
observe.
