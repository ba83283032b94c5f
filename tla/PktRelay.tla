------------------------------ MODULE PktRelay ------------------------------
(***************************************************************************)
(* The packet relay (pkt_relay.py) between the kernel's ring buffers and   *)
(* its two kinds of subscribers: the TUI (tui.py, RelayClient) and the     *)
(* sync daemon (syncer.py, _drain_relay_lines).                            *)
(*                                                                         *)
(* A reader thread moves records from the two rings into a bounded queue;  *)
(* the main thread takes them from there, keeps a bounded history and      *)
(* writes every event to every subscriber without ever waiting.  The ring  *)
(* positions outlive the relay, everything else dies with it.              *)
(*                                                                         *)
(* An event is <<source, number>>.  A line of a socket is "history" with   *)
(* the events sent on connection, "live" with one event, or "torn": the    *)
(* part of a line that fitted when the subscriber was dropped.             *)
(***************************************************************************)
EXTENDS Naturals, FiniteSets, SequencesExt

CONSTANTS
    Tui, Daemon,   \* the two subscribers
    RingMax,       \* records a ring buffer holds
    QueueMax,      \* EVENT_QUEUE_MAX
    HistMax,       \* max_events, the length of the history
    SendMax,       \* max_history_send
    SockMax,       \* lines a socket buffer holds
    MaxEvent,      \* bound: events of both sources
    MaxFaults      \* bound: relay restarts and subscribers that leave

ASSUME RelayAssumption ==
    /\ {RingMax, QueueMax, HistMax, SendMax, SockMax} \subseteq Nat \ {0}
    /\ MaxEvent \in Nat /\ MaxFaults \in Nat /\ Tui # Daemon

VARIABLES
    ring,          \* records of each ring, oldest first
    made,          \* events of each source so far
    queue,         \* queue.Queue between the two threads
    log,           \* history: events the main thread has taken, in order
    lost,          \* history: events dropped on a full ring or queue, or with the relay
    hist,          \* RelayServer._history
    rpc, quota,    \* reader thread: ring it drains, records up to the position it read
    put,           \* its record has been queued, the consumer position not yet moved
    up,            \* the relay runs
    path,          \* the socket file: "none", "stale" or "bound"
    conn,          \* of each subscriber: "off", "backlog", "on", "gone" or "eof"
    sock,          \* lines in its socket buffer
    buf,           \* its partial line: "empty", "half" of the next line, or "old"
    shown,         \* history: packet events the TUI appended on this connection
    noticed,       \* history: port changes the daemon acted on
    missed,        \* history: port changes it was not told of
    faults

vars == <<ring, made, queue, log, lost, hist, rpc, quota, put, up, path, conn, sock, buf,
          shown, noticed, missed, faults>>
kernelVars == <<ring, made>>
readerVars == <<rpc, quota, put>>
mainVars   == <<log, hist>>
clientVars == <<conn, sock, buf, shown, noticed, missed>>

Client == {Tui, Daemon}
Source == {"pkt", "sock"}
Event  == Source \X (1..MaxEvent)
Elems(s) == {s[i] : i \in DOMAIN s}

\* The packet events of a sequence.
PktOnly(s) ==
    LET upto[n \in 0..Len(s)] ==
          IF n = 0 THEN <<>>
          ELSE IF s[n][1] = "pkt" THEN Append(upto[n - 1], s[n]) ELSE upto[n - 1]
    IN  upto[Len(s)]

\* The last n elements of a sequence.
LastN(s, n) == IF Len(s) <= n THEN s ELSE SubSeq(s, Len(s) - n + 1, Len(s))

Init ==
    /\ ring = [s \in Source |-> <<>>] /\ made = [s \in Source |-> 0]
    /\ queue = <<>> /\ log = <<>> /\ lost = {} /\ hist = <<>>
    /\ rpc = "select" /\ quota = 0 /\ put = FALSE /\ up = FALSE /\ path = "none"
    /\ conn = [c \in Client |-> "off"] /\ sock = [c \in Client |-> <<>>]
    /\ buf = [c \in Client |-> "empty"]
    /\ shown = <<>> /\ noticed = {} /\ missed = {} /\ faults = 0

-----------------------------------------------------------------------------
(* The kernel side of the rings. *)

\* bpf_ringbuf_reserve: the record is there, and busy, until it is submitted;
\* without room the event is dropped.
Reserve(s) ==
    /\ made["pkt"] + made["sock"] < MaxEvent /\ made' = [made EXCEPT ![s] = @ + 1]
    /\ IF Len(ring[s]) < RingMax
       THEN ring' = [ring EXCEPT ![s] = Append(@, [ev |-> <<s, made'[s]>>, st |-> "busy"])]
            /\ UNCHANGED lost
       ELSE lost' = lost \cup {<<s, made'[s]>>} /\ UNCHANGED ring
    /\ UNCHANGED <<queue, hist, log, readerVars, up, path, clientVars, faults>>

\* bpf_ringbuf_submit; CPUs may submit in any order.
Submit(s) ==
    /\ \E i \in DOMAIN ring[s] :
          /\ ring[s][i].st = "busy"
          /\ ring' = [ring EXCEPT ![s][i].st = "ready"]
    /\ UNCHANGED <<made, queue, lost, mainVars, readerVars, up, path, clientVars, faults>>

-----------------------------------------------------------------------------
(* The reader thread: _reader_loop and RingBufReader.drain. *)

\* select returns (a round over empty rings changes nothing); drain of the
\* packet ring reads the producer position.
ReaderWakes ==
    /\ up /\ rpc = "select" /\ \E s \in Source : ring[s] # <<>>
    /\ rpc' = "pkt" /\ quota' = Len(ring["pkt"])
    /\ UNCHANGED <<kernelVars, queue, lost, put, mainVars, up, path, clientVars, faults>>

\* Mutant: a record that is still busy is stepped over.
NoRecord(s) == quota = 0

\* drain is at the position it read, or at a busy record.
NothingReady(s) == IF quota = 0 THEN TRUE ELSE ring[s][1].st = "busy"

\* Mutant: a queue without a limit.
QueueUnlimited == TRUE

\* put_nowait succeeds.
QueueHasRoom == Len(queue) < QueueMax

\* One record: decoded and queued or, when the queue is full, dropped.
TakeRecord(s) ==
    /\ up /\ rpc = s /\ ~put /\ ~NothingReady(s) /\ put' = TRUE
    /\ LET rec == ring[s][1]
       IN  CASE rec.st = "busy"         -> UNCHANGED <<queue, lost>>
             [] QueueHasRoom            -> queue' = Append(queue, rec.ev) /\ UNCHANGED lost
             [] OTHER                   -> lost' = lost \cup {rec.ev} /\ UNCHANGED queue
    /\ UNCHANGED <<kernelVars, rpc, quota, mainVars, up, path, clientVars, faults>>

\* Then the consumer position moves past it.
Consume(s) ==
    /\ up /\ rpc = s /\ put /\ put' = FALSE
    /\ ring' = [ring EXCEPT ![s] = Tail(@)] /\ quota' = quota - 1
    /\ UNCHANGED <<made, queue, lost, rpc, mainVars, up, path, clientVars, faults>>

\* On to the other ring, or back to select.
EndDrain(s) ==
    /\ up /\ rpc = s /\ ~put /\ NothingReady(s)
    /\ IF s = "pkt" THEN rpc' = "sock" /\ quota' = Len(ring["sock"])
                    ELSE rpc' = "select" /\ quota' = 0
    /\ UNCHANGED <<kernelVars, queue, lost, put, mainVars, up, path, clientVars, faults>>

Reader == ReaderWakes \/ \E s \in Source : TakeRecord(s) \/ Consume(s) \/ EndDrain(s)

-----------------------------------------------------------------------------
(* The main thread: run. *)

\* _trim_history drops what is older than the retention time.  (That run also
\* does so once a second only brings forward what the next accept drops.)
Trimmed == {LastN(hist, n) : n \in 0..Len(hist)}

\* Mutant: the oldest events are sent.
FirstSlice(h) == SubSeq(h, 1, IF Len(h) < SendMax THEN Len(h) ELSE SendMax)

\* The part of the history a new subscriber gets.
HistorySlice(h) == LastN(h, SendMax)

\* _accept_client: trim, send the history in one line, then register.
AcceptClient(c) ==
    /\ up /\ conn[c] = "backlog"
    /\ hist' \in Trimmed
    /\ conn' = [conn EXCEPT ![c] = "on"]
    /\ sock' = [sock EXCEPT ![c] = <<[k |-> "history", evs |-> HistorySlice(hist')]>>]
    /\ UNCHANGED <<kernelVars, queue, log, lost, readerVars, up, path, buf, shown, noticed,
                   missed, faults>>

\* The line is longer than the socket buffer: what fitted is sent, and the
\* connection is closed.
RefuseClient(c) ==
    /\ up /\ conn[c] = "backlog" /\ faults < MaxFaults /\ faults' = faults + 1
    /\ hist' \in Trimmed
    /\ conn' = [conn EXCEPT ![c] = "eof"]
    /\ sock' = [sock EXCEPT ![c] = <<[k |-> "torn", evs |-> <<>>]>>]
    /\ UNCHANGED <<kernelVars, queue, log, lost, readerVars, up, path, buf, shown,
                   noticed, missed>>

\* recv returns nothing: the subscriber has left.
ClientLeft(c) ==
    /\ up /\ conn[c] = "gone"
    /\ conn' = [conn EXCEPT ![c] = "off"]
    /\ UNCHANGED <<kernelVars, queue, lost, mainVars, readerVars, up, path, sock, buf, shown,
                   noticed, missed, faults>>

\* Mutant: the relay waits for a slow subscriber.
CanBroadcastWaits == \A c \in Client : conn[c] = "on" => Len(sock[c]) < SockMax

\* sendall on a non-blocking socket never waits.
CanBroadcast == TRUE

\* One event from the queue: history, then _broadcast.  A subscriber whose
\* buffer is full gets a part of the line or nothing, and is dropped; one that
\* has left is dropped too.
Deliver ==
    /\ up /\ queue # <<>> /\ CanBroadcast
    /\ LET e == Head(queue)
           fits(c) == conn[c] = "on" /\ Len(sock[c]) < SockMax
           full(c) == conn[c] = "on" /\ Len(sock[c]) >= SockMax
       IN  /\ queue' = Tail(queue)
           /\ log' = Append(log, e)
           /\ hist' = LastN(Append(hist, e), HistMax)
           /\ \E part \in BOOLEAN :
                 sock' = [c \in Client |->
                            IF fits(c) THEN Append(sock[c], [k |-> "live", evs |-> <<e>>])
                            ELSE IF full(c) /\ part
                                 THEN Append(sock[c], [k |-> "torn", evs |-> <<>>])
                                 ELSE sock[c]]
           /\ conn' = [c \in Client |-> IF full(c) THEN "eof"
                                        ELSE IF conn[c] = "gone" THEN "off" ELSE conn[c]]
           /\ missed' = IF e[1] = "sock" /\ ~fits(Daemon) THEN missed \cup {e} ELSE missed
    /\ UNCHANGED <<kernelVars, lost, readerVars, up, path, buf, shown, noticed, faults>>

Main == Deliver \/ \E c \in Client : AcceptClient(c) \/ ClientLeft(c)

\* main and _open_server: the rings are opened where the last relay stopped, a
\* stale socket file is replaced.
StartRelay ==
    /\ ~up /\ up' = TRUE /\ path' = "bound"
    /\ UNCHANGED <<kernelVars, queue, lost, mainVars, readerVars, clientVars, faults>>

\* The relay is stopped (the reader ends its record and _cleanup removes the
\* socket file) or killed; queue and history are gone and the subscribers see
\* the end of their connections.
StopRelay ==
    /\ up /\ path' \in {"none", "stale"} /\ (path' = "none" => ~put)
    /\ faults < MaxFaults /\ faults' = faults + 1
    /\ up' = FALSE
    /\ lost' = lost \cup Elems(queue) /\ queue' = <<>> /\ hist' = <<>>
    /\ rpc' = "select" /\ quota' = 0 /\ put' = FALSE
    /\ conn' = [c \in Client |-> CASE conn[c] \in {"backlog", "on"} -> "eof"
                                   [] conn[c] = "gone" -> "off"
                                   [] OTHER -> conn[c]]
    /\ UNCHANGED <<kernelVars, log, sock, buf, shown, noticed, missed>>

-----------------------------------------------------------------------------
(* The subscribers. *)

\* connect, retried by RelayClient.poll and by the watch loop.  The daemon
\* clears its partial line, the TUI keeps it.
Connect(c) ==
    /\ up /\ conn[c] = "off"
    /\ conn' = [conn EXCEPT ![c] = "backlog"] /\ sock' = [sock EXCEPT ![c] = <<>>]
    /\ IF c = Daemon THEN buf' = [buf EXCEPT ![c] = "empty"] /\ UNCHANGED shown
                     ELSE shown' = <<>> /\ UNCHANGED buf
    /\ UNCHANGED <<kernelVars, queue, lost, mainVars, readerVars, up, path, noticed, missed, faults>>

\* recv returns the first part of the next line.
ReadHalf(c) ==
    /\ conn[c] \in {"on", "eof"} /\ sock[c] # <<>> /\ buf[c] = "empty"
    /\ buf' = [buf EXCEPT ![c] = "half"]
    /\ UNCHANGED <<kernelVars, queue, lost, mainVars, readerVars, up, path, conn, sock, shown,
                   noticed, missed, faults>>

\* The buffer makes no JSON with the rest of the line: it is from an earlier
\* connection.
Garbled(c) == buf[c] = "old"

\* RelayClient.poll, one line: the events of the history, or one live event,
\* are appended.  A live port change is of neither type and is ignored.
ReadTui ==
    /\ conn[Tui] \in {"on", "eof"} /\ sock[Tui] # <<>>
    /\ LET line == Head(sock[Tui])
       IN  /\ line.k # "torn"
           /\ shown' = IF Garbled(Tui) THEN shown ELSE shown \o PktOnly(line.evs)
           /\ sock' = [sock EXCEPT ![Tui] = Tail(@)]
           /\ buf' = [buf EXCEPT ![Tui] = "empty"]
    /\ UNCHANGED <<kernelVars, queue, lost, mainVars, readerVars, up, path, conn, noticed,
                   missed, faults>>

\* The end of the TUI's connection; what is left of a line stays in _buf.
EofTui ==
    /\ conn[Tui] = "eof"
    /\ sock[Tui] # <<>> => Head(sock[Tui]).k = "torn"
    /\ conn' = [conn EXCEPT ![Tui] = "off"] /\ sock' = [sock EXCEPT ![Tui] = <<>>]
    /\ buf' = [buf EXCEPT ![Tui] = IF sock[Tui] = <<>> THEN @ ELSE "old"]
    /\ UNCHANGED <<kernelVars, queue, lost, mainVars, readerVars, up, path, shown, noticed,
                   missed, faults>>

\* Mutant: only the history line is searched for port changes.
PortChangeInHistory(line) == line.k = "history" /\ \E i \in DOMAIN line.evs : line.evs[i][1] = "sock"

\* A line of type port_change; one inside a history line has another type.
PortChange(line) == line.k = "live" /\ line.evs[1][1] = "sock"

\* _drain_relay_lines, one line; a live port change makes the daemon sync.
ReadDaemon ==
    /\ conn[Daemon] = "on" /\ sock[Daemon] # <<>>
    /\ LET line == Head(sock[Daemon])
       IN  noticed' = IF PortChange(line) /\ ~Garbled(Daemon)
                      THEN noticed \cup Elems(line.evs) ELSE noticed
    /\ sock' = [sock EXCEPT ![Daemon] = Tail(@)]
    /\ buf' = [buf EXCEPT ![Daemon] = "empty"]
    /\ UNCHANGED <<kernelVars, queue, lost, mainVars, readerVars, up, path, conn, shown,
                   missed, faults>>

\* The end of the daemon's connection: lines received with it are thrown away.
EofDaemon ==
    /\ conn[Daemon] = "eof"
    /\ missed' = missed \cup {e \in Event : e[1] = "sock" /\
                    \E i \in DOMAIN sock[Daemon] : sock[Daemon][i] = [k |-> "live", evs |-> <<e>>]}
    /\ conn' = [conn EXCEPT ![Daemon] = "off"] /\ sock' = [sock EXCEPT ![Daemon] = <<>>]
    /\ buf' = [buf EXCEPT ![Daemon] = "empty"]
    /\ UNCHANGED <<kernelVars, queue, lost, mainVars, readerVars, up, path, shown, noticed,
                   faults>>

\* The TUI is closed, and may be started again.
TuiQuits ==
    /\ conn[Tui] = "on" /\ faults < MaxFaults /\ faults' = faults + 1
    /\ conn' = [conn EXCEPT ![Tui] = "gone"] /\ sock' = [sock EXCEPT ![Tui] = <<>>]
    /\ buf' = [buf EXCEPT ![Tui] = "empty"] /\ shown' = <<>>
    /\ UNCHANGED <<kernelVars, queue, lost, mainVars, readerVars, up, path, noticed, missed>>

Next ==
    \/ \E s \in Source : Reserve(s) \/ Submit(s)
    \/ Reader \/ Main \/ (\E c \in Client : RefuseClient(c)) \/ StartRelay \/ StopRelay
    \/ \E c \in Client : Connect(c) \/ ReadHalf(c)
    \/ ReadTui \/ EofTui \/ ReadDaemon \/ EofDaemon \/ TuiQuits

Spec == Init /\ [][Next]_vars

\* A program that reserved a record submits it; both threads of the relay are
\* scheduled and the service is restarted; the daemon reads its socket.  The
\* TUI may stop reading for good.
FairSpec ==
    /\ Spec
    /\ \A s \in Source : WF_vars(Submit(s))
    /\ WF_vars(Reader) /\ WF_vars(Main) /\ WF_vars(StartRelay)
    /\ WF_vars(ReadDaemon) /\ WF_vars(EofDaemon) /\ WF_vars(Connect(Daemon))

-----------------------------------------------------------------------------
(* Properties. *)

Line == [k : {"history", "live", "torn"}, evs : Seq(Event)]

\* Types of all variables; no buffer outgrows its bound.
TypeOK ==
    /\ \A s \in Source : /\ ring[s] \in Seq([ev : Event, st : {"busy", "ready"}])
                         /\ Len(ring[s]) <= RingMax /\ made[s] \in 0..MaxEvent
    /\ queue \in Seq(Event) /\ Len(queue) <= QueueMax
    /\ log \in Seq(Event) /\ lost \subseteq Event
    /\ hist \in Seq(Event) /\ Len(hist) <= HistMax
    /\ rpc \in Source \cup {"select"} /\ quota \in 0..RingMax /\ put \in BOOLEAN
    /\ up \in BOOLEAN /\ path \in {"none", "stale", "bound"}
    /\ conn \in [Client -> {"off", "backlog", "on", "gone", "eof"}]
    /\ \A c \in Client : sock[c] \in Seq(Line) /\ Len(sock[c]) <= SockMax + 1
    /\ buf \in [Client -> {"empty", "half", "old"}]
    /\ shown \in Seq(Event)
    /\ noticed \subseteq Event /\ missed \subseteq Event /\ faults \in 0..MaxFaults

\* Events are only lost where a ring or the queue is full or the relay dies,
\* those of one source stay in order from ring to log, and only a kill between
\* queueing a record and moving past it delivers an event again.
Accounted ==
    LET all == log \o queue
    IN  /\ \A s \in Source : \A n \in 1..made[s] :
              \/ <<s, n>> \in lost \cup Elems(all)
              \/ \E i \in DOMAIN ring[s] : ring[s][i].ev = <<s, n>>
        /\ \A i, j \in DOMAIN all : (i < j /\ all[i][1] = all[j][1]) => all[i][2] <= all[j][2]
        /\ Len(all) <= Cardinality(Elems(all)) + faults

\* What the TUI has shown on one connection and what it has not read yet are
\* together the packet events the relay took, from some event on: no gap and
\* no event twice between the history line and the stream, a line that recv
\* splits is put together again, and only the first line can be spoiled, by
\* what an earlier connection left in the buffer.
StreamContiguous ==
    LET unread == FlattenSeq([i \in DOMAIN sock[Tui] |-> sock[Tui][i].evs])
        seen   == shown \o PktOnly(unread)
    IN  conn[Tui] = "on" => seen = LastN(PktOnly(log), Len(seen))

\* The events that are on their way through the relay.
Waiting ==
    Elems(queue) \cup UNION {{ring[s][i].ev : i \in DOMAIN ring[s]} : s \in Source}

\* No subscriber holds up the others: every event in a ring or in the queue is
\* taken by the main thread or lost, although the TUI may never read again.
EveryEventMoves == Waiting # {} ~> Waiting = {}

\* A change of the listening sockets makes the daemon sync, or is one of those
\* that a full buffer, a restart or a lost connection kept from it and that
\* its periodic reconcile is for.
PortChangeNoticed ==
    LET changes == {e \in Event : e[1] = "sock" /\ e[2] <= made["sock"]}
    IN  changes # {} ~> changes \subseteq noticed \cup missed \cup lost
=============================================================================
