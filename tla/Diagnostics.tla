----------------------------- MODULE Diagnostics -----------------------------
(***************************************************************************)
(* HID host diagnostics (HID_HOST_DIAGNOSTICS): B tells A what its USB     *)
(* host does, A adds what it sees itself and shows it to the PC on the     *)
(* configuration interface.                                                *)
(*                                                                         *)
(* B (remapper_dual_b.cc) has a queue of ordinary records, written only    *)
(* when no input report waits for the UART, and beside it, written first   *)
(* in each pass of its loop, a slot each for the transport and the HCD     *)
(* snapshot and a lane of counter records.  A (remapper_dual_a.cc) keeps   *)
(* the latest snapshots and a context per interface, and has a queue of    *)
(* its own.  Once a second it begins a round (remapper.cc): a heartbeat,   *)
(* each snapshot, the counters of each port; then the queue.               *)
(*                                                                         *)
(* Counters and contexts are left out, all but the presence of a context.  *)
(* Whether a second has passed, and whether a frame fits the UART buffer   *)
(* (its size depends on its escaped bytes), is not determined.             *)
(***************************************************************************)
EXTENDS Naturals, Sequences, FiniteSets, Functions

CONSTANTS
  Interfaces,
  Instance,            \* of an interface
  Fragments,           \* of the descriptor of an interface
  NoInterface,
  CFG_TUH_HID, PENDING_QUEUE_SIZE, MAX_REPORT_COUNTERS,  \* of B
  CONTEXT_COUNT, QUEUE_SIZE, PORTS,                      \* of A
  MaxLine,             \* bound: frames between B and A
  Scenarios            \* bound: which devices there are, whether B's firmware has diagnostics,
                       \* and whether the PC reads

ASSUME DiagnosticsAssumption ==
  /\ {CFG_TUH_HID, PENDING_QUEUE_SIZE, MAX_REPORT_COUNTERS, CONTEXT_COUNT, QUEUE_SIZE, MaxLine} \subseteq Nat \ {0}
  /\ PORTS \in Nat
  /\ Instance \in [Interfaces -> Nat] /\ Fragments \in [Interfaces -> Nat]
  /\ NoInterface \notin Interfaces /\ IsFiniteSet(Interfaces)
  /\ Scenarios \subseteq [devices : SUBSET Interfaces, reports : BOOLEAN, reads : BOOLEAN]

VARIABLES
  scenario,
  \* B
  contexts,            \* hid_host_diagnostic_contexts: the interface in each place
  pending_diagnostics, \* the number of ordinary records
  snapshots,           \* those that are pending
  priority,            \* the lane: whose counters
  held,                \* the interfaces with a report that waits for the UART
  line,                \* the frames that A has not handled
  \* A
  a_contexts,
  latest,              \* the snapshots that are valid
  usage_seen,          \* ports that moved a cursor
  queue,               \* hid_host_diagnostics
  pending,             \* the snapshots of this round that are still to be shown
  cursor,              \* hid_host_pipeline_snapshot_cursor
  heartbeat_due,
  \* history
  a_connected,         \* the interfaces that A was told of
  owed, owed_ports,    \* what A had when the round began, and the PC was not shown since
  fragment             \* what fragment of a descriptor the PC was shown last

b_vars == <<contexts, pending_diagnostics, snapshots, priority, held>>
a_stores == <<a_contexts, latest, queue, a_connected>>
round == <<pending, cursor, heartbeat_due, owed, owed_ports, fragment>>
diagnostics_vars == <<scenario, b_vars, line, a_stores, usage_seen, round>>

BPlaces == 1 .. CFG_TUH_HID
APlaces == 0 .. CONTEXT_COUNT - 1
Mounted == {contexts[p] : p \in BPlaces} \ {NoInterface}

Frame(type, itf) == [type |-> type, itf |-> itf]

-----------------------------------------------------------------------------
(* B.                                                                      *)

\* queue_hid_host_diagnostic drops what finds it full.
Queued == IF pending_diagnostics = PENDING_QUEUE_SIZE \/ ~scenario.reports THEN pending_diagnostics ELSE pending_diagnostics + 1

Lowest(places) == CHOOSE p \in places : \A q \in places : p <= q
Free == {p \in BPlaces : contexts[p] = NoInterface}

HasRoom(n) == Len(line) + n <= MaxLine

\* A context is registered, a record queued, and the connection is told, whatever that takes.
tuh_hid_mount_cb ==
  /\ HasRoom(1)
  /\ \E i \in scenario.devices \ Mounted :
       /\ Free # {}
       /\ contexts' = [contexts EXCEPT ![Lowest(Free)] = i]
       /\ line' = Append(line, Frame("connected", i))
  /\ pending_diagnostics' = Queued
  /\ UNCHANGED <<scenario, snapshots, priority, held, a_stores, usage_seen, round>>

tuh_hid_umount_cb ==
  /\ HasRoom(1)
  /\ \E i \in Mounted :
       /\ contexts' = [p \in BPlaces |-> IF contexts[p] = i THEN NoInterface ELSE contexts[p]]
       /\ held' = held \ {i}
       /\ line' = Append(line, Frame("disconnected", i))
  /\ pending_diagnostics' = Queued
  /\ UNCHANGED <<scenario, snapshots, priority, a_stores, usage_seen, round>>

\* A failed control transfer, an endpoint or instance that could not be had.
tuh_diagnostic_event_cb ==
  /\ pending_diagnostics' = Queued
  /\ UNCHANGED <<scenario, contexts, snapshots, priority, held, line, a_stores, usage_seen, round>>

\* Once a second a report leaves a record.  It goes to A, or waits.
tuh_hid_report_received_cb ==
  /\ pending_diagnostics' \in {pending_diagnostics, Queued}
  /\ \E i \in Mounted \ held :
       \/ /\ held = {} /\ HasRoom(1)
          /\ line' = Append(line, Frame("report", i)) /\ UNCHANGED held
       \/ held' = held \cup {i} /\ UNCHANGED line
  /\ UNCHANGED <<scenario, contexts, snapshots, priority, a_stores, usage_seen, round>>

flush_pending_hid_reports ==
  /\ HasRoom(1)
  /\ \E i \in held :
       /\ held' = held \ {i}
       /\ line' = Append(line, Frame("report", i))
  /\ UNCHANGED <<scenario, contexts, pending_diagnostics, snapshots, priority, a_stores, usage_seen, round>>

\* The counters of the active contexts, in order, if the lane is empty and it is time.
ActiveContexts ==
  LET active[p \in 0 .. CFG_TUH_HID] ==
        IF p = 0 THEN <<>>
        ELSE IF contexts[p] = NoInterface THEN active[p - 1]
        ELSE Append(active[p - 1], contexts[p])
  IN  active[CFG_TUH_HID]
Counters == SubSeq(ActiveContexts, 1, IF Len(ActiveContexts) < MAX_REPORT_COUNTERS THEN Len(ActiveContexts)
                                      ELSE MAX_REPORT_COUNTERS)
\* Mutated: the lane is filled up when it is time.
FilledUp(due) ==
  IF "counters" \in due /\ Len(priority) + Len(Counters) <= MAX_REPORT_COUNTERS THEN priority \o Counters ELSE priority
Refilled(due) == IF "counters" \in due /\ priority = <<>> THEN Counters ELSE priority

\* The frames that service_hid_host_priority_diagnostics would write, in order.
SnapshotFrame(type, pend) == IF type \in pend THEN <<Frame(type, NoInterface)>> ELSE <<>>
SnapshotFrames(pend) == SnapshotFrame("transport", pend) \o SnapshotFrame("hcd", pend)
CounterFrame(lane) == IF lane = <<>> THEN <<>> ELSE <<Frame("counters", Head(lane))>>

\* The producers, and as many writes as succeed: transport, HCD, one of the lane.
service_hid_host_priority_diagnostics ==
  /\ scenario.reports
  /\ \E due \in SUBSET {"hcd", "counters", "transport"} :
      LET pend == snapshots \cup (due \ {"counters"})
          lane == Refilled(due)
          frames == SnapshotFrames(pend) \o CounterFrame(lane)
      IN  \E n \in 0 .. Len(frames) :
            /\ HasRoom(n)
            /\ line' = line \o SubSeq(frames, 1, n)
            /\ snapshots' = pend \ {frames[k].type : k \in 1 .. n}
            /\ priority' = IF n = Len(frames) /\ lane # <<>> THEN Tail(lane) ELSE lane
            /\ UNCHANGED <<scenario, contexts, pending_diagnostics, held, a_stores, usage_seen, round>>

send_g700_health_probe ==
  /\ scenario.reports /\ HasRoom(1)
  /\ line' = Append(line, Frame("g700", NoInterface))
  /\ UNCHANGED <<scenario, b_vars, a_stores, usage_seen, round>>

\* At the end of a pass, behind all input reports.
flush_pending_hid_host_diagnostics ==
  /\ pending_diagnostics > 0 /\ held = {}
  /\ HasRoom(1)
  /\ line' = Append(line, Frame("event", NoInterface))
  /\ pending_diagnostics' = pending_diagnostics - 1
  /\ UNCHANGED <<scenario, contexts, snapshots, priority, held, a_stores, usage_seen, round>>

-----------------------------------------------------------------------------
(* A takes a frame (serial_callback).                                      *)

\* A fragment of a descriptor; all other records are alike.
Record(kind, itf, offset) == [kind |-> kind, itf |-> itf, offset |-> offset]
EventRecord == Record("event", NoInterface, 0)

\* queue_hid_host_diagnostic, of one record after another.
AQueued(records) == LET all == queue \o records IN IF Len(all) <= QUEUE_SIZE THEN all ELSE SubSeq(all, 1, QUEUE_SIZE)

\* find_or_register_hid_host_diagnostic_context: a place of its own, a free one, or another's.
Place(i) ==
  LET own == {p \in APlaces : a_contexts[p] = i}
      free == {p \in APlaces : a_contexts[p] = NoInterface}
  IN  IF own # {} THEN Lowest(own) ELSE IF free # {} THEN Lowest(free) ELSE Instance[i] % CONTEXT_COUNT
Registered(i) == [a_contexts EXCEPT ![Place(i)] = i]

AHandles(types) ==
  /\ line # <<>> /\ Head(line).type \in types
  /\ line' = Tail(line)
  /\ UNCHANGED <<scenario, b_vars, usage_seen, round>>

\* queue_hid_host_descriptor_chunks.
DeviceConnected ==
  /\ AHandles({"connected"})
  /\ LET i == Head(line).itf IN
     /\ a_contexts' = Registered(i)
     /\ a_connected' = a_connected \cup {i}
     /\ queue' = AQueued([n \in 1 .. Fragments[i] |-> Record("descriptor", i, n)])
  /\ UNCHANGED latest

\* clear_hid_host_diagnostic_context.
DeviceDisconnected ==
  /\ AHandles({"disconnected"})
  /\ LET i == Head(line).itf IN
     /\ a_contexts' = [p \in APlaces |-> IF a_contexts[p] = i THEN NoInterface ELSE a_contexts[p]]
     /\ a_connected' = a_connected \ {i}
  /\ UNCHANGED <<latest, queue>>

ReportReceived ==
  /\ AHandles({"report"})
  /\ a_contexts' = Registered(Head(line).itf)
  /\ queue' \in {queue, AQueued(<<EventRecord>>)}
  /\ UNCHANGED <<latest, a_connected>>

\* queue_hid_host_report_counters.
CountersReceived ==
  /\ AHandles({"counters"})
  /\ a_contexts' = Registered(Head(line).itf)
  /\ queue' = AQueued(<<EventRecord>>)
  /\ UNCHANGED <<latest, a_connected>>

SnapshotReceived ==
  /\ AHandles({"hcd", "transport", "g700"})
  /\ latest' = latest \cup {Head(line).type}
  /\ UNCHANGED <<a_contexts, queue, a_connected>>

EventReceived ==
  /\ AHandles({"event"})
  /\ queue' = AQueued(<<EventRecord>>)
  /\ UNCHANGED <<a_contexts, latest, a_connected>>

\* read_input found a movement of a cursor: queue_hid_host_parsed_usage.  (Nothing but what the
\* PC is shown depends on it.)
ParsedUsage ==
  /\ scenario.reads
  /\ \E p \in 0 .. PORTS - 1 : usage_seen' = usage_seen \cup {p}
  /\ scenario.devices # {}
  /\ queue' \in {queue, AQueued(<<EventRecord>>)}
  /\ UNCHANGED <<scenario, b_vars, line, a_contexts, latest, a_connected, round>>

-----------------------------------------------------------------------------
(* send_hid_host_diagnostic_report.                                        *)

Kinds == <<"flash", "runtime", "g700", "hcd", "transport", "counters">>

\* The flash status and the runtime identity are always there.
Has(kind) ==
  CASE kind \in {"flash", "runtime"} -> TRUE
    [] kind = "counters" -> \E p \in APlaces : a_contexts[p] # NoInterface
    [] OTHER -> kind \in latest

\* Pending snapshots that A does not have are passed over.
There == {n \in 1 .. Len(Kinds) : Kinds[n] \in pending /\ Has(Kinds[n])}
PendingFrom(n) == {Kinds[m] : m \in n .. Len(Kinds)} \cap pending

\* ... as are ports that no cursor moved on; the last place is the merged output.
NextPlace(c) == IF c > PORTS THEN c ELSE Lowest({p \in c .. PORTS : p \in usage_seen \cup {PORTS}})

\* A suspended board sends as little as a PC takes that does not read.
Sends == scenario.reads
Unsent == UNCHANGED <<scenario, b_vars, line, a_stores, usage_seen>>

Tick ==
  /\ scenario.reads
  /\ heartbeat_due' = TRUE
  /\ UNCHANGED <<pending, cursor, owed, owed_ports, fragment>>
  /\ Unsent

\* A new round: all snapshots are pending again.
SendHeartbeat ==
  /\ Sends /\ heartbeat_due
  /\ heartbeat_due' = FALSE
  /\ pending' = Range(Kinds)
  /\ cursor' = 0
  /\ owed' = {kind \in Range(Kinds) : Has(kind)}
  /\ owed_ports' = usage_seen \cup {PORTS}
  /\ UNCHANGED fragment
  /\ Unsent

InRound == Sends /\ ~heartbeat_due
StillOwed == {kind \in owed : Has(kind)}

SendSnapshot ==
  /\ InRound /\ There # {}
  /\ pending' = PendingFrom(Lowest(There) + 1)
  /\ owed' = StillOwed \ {Kinds[Lowest(There)]}
  /\ UNCHANGED <<cursor, heartbeat_due, owed_ports, fragment>>
  /\ Unsent

\* Mutated: the port after the one that is shown is passed over.
SendPortsSkipping ==
  /\ InRound /\ There = {} /\ cursor <= PORTS
  /\ pending' = {}
  /\ cursor' = NextPlace(cursor) + 2
  /\ owed' = StillOwed
  /\ owed_ports' = owed_ports \ {NextPlace(cursor)}
  /\ UNCHANGED <<heartbeat_due, fragment>>
  /\ Unsent
SendPorts ==
  /\ InRound /\ There = {} /\ cursor <= PORTS
  /\ pending' = {}
  /\ cursor' = NextPlace(cursor) + 1
  /\ owed' = StillOwed
  /\ owed_ports' = owed_ports \ {NextPlace(cursor)}
  /\ UNCHANGED <<heartbeat_due, fragment>>
  /\ Unsent

SendQueued ==
  /\ InRound /\ There = {} /\ cursor > PORTS /\ queue # <<>>
  /\ pending' = {}
  /\ queue' = Tail(queue)
  /\ owed' = StillOwed
  /\ fragment' = IF Head(queue).kind = "descriptor" THEN Head(queue) ELSE fragment
  /\ UNCHANGED <<scenario, b_vars, line, a_contexts, latest, a_connected, usage_seen, cursor, heartbeat_due,
                 owed_ports>>

\* Nothing to send, or the interface takes nothing after all: what was passed over stays so.
SendRefused ==
  /\ InRound
  /\ pending' = IF There = {} THEN {} ELSE PendingFrom(Lowest(There))
  /\ cursor' = IF There = {} THEN NextPlace(cursor) ELSE cursor
  /\ owed' = StillOwed
  /\ UNCHANGED <<heartbeat_due, owed_ports, fragment>>
  /\ Unsent

-----------------------------------------------------------------------------

DiagnosticsInit ==
  /\ scenario \in Scenarios
  /\ contexts = [p \in BPlaces |-> NoInterface]
  /\ pending_diagnostics = 0 /\ snapshots = {} /\ priority = <<>>
  /\ held = {} /\ line = <<>>
  /\ a_contexts = [p \in APlaces |-> NoInterface]
  /\ latest = {} /\ usage_seen = {} /\ queue = <<>>
  /\ pending = {} /\ cursor = PORTS + 1
  /\ heartbeat_due = TRUE
  /\ a_connected = {} /\ owed = {} /\ owed_ports = {}
  /\ fragment = EventRecord

B ==
  \/ tuh_hid_mount_cb \/ tuh_hid_umount_cb \/ tuh_diagnostic_event_cb \/ tuh_hid_report_received_cb
  \/ flush_pending_hid_reports \/ service_hid_host_priority_diagnostics \/ send_g700_health_probe
  \/ flush_pending_hid_host_diagnostics
serial_callback ==
  \/ DeviceConnected \/ DeviceDisconnected \/ ReportReceived \/ CountersReceived \/ SnapshotReceived
  \/ EventReceived
send_hid_host_diagnostic_report ==
  \/ Tick \/ SendHeartbeat \/ SendSnapshot \/ SendPorts \/ SendQueued \/ SendRefused

DiagnosticsNext == B \/ serial_callback \/ ParsedUsage \/ send_hid_host_diagnostic_report

DiagnosticsSpec == DiagnosticsInit /\ [][DiagnosticsNext]_diagnostics_vars

-----------------------------------------------------------------------------
(* Properties.                                                             *)

DiagnosticsTypeOK ==
  /\ contexts \in [BPlaces -> Interfaces \cup {NoInterface}]
  /\ pending_diagnostics \in 0 .. PENDING_QUEUE_SIZE
  /\ snapshots \subseteq {"hcd", "transport"}
  /\ priority \in Seq(Interfaces) /\ Len(priority) <= MAX_REPORT_COUNTERS
  /\ held \subseteq Mounted
  /\ Len(line) <= MaxLine
  /\ a_contexts \in [APlaces -> Interfaces \cup {NoInterface}]
  /\ latest \subseteq {"hcd", "transport", "g700"}
  /\ usage_seen \subseteq 0 .. PORTS - 1
  /\ Len(queue) <= QUEUE_SIZE
  /\ pending \subseteq Range(Kinds) /\ cursor \in 0 .. PORTS + 1
  /\ heartbeat_due \in BOOLEAN

\* "Preserve a complete periodic set across UART backpressure": the lane holds each interface
\* once, however long the UART is full and whatever is unplugged and plugged in meanwhile.
LaneIsOneSet == IsInjective(priority)

\* "Do not let one unmount discard counters for another still-mounted one": what A was told of
\* has a context, and only one, as long as there are places for all.
ConnectedHasContext ==
  Cardinality(Interfaces) <= CONTEXT_COUNT =>
    \A i \in a_connected : Cardinality({p \in APlaces : a_contexts[p] = i}) = 1

\* An interface's counters have one place on each board: the types, the lane, the contexts.
DiagnosticsInv == DiagnosticsTypeOK /\ LaneIsOneSet /\ ConnectedHasContext

\* The queue "cannot starve" what a round begins with: before one of its records is shown, the PC
\* has been shown every snapshot that A had and still has, each port and the merged output.
RoundIsOver == StillOwed = {} /\ owed_ports = {}

\* The PC can put a descriptor together from its fragments: each one that it is shown is the
\* first or follows the one before it, also if the queue had no room for all.
FragmentFollows ==
  Head(queue).kind = "descriptor" /\ Head(queue).offset > 1 =>
    fragment = [Head(queue) EXCEPT !.offset = @ - 1]

\* What the PC is shown from the queue comes after the round, and without gaps.
QueueIsShownInOrder == [][SendQueued => RoundIsOver /\ FragmentFollows]_diagnostics_vars
=============================================================================
