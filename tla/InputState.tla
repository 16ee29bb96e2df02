----------------------------- MODULE InputState -----------------------------
(***************************************************************************)
(* The input state of controller A (remapper.cc, descriptor_parser.cc): what *)
(* the reports of all interfaces say, as the mapping samples it once a     *)
(* frame.  A key has a word per mapped port in which every interface owns  *)
(* one bit; port 0 stands for all ports.  A relative axis has a sum per    *)
(* mapped port, taken and cleared by the frame.                            *)
(*                                                                         *)
(* The main loop reads messages of B, derives what the reports of the      *)
(* known interfaces write to, processes a frame if a tick is due, and      *)
(* loads a new configuration.                                              *)
(***************************************************************************)
EXTENDS Integers

CONSTANTS
  Interfaces,
  Devices,
  DeviceOf,      \* the device of an interface
  Ports,         \* hub ports, 1 and up
  HUB_PORT_NONE, \* of a device without a hub
  PortOf,        \* the port of a device
  ReportIds,
  Usages,        \* keys
  Exact,         \* [Interfaces -> [ReportIds -> keys with a field of their own]]
  Ranged,        \* [Interfaces -> [ReportIds -> keys of array ranges]]
  Relative,      \* the interfaces whose reports have the axis
  Axis,          \* the relative axis
  Configs,       \* configurations, as the <<usage, port>> they need states for
  LAST_INDEX,    \* 31
  NoIndex,
  NoEntry,
  Deltas,        \* what a report moves the axis by
  DRAIN_LIMIT,   \* DUAL_A_SERIAL_DRAIN_LIMIT
  MaxMotion      \* bound: motion between two frames

Indices == 0 .. LAST_INDEX
AllPorts == {0} \cup Ports
Slots == (Usages \cup {Axis}) \X AllPorts

ASSUME InputAssumption ==
  /\ LAST_INDEX \in Nat
  /\ NoIndex \notin Indices
  /\ DeviceOf \in [Interfaces -> Devices]
  /\ Ports \subseteq Nat \ {0}
  /\ HUB_PORT_NONE \notin AllPorts
  /\ NoEntry \notin AllPorts \cup {HUB_PORT_NONE}
  /\ PortOf \in [Devices -> Ports \cup {HUB_PORT_NONE}]
  /\ Axis \notin Usages
  /\ Configs \subseteq SUBSET Slots
  /\ Deltas \subseteq Int
  /\ DRAIN_LIMIT \in Nat \ {0}

VARIABLES
  pc,                      \* where the main loop is
  drained,                 \* input reports read in this pass
  interface_index,
  interface_index_in_use,
  hub_ports,
  active_ports_mask,
  usage_state_ptr,         \* the slots that have a state
  input_state,             \* of a key's slot: the indices whose bit is set
  motion,                  \* of the axis' slot at a port: the sum
  derived,                 \* the interfaces their_used_usages knows
  their_descriptor_updated,
  \* history
  seen,                    \* what an interface last said of a key
  owed,                    \* motion sent and not yet taken by a frame
  spoiled                  \* ports whose motion got lost or left behind

device_vars == <<interface_index, interface_index_in_use, hub_ports>>
state_vars == <<usage_state_ptr, input_state, motion>>
history == <<seen, owed, spoiled>>
vars == <<pc, drained, device_vars, active_ports_mask, state_vars, derived,
          their_descriptor_updated, history>>

Known == {i \in Interfaces : interface_index[i] # NoIndex}

\* get_state_ptr(usage, 0) and get_state_ptr(usage, hub_port), where they are.
SlotsOf(i, u) ==
  {s \in usage_state_ptr : s[1] = u /\ s[2] \in {0, hub_ports[DeviceOf[i]]}}

-----------------------------------------------------------------------------
(* Messages of B.                                                          *)

\* One report is handled and the next one may follow in the same pass.
ReadAnother ==
  IF drained + 1 < DRAIN_LIMIT
  THEN drained' = drained + 1 /\ UNCHANGED pc
  ELSE drained' = 0 /\ pc' = "derive"

StopReading ==
  /\ drained' = 0
  /\ pc' = "derive"

Activate(i) ==
  active_ports_mask' = active_ports_mask \cup ({hub_ports[DeviceOf[i]]} \cap Ports)

\* Mutated: a report replaces the word instead of its own bit.
WordLastWins(i, r, down, chosen, s) ==
  IF s[1] \in down \cup chosen THEN {interface_index[i]}
  ELSE IF s[1] \in Exact[i][r] \cup Ranged[i][r] THEN {}
  ELSE input_state[s]

\* The array ranges are cleared, then the fields read, those of ranges last.
Word(i, r, down, chosen, s) ==
  LET idx == interface_index[i]
      u == s[1]
      own == IF u \in down THEN {idx} ELSE {}
      word == IF u \in Exact[i][r] \cup Ranged[i][r]
              THEN (input_state[s] \ {idx}) \cup own ELSE input_state[s]
  IN  IF u \notin chosen THEN word
      ELSE IF s[2] = 0 THEN word \cup {idx}
      ELSE {idx}

\* Mutated: the last report wins.
AddedLast(sum, delta) == delta
Added(sum, delta) == sum + delta

AxisPorts(i) == {s[2] : s \in SlotsOf(i, Axis)}

do_handle_received_report(i, r, down, chosen, delta) ==
  /\ pc = "read"
  /\ i \in Known
  /\ \A p \in AllPorts : motion[p] + delta \in -MaxMotion .. MaxMotion
  /\ Activate(i)
  /\ input_state' = [s \in Usages \X AllPorts |->
                       IF i \in derived /\ s \in SlotsOf(i, s[1])
                       THEN Word(i, r, down, chosen, s) ELSE input_state[s]]
  /\ motion' = [p \in AllPorts |->
                  IF i \in derived \cap Relative /\ p \in AxisPorts(i)
                  THEN Added(motion[p], delta) ELSE motion[p]]
  /\ seen' = [seen EXCEPT ![i] =
                [u \in Usages |-> IF u \in down \cup chosen THEN "down"
                                  ELSE IF u \in Exact[i][r] \cup Ranged[i][r] THEN "up"
                                  ELSE @[u]]]
  /\ owed' = [p \in AllPorts |->
                IF i \in Relative /\ p \in AxisPorts(i) THEN owed[p] + delta ELSE owed[p]]
  /\ ReadAnother
  /\ UNCHANGED <<device_vars, usage_state_ptr, derived, their_descriptor_updated, spoiled>>

\* A report of a keyboard that has lost track of its keys says nothing.
HandleRollover(i) ==
  /\ pc = "read"
  /\ i \in Known
  /\ Activate(i)
  /\ ReadAnother
  /\ UNCHANGED <<device_vars, state_vars, derived, their_descriptor_updated, history>>

\* assign_interface_index: the loop ends at the first free index, or the last.
\* Mutated: the loop has no bound.
EndsAtFree(n) ==
  /\ \A k \in 0 .. n - 1 : k \in interface_index_in_use
  /\ n \notin interface_index_in_use

EndsAt(n) ==
  /\ n <= LAST_INDEX
  /\ \A k \in 0 .. n - 1 : k \in interface_index_in_use
  /\ n = LAST_INDEX \/ n \notin interface_index_in_use

assign_interface_index(i) ==
  IF i \in Known THEN UNCHANGED <<interface_index, interface_index_in_use>>
  ELSE \E n \in 0 .. LAST_INDEX + 1 :
         /\ EndsAt(n)
         /\ interface_index' = [interface_index EXCEPT ![i] = n]
         /\ interface_index_in_use' = interface_index_in_use \cup {n}

\* DEVICE_CONNECTED: parse_descriptor, then device_connected_callback.
DeviceConnected(i) ==
  /\ pc = "read"
  /\ assign_interface_index(i)
  /\ hub_ports' = [hub_ports EXCEPT ![DeviceOf[i]] = PortOf[DeviceOf[i]]]
  /\ their_descriptor_updated' = TRUE
  /\ StopReading
  /\ UNCHANGED <<active_ports_mask, state_vars, derived, history>>

\* Mutated: the entry of interface_index is gone before its index is read.
IndicesErasedFirst(gone) == IF gone \cap Known = {} THEN {} ELSE {0}
IndicesOf(gone) == {interface_index[i] : i \in gone \cap Known}

clear_descriptor_data(dev_addr) ==
  LET gone == {i \in Interfaces : DeviceOf[i] = dev_addr} IN
  /\ interface_index_in_use' = interface_index_in_use \ IndicesOf(gone)
  /\ interface_index' = [i \in Interfaces |->
                           IF i \in gone THEN NoIndex ELSE interface_index[i]]
  /\ seen' = [i \in Interfaces |-> IF i \in gone THEN [u \in Usages |-> "none"] ELSE seen[i]]
  /\ their_descriptor_updated' = TRUE

LeavePort(dev_addr) == active_ports_mask' = active_ports_mask \ {hub_ports[dev_addr]}

\* DEVICE_DISCONNECTED: the bits of the device's interfaces stay.
device_disconnected_callback(dev_addr) ==
  /\ pc = "read"
  /\ clear_descriptor_data(dev_addr)
  /\ LeavePort(dev_addr)
  /\ hub_ports' = [hub_ports EXCEPT ![dev_addr] = NoEntry]
  /\ StopReading
  /\ UNCHANGED <<state_vars, derived, owed, spoiled>>

\* No message, or one that is about something else.
ReadNothing ==
  /\ pc = "read"
  /\ StopReading
  /\ UNCHANGED <<device_vars, active_ports_mask, state_vars, derived,
                 their_descriptor_updated, history>>

-----------------------------------------------------------------------------
(* The rest of a pass.                                                     *)

\* relative_usages: the ports at which a frame clears the axis.
relative_usages == UNION {AxisPorts(i) : i \in derived \cap Relative}
RelativeThen == UNION {AxisPorts(i) : i \in Known \cap Relative}

\* What is pending at a port that no interface defines any more stays.
update_their_descriptor_derivates ==
  /\ pc = "derive"
  /\ IF their_descriptor_updated THEN derived' = Known ELSE UNCHANGED derived
  /\ their_descriptor_updated' = FALSE
  /\ spoiled' = IF ~their_descriptor_updated THEN spoiled
                ELSE spoiled \cup {p \in AllPorts : motion[p] # 0 /\ p \notin RelativeThen}
  /\ pc' = "tick"
  /\ UNCHANGED <<drained, device_vars, active_ports_mask, state_vars, seen, owed>>

\* The frame as far as it takes motion: a source is read unless its port is
\* inactive.  Every key's word is read and left; what the frame makes of it is the
\* mapping's.
Reads(p) == p = 0 \/ p \in active_ports_mask

process_mapping ==
  /\ pc = "tick"
  /\ owed' = [p \in AllPorts |->
                IF p \in spoiled THEN 0
                ELSE IF Reads(p) THEN owed[p] - motion[p] ELSE owed[p]]
  /\ motion' = [p \in AllPorts |-> IF p \in relative_usages THEN 0 ELSE motion[p]]
  /\ spoiled' = spoiled \cup {p \in AllPorts : motion[p] # 0 /\ ~Reads(p)}
  /\ pc' = "config"
  /\ UNCHANGED <<drained, device_vars, active_ports_mask, usage_state_ptr, input_state,
                 derived, their_descriptor_updated, seen>>

NoTick ==
  /\ pc = "tick"
  /\ pc' = "config"
  /\ UNCHANGED <<drained, device_vars, active_ports_mask, state_vars, derived,
                 their_descriptor_updated, history>>

\* Everything starts from zero; what is held is seen again with its next report.
set_mapping_from_config(config) ==
  /\ pc = "config"
  /\ usage_state_ptr' = config
  /\ input_state' = [s \in Usages \X AllPorts |-> {}]
  /\ motion' = [p \in AllPorts |-> 0]
  /\ active_ports_mask' = {}
  /\ derived' = Known
  /\ seen' = [i \in Interfaces |-> [u \in Usages |-> "none"]]
  /\ owed' = [p \in AllPorts |-> 0]
  /\ spoiled' = {}
  /\ pc' = "read"
  /\ UNCHANGED <<drained, device_vars, their_descriptor_updated>>

NoNewConfig ==
  /\ pc = "config"
  /\ pc' = "read"
  /\ UNCHANGED <<drained, device_vars, active_ports_mask, state_vars, derived,
                 their_descriptor_updated, history>>

-----------------------------------------------------------------------------
Init ==
  /\ pc = "read"
  /\ drained = 0
  /\ interface_index = [i \in Interfaces |-> NoIndex]
  /\ interface_index_in_use = {}
  /\ hub_ports = [d \in Devices |-> NoEntry]
  /\ active_ports_mask = {}
  /\ usage_state_ptr \in Configs
  /\ input_state = [s \in Usages \X AllPorts |-> {}]
  /\ motion = [p \in AllPorts |-> 0]
  /\ derived = {}
  /\ their_descriptor_updated = FALSE
  /\ seen = [i \in Interfaces |-> [u \in Usages |-> "none"]]
  /\ owed = [p \in AllPorts |-> 0]
  /\ spoiled = {}

HandleReport(i, r) ==
  \E down \in SUBSET Exact[i][r], chosen \in SUBSET Ranged[i][r],
     delta \in IF i \in Relative THEN Deltas ELSE {0} :
    do_handle_received_report(i, r, down, chosen, delta)

Next ==
  \/ \E i \in Interfaces, r \in ReportIds : HandleReport(i, r)
  \/ \E i \in Interfaces : HandleRollover(i)
  \/ \E i \in Interfaces : DeviceConnected(i)
  \/ \E d \in Devices : device_disconnected_callback(d)
  \/ ReadNothing
  \/ update_their_descriptor_derivates
  \/ process_mapping
  \/ NoTick
  \/ \E config \in Configs : set_mapping_from_config(config)
  \/ NoNewConfig

Spec == Init /\ [][Next]_vars

-----------------------------------------------------------------------------
(* Properties.                                                             *)

TypeOK ==
  /\ pc \in {"read", "derive", "tick", "config"}
  /\ drained \in 0 .. DRAIN_LIMIT
  /\ interface_index \in [Interfaces -> Indices \cup {NoIndex}]
  /\ interface_index_in_use \subseteq Indices
  /\ hub_ports \in [Devices -> Ports \cup {HUB_PORT_NONE, NoEntry}]
  /\ active_ports_mask \subseteq Ports
  /\ usage_state_ptr \in Configs
  /\ input_state \in [Usages \X AllPorts -> SUBSET Indices]
  /\ motion \in [AllPorts -> Int]
  /\ derived \subseteq Interfaces
  /\ their_descriptor_updated \in BOOLEAN
  /\ seen \in [Interfaces -> [Usages -> {"none", "up", "down"}]]
  /\ owed \in [AllPorts -> Int]
  /\ spoiled \subseteq AllPorts

\* No two interfaces share a bit, except the last one, and an index is given out
\* again only after its interface has gone.
IndexPerInterface ==
  /\ \A i, j \in Known :
       i # j /\ interface_index[i] = interface_index[j] => interface_index[i] = LAST_INDEX
  /\ interface_index_in_use \ {LAST_INDEX} =
       {interface_index[i] : i \in Known} \ {LAST_INDEX}

\* A word keeps the interfaces of a port apart unless an array range sets it.
KeepsApart(s) ==
  \/ s[2] = 0
  \/ \A i \in Interfaces, r \in ReportIds :
       PortOf[DeviceOf[i]] = s[2] => s[1] \notin Ranged[i][r]

Reported(i, s) ==
  /\ i \in Known
  /\ interface_index[i] # LAST_INDEX
  /\ s \in SlotsOf(i, s[1])
  /\ seen[i][s[1]] # "none"

\* For every key an interface has reported on, its bit says what its last report
\* said, whatever the other interfaces report, come or go in between, whoever had
\* the index before, and whatever was mapped before.
BitsFollowReports ==
  \A i \in Interfaces, s \in Usages \X AllPorts :
    Reported(i, s) /\ KeepsApart(s) =>
      (interface_index[i] \in input_state[s] <=> seen[i][s[1]] = "down")

\* All motion is taken by a frame, and once, except what is pending when the last
\* interface with the axis goes and what a port has when it becomes inactive.
MotionTakenOnce == \A p \in AllPorts \ spoiled : owed[p] = motion[p]

\* A mapping of one port is not in force while nothing is plugged in there.
ActivePortIsPlugged ==
  \A p \in active_ports_mask : \E d \in Devices : hub_ports[d] = p
=============================================================================
