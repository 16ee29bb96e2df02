--------------------------- MODULE InputStateProofs ---------------------------
(* Proofs about InputState: indices, bits, motion and ports, for every set of *)
(* interfaces, devices and configurations.                                    *)
EXTENDS InputState, TLAPS

\* The derivates are those of the known interfaces whenever a report is read.
Fresh == derived = Known \/ (pc = "derive" /\ their_descriptor_updated)

\* hub_ports has the port of every device with a known interface.
PortsKnown ==
  /\ \A d \in Devices : hub_ports[d] \in {NoEntry, PortOf[d]}
  /\ \A i \in Known : hub_ports[DeviceOf[i]] = PortOf[DeviceOf[i]]

\* Only known interfaces have said anything.
OnlyKnown == \A i \in Interfaces, u \in Usages : seen[i][u] # "none" => i \in Known

BaseInv == TypeOK /\ Fresh /\ PortsKnown /\ OnlyKnown

\* Motion is pending only where a frame clears it.
MotionHasOwner ==
  \/ pc = "derive" /\ their_descriptor_updated
  \/ \A p \in AllPorts \ spoiled : motion[p] # 0 => p \in relative_usages

-----------------------------------------------------------------------------
(* Types and bookkeeping.                                                  *)

\* The indices a new interface may get are in range, and none but the last is
\* given out twice.
LEMMA NewIndex ==
  ASSUME NEW n \in 0 .. LAST_INDEX + 1, EndsAt(n)
  PROVE  /\ n \in Indices
         /\ n = LAST_INDEX \/ n \notin interface_index_in_use
BY InputAssumption DEF EndsAt, Indices

\* A word that holds indices holds indices after a report.
LEMMA WordType ==
  ASSUME TypeOK, NEW i \in Known, NEW r, NEW down, NEW chosen,
         NEW s \in Usages \X AllPorts
  PROVE  Word(i, r, down, chosen, s) \in SUBSET Indices
<1>1. interface_index[i] \in Indices
  BY DEF TypeOK, Known
<1>2. input_state[s] \in SUBSET Indices
  BY DEF TypeOK
<1> QED BY <1>1, <1>2 DEF Word

\* Init establishes the types and the bookkeeping of phases, ports and reports.
LEMMA InitBase == Init => BaseInv
<1> SUFFICES ASSUME Init PROVE BaseInv
  OBVIOUS
<1>1. Known = {}
  BY DEF Init, Known
<1>2. TypeOK
  <2>1. seen \in [Interfaces -> [Usages -> {"none", "up", "down"}]]
    BY DEF Init
  <2>2. /\ input_state \in [Usages \X AllPorts -> SUBSET Indices]
        /\ motion \in [AllPorts -> Int]
        /\ owed \in [AllPorts -> Int]
    BY DEF Init
  <2>3. /\ interface_index \in [Interfaces -> Indices \cup {NoIndex}]
        /\ hub_ports \in [Devices -> Ports \cup {HUB_PORT_NONE, NoEntry}]
    BY DEF Init
  <2>4. /\ drained \in 0 .. DRAIN_LIMIT
        /\ pc \in {"read", "derive", "tick", "config"}
    BY InputAssumption DEF Init
  <2>5. /\ interface_index_in_use \subseteq Indices
        /\ active_ports_mask \subseteq Ports
        /\ derived \subseteq Interfaces
        /\ spoiled \subseteq AllPorts
        /\ usage_state_ptr \in Configs
        /\ their_descriptor_updated \in BOOLEAN
    BY DEF Init
  <2> QED BY <2>1, <2>2, <2>3, <2>4, <2>5 DEF TypeOK
<1>3. Fresh /\ PortsKnown /\ OnlyKnown
  BY <1>1 DEF Init, Fresh, PortsKnown, OnlyKnown
<1> QED BY <1>2, <1>3 DEF BaseInv

\* A handled report leaves devices and derivates alone.
LEMMA ReportBase ==
  ASSUME BaseInv, NEW i \in Interfaces, NEW r \in ReportIds,
         NEW down, NEW chosen, NEW delta \in Int,
         do_handle_received_report(i, r, down, chosen, delta)
  PROVE  BaseInv'
<1>1. i \in Known /\ pc = "read"
  BY DEF do_handle_received_report
<1>2. TypeOK'
  <2>1. active_ports_mask' \subseteq Ports
    BY DEF BaseInv, TypeOK, do_handle_received_report, Activate
  <2>2. /\ pc' \in {"read", "derive", "tick", "config"}
        /\ drained' \in 0 .. DRAIN_LIMIT
    BY InputAssumption DEF BaseInv, TypeOK, do_handle_received_report, ReadAnother
  <2>3. input_state' \in [Usages \X AllPorts -> SUBSET Indices]
    <3>1. ASSUME NEW s \in Usages \X AllPorts
          PROVE  /\ Word(i, r, down, chosen, s) \in SUBSET Indices
                 /\ input_state[s] \in SUBSET Indices
      BY <1>1, WordType DEF BaseInv, TypeOK
    <3> HIDE DEF Word
    <3> QED BY <3>1 DEF do_handle_received_report
  <2>4. /\ motion' \in [AllPorts -> Int]
        /\ owed' \in [AllPorts -> Int]
    <3>1. ASSUME NEW p \in AllPorts
          PROVE  motion[p] + delta \in Int /\ owed[p] + delta \in Int
      BY DEF BaseInv, TypeOK
    <3> QED BY <3>1 DEF do_handle_received_report, Added, BaseInv, TypeOK
  <2>5. seen' \in [Interfaces -> [Usages -> {"none", "up", "down"}]]
    <3> DEFINE new == [u \in Usages |-> IF u \in down \cup chosen THEN "down"
                         ELSE IF u \in Exact[i][r] \cup Ranged[i][r] THEN "up"
                         ELSE seen[i][u]]
    <3>1. new \in [Usages -> {"none", "up", "down"}]
      BY DEF BaseInv, TypeOK
    <3>2. seen' = [seen EXCEPT ![i] = new]
      BY DEF do_handle_received_report
    <3> HIDE DEF new
    <3> QED BY <3>1, <3>2 DEF BaseInv, TypeOK
  <2> QED BY <2>1, <2>2, <2>3, <2>4, <2>5
        DEF BaseInv, TypeOK, do_handle_received_report, device_vars
<1>3. Known' = Known
  BY DEF do_handle_received_report, device_vars, Known
<1>4. Fresh'
  BY <1>1, <1>3 DEF BaseInv, Fresh, do_handle_received_report
<1>5. PortsKnown'
  BY <1>3 DEF BaseInv, PortsKnown, do_handle_received_report, device_vars
<1>6. OnlyKnown'
  <2>1. ASSUME NEW j \in Interfaces, j # i PROVE seen'[j] = seen[j]
    BY <2>1 DEF do_handle_received_report, BaseInv, TypeOK
  <2>2. ASSUME NEW j \in Interfaces, NEW u \in Usages, seen'[j][u] # "none"
        PROVE  j \in Known
    BY <1>1, <2>1, <2>2 DEF BaseInv, OnlyKnown
  <2> QED BY <1>3, <2>2 DEF OnlyKnown
<1> QED BY <1>2, <1>4, <1>5, <1>6 DEF BaseInv

\* A new interface has a port and has said nothing.
LEMMA ConnectBase ==
  ASSUME BaseInv, NEW i \in Interfaces, DeviceConnected(i)
  PROVE  BaseInv'
<1>1. /\ interface_index' \in [Interfaces -> Indices \cup {NoIndex}]
      /\ interface_index_in_use' \subseteq Indices
      /\ Known' = Known \cup {i}
  <2>1. CASE i \in Known
    BY <2>1 DEF DeviceConnected, assign_interface_index, BaseInv, TypeOK, Known
  <2>2. CASE i \notin Known
    <3>1. PICK n \in 0 .. LAST_INDEX + 1 :
            /\ EndsAt(n)
            /\ interface_index' = [interface_index EXCEPT ![i] = n]
            /\ interface_index_in_use' = interface_index_in_use \cup {n}
      BY <2>2 DEF DeviceConnected, assign_interface_index
    <3>2. n \in Indices /\ n # NoIndex
      BY <3>1, NewIndex, InputAssumption
    <3> QED BY <3>1, <3>2 DEF BaseInv, TypeOK, Known
  <2> QED BY <2>1, <2>2
<1>2. DeviceOf[i] \in Devices /\ PortOf[DeviceOf[i]] \in Ports \cup {HUB_PORT_NONE}
  BY InputAssumption
<1>3. TypeOK'
  <2>1. hub_ports' \in [Devices -> Ports \cup {HUB_PORT_NONE, NoEntry}]
    BY <1>2 DEF DeviceConnected, BaseInv, TypeOK
  <2>2. pc' = "derive" /\ drained' \in 0 .. DRAIN_LIMIT
    BY InputAssumption DEF DeviceConnected, StopReading
  <2> QED BY <1>1, <2>1, <2>2
        DEF DeviceConnected, BaseInv, TypeOK, state_vars, history
<1>4. Fresh'
  BY DEF DeviceConnected, StopReading, Fresh
<1>5. PortsKnown'
  <2>1. ASSUME NEW d \in Devices
        PROVE  hub_ports'[d] = IF d = DeviceOf[i] THEN PortOf[d] ELSE hub_ports[d]
    BY <1>2 DEF DeviceConnected, BaseInv, TypeOK
  <2>2. \A j \in Known' : DeviceOf[j] \in Devices /\ j \in Known \cup {i}
    BY <1>1, InputAssumption DEF Known
  <2> QED BY <2>1, <2>2, <1>1 DEF BaseInv, PortsKnown
<1>6. OnlyKnown'
  BY <1>1 DEF DeviceConnected, history, BaseInv, OnlyKnown
<1> QED BY <1>3, <1>4, <1>5, <1>6 DEF BaseInv

\* A device that goes takes its interfaces with it.
LEMMA DisconnectBase ==
  ASSUME BaseInv, NEW d \in Devices, device_disconnected_callback(d)
  PROVE  BaseInv'
<1>1. Known' = {i \in Known : DeviceOf[i] # d}
  BY DEF device_disconnected_callback, clear_descriptor_data, BaseInv, TypeOK, Known
<1>2. TypeOK'
  <2>1. /\ interface_index' \in [Interfaces -> Indices \cup {NoIndex}]
        /\ interface_index_in_use' \subseteq Indices
    BY DEF device_disconnected_callback, clear_descriptor_data, BaseInv, TypeOK
  <2>2. hub_ports' \in [Devices -> Ports \cup {HUB_PORT_NONE, NoEntry}]
    BY DEF device_disconnected_callback, BaseInv, TypeOK
  <2>3. seen' \in [Interfaces -> [Usages -> {"none", "up", "down"}]]
    <3> DEFINE none == [u \in Usages |-> "none"]
    <3>1. none \in [Usages -> {"none", "up", "down"}]
      OBVIOUS
    <3>2. seen' = [i \in Interfaces |->
                     IF i \in {j \in Interfaces : DeviceOf[j] = d} THEN none ELSE seen[i]]
      BY DEF device_disconnected_callback, clear_descriptor_data
    <3> HIDE DEF none
    <3> QED BY <3>1, <3>2 DEF BaseInv, TypeOK
  <2>4. pc' = "derive" /\ drained' \in 0 .. DRAIN_LIMIT
    BY InputAssumption DEF device_disconnected_callback, StopReading
  <2>5. their_descriptor_updated' = TRUE
    BY DEF device_disconnected_callback, clear_descriptor_data
  <2>6. active_ports_mask' \subseteq Ports
    BY DEF device_disconnected_callback, LeavePort, BaseInv, TypeOK
  <2> QED BY <2>1, <2>2, <2>3, <2>4, <2>5, <2>6
        DEF device_disconnected_callback, BaseInv, TypeOK, state_vars
<1>3. Fresh'
  BY DEF device_disconnected_callback, clear_descriptor_data, StopReading, Fresh
<1>4. PortsKnown'
  <2>1. ASSUME NEW e \in Devices
        PROVE  hub_ports'[e] = IF e = d THEN NoEntry ELSE hub_ports[e]
    BY DEF device_disconnected_callback, BaseInv, TypeOK
  <2>2. \A j \in Known' : DeviceOf[j] \in Devices \ {d} /\ j \in Known
    BY <1>1, InputAssumption DEF Known
  <2> QED BY <2>1, <2>2 DEF BaseInv, PortsKnown
<1>5. OnlyKnown'
  <2>1. ASSUME NEW j \in Interfaces, NEW u \in Usages, seen'[j][u] # "none"
        PROVE  DeviceOf[j] # d /\ seen[j][u] # "none"
    BY <2>1 DEF device_disconnected_callback, clear_descriptor_data
  <2> QED BY <1>1, <2>1 DEF BaseInv, OnlyKnown
<1> QED BY <1>2, <1>3, <1>4, <1>5 DEF BaseInv

\* Every step preserves the bookkeeping.
LEMMA StepBase == BaseInv /\ [Next]_vars => BaseInv'
<1> SUFFICES ASSUME BaseInv, [Next]_vars PROVE BaseInv'
  OBVIOUS
<1>1. ASSUME NEW i \in Interfaces, NEW r \in ReportIds, HandleReport(i, r)
      PROVE  BaseInv'
  <2>1. PICK down \in SUBSET Exact[i][r], chosen \in SUBSET Ranged[i][r],
             delta \in IF i \in Relative THEN Deltas ELSE {0} :
          do_handle_received_report(i, r, down, chosen, delta)
    BY <1>1 DEF HandleReport
  <2>2. delta \in Int
    BY InputAssumption
  <2> QED BY <2>1, <2>2, ReportBase
<1>2. ASSUME NEW i \in Interfaces, HandleRollover(i)
      PROVE  BaseInv'
  <2>1. /\ pc' \in {"read", "derive", "tick", "config"}
        /\ drained' \in 0 .. DRAIN_LIMIT
    BY <1>2, InputAssumption DEF HandleRollover, ReadAnother, BaseInv, TypeOK
  <2>2. active_ports_mask' \subseteq Ports
    BY <1>2 DEF HandleRollover, Activate, BaseInv, TypeOK
  <2>3. Known' = Known
    BY <1>2 DEF HandleRollover, device_vars, Known
  <2> QED BY <1>2, <2>1, <2>2, <2>3
        DEF HandleRollover, device_vars, state_vars, history,
            BaseInv, TypeOK, Fresh, PortsKnown, OnlyKnown
<1>3. ASSUME NEW i \in Interfaces, DeviceConnected(i)
      PROVE  BaseInv'
  BY <1>3, ConnectBase
<1>4. ASSUME NEW d \in Devices, device_disconnected_callback(d)
      PROVE  BaseInv'
  BY <1>4, DisconnectBase
<1>5. CASE ReadNothing
  <2>1. pc' = "derive" /\ drained' \in 0 .. DRAIN_LIMIT
    BY <1>5, InputAssumption DEF ReadNothing, StopReading
  <2>2. Known' = Known
    BY <1>5 DEF ReadNothing, device_vars, Known
  <2> QED BY <1>5, <2>1, <2>2
        DEF ReadNothing, device_vars, state_vars, history,
            BaseInv, TypeOK, Fresh, PortsKnown, OnlyKnown
<1>6. CASE update_their_descriptor_derivates
  <2>1. derived' = Known /\ Known' = Known
    <3>1. Known' = Known
      BY <1>6 DEF update_their_descriptor_derivates, device_vars, Known
    <3>2. CASE their_descriptor_updated
      BY <1>6, <3>1, <3>2 DEF update_their_descriptor_derivates
    <3>3. CASE ~their_descriptor_updated
      BY <1>6, <3>1, <3>3 DEF update_their_descriptor_derivates, BaseInv, Fresh
    <3> QED BY <3>2, <3>3, <3>1
  <2>2. spoiled' \subseteq AllPorts
    BY <1>6 DEF update_their_descriptor_derivates, BaseInv, TypeOK
  <2>3. Known \subseteq Interfaces
    BY DEF Known
  <2> QED BY <1>6, <2>1, <2>2, <2>3
        DEF update_their_descriptor_derivates, device_vars, state_vars,
            BaseInv, TypeOK, Fresh, PortsKnown, OnlyKnown
<1>7. CASE process_mapping
  <2>1. owed' \in [AllPorts -> Int] /\ motion' \in [AllPorts -> Int]
    BY <1>7 DEF process_mapping, BaseInv, TypeOK
  <2>2. Known' = Known
    BY <1>7 DEF process_mapping, device_vars, Known
  <2>3. spoiled' \subseteq AllPorts
    BY <1>7 DEF process_mapping, BaseInv, TypeOK
  <2> QED BY <1>7, <2>1, <2>2, <2>3
        DEF process_mapping, device_vars, BaseInv, TypeOK, Fresh, PortsKnown, OnlyKnown
<1>8. CASE NoTick
  BY <1>8 DEF NoTick, device_vars, state_vars, history,
     BaseInv, TypeOK, Fresh, PortsKnown, OnlyKnown, Known
<1>9. ASSUME NEW config \in Configs, set_mapping_from_config(config)
      PROVE  BaseInv'
  <2>1. input_state' \in [Usages \X AllPorts -> SUBSET Indices]
    BY <1>9 DEF set_mapping_from_config
  <2>2. motion' \in [AllPorts -> Int] /\ owed' \in [AllPorts -> Int]
    BY <1>9 DEF set_mapping_from_config
  <2>3. seen' \in [Interfaces -> [Usages -> {"none", "up", "down"}]]
    BY <1>9 DEF set_mapping_from_config
  <2>4. Known' = Known /\ derived' = Known /\ Known \subseteq Interfaces
    BY <1>9 DEF set_mapping_from_config, device_vars, Known
  <2>5. OnlyKnown'
    BY <1>9 DEF set_mapping_from_config, OnlyKnown
  <2> QED BY <1>9, <2>1, <2>2, <2>3, <2>4, <2>5
        DEF set_mapping_from_config, device_vars, BaseInv, TypeOK, Fresh, PortsKnown
<1>10. CASE NoNewConfig
  BY <1>10 DEF NoNewConfig, device_vars, state_vars, history,
     BaseInv, TypeOK, Fresh, PortsKnown, OnlyKnown, Known
<1>11. CASE UNCHANGED vars
  BY <1>11 DEF vars, device_vars, state_vars, history,
     BaseInv, TypeOK, Fresh, PortsKnown, OnlyKnown, Known
<1> QED BY <1>1, <1>2, <1>3, <1>4, <1>5, <1>6, <1>7, <1>8, <1>9, <1>10, <1>11 DEF Next

\* Indices, bits, ports and sums always have their types (the state of
\* remapper.cc and descriptor_parser.cc).
THEOREM TypeCorrect == Spec => []TypeOK
<1>1. BaseInv => TypeOK
  BY DEF BaseInv
<1> QED BY <1>1, InitBase, StepBase, PTL DEF Spec

-----------------------------------------------------------------------------
(* Indices.                                                                *)

\* A step that changes devices keeps the indices apart.
LEMMA StepIndex == BaseInv /\ IndexPerInterface /\ [Next]_vars => IndexPerInterface'
<1> SUFFICES ASSUME BaseInv, IndexPerInterface, [Next]_vars PROVE IndexPerInterface'
  OBVIOUS
<1>1. ASSUME UNCHANGED <<interface_index, interface_index_in_use>>
      PROVE  IndexPerInterface'
  BY <1>1 DEF IndexPerInterface, Known
<1>2. ASSUME NEW i \in Interfaces, DeviceConnected(i)
      PROVE  IndexPerInterface'
  <2>1. CASE i \in Known
    BY <1>1, <1>2, <2>1 DEF DeviceConnected, assign_interface_index
  <2>2. CASE i \notin Known
    <3>1. PICK n \in 0 .. LAST_INDEX + 1 :
            /\ EndsAt(n)
            /\ interface_index' = [interface_index EXCEPT ![i] = n]
            /\ interface_index_in_use' = interface_index_in_use \cup {n}
      BY <1>2, <2>2 DEF DeviceConnected, assign_interface_index
    <3>2. /\ n \in Indices /\ n # NoIndex
          /\ n = LAST_INDEX \/ n \notin interface_index_in_use
      BY <3>1, NewIndex, InputAssumption
    <3>3. Known' = Known \cup {i}
      BY <3>1, <3>2 DEF BaseInv, TypeOK, Known
    <3>4. interface_index'[i] = n /\ \A j \in Known : interface_index'[j] = interface_index[j]
      BY <2>2, <3>1 DEF BaseInv, TypeOK, Known
    <3>5. n # LAST_INDEX => \A j \in Known : interface_index[j] # n
      BY <3>2 DEF IndexPerInterface
    <3>6. \A j, k \in Known' : j # k /\ interface_index'[j] = interface_index'[k] =>
             interface_index'[j] = LAST_INDEX
      BY <3>3, <3>4, <3>5 DEF IndexPerInterface
    <3>7. interface_index_in_use' \ {LAST_INDEX} =
            {interface_index'[j] : j \in Known'} \ {LAST_INDEX}
      BY <3>1, <3>3, <3>4 DEF IndexPerInterface
    <3> QED BY <3>6, <3>7 DEF IndexPerInterface
  <2> QED BY <2>1, <2>2
<1>3. ASSUME NEW d \in Devices, device_disconnected_callback(d)
      PROVE  IndexPerInterface'
  <2> DEFINE gone == {i \in Interfaces : DeviceOf[i] = d}
  <2>1. /\ interface_index_in_use' = interface_index_in_use \ IndicesOf(gone)
        /\ interface_index' = [i \in Interfaces |-> IF i \in gone THEN NoIndex
                                                    ELSE interface_index[i]]
    BY <1>3 DEF device_disconnected_callback, clear_descriptor_data
  <2>2. Known' = Known \ gone /\ Known \subseteq Interfaces
    BY <2>1 DEF Known
  <2>3. \A j \in Known' : interface_index'[j] = interface_index[j]
    BY <2>1, <2>2
  <2> HIDE DEF gone
  <2>4. \A k \in IndicesOf(gone) : k # LAST_INDEX => \A j \in Known' : interface_index[j] # k
    BY <2>2 DEF IndicesOf, IndexPerInterface
  <2>5. \A j \in Known : interface_index[j] \notin IndicesOf(gone) => j \in Known'
    BY <2>2 DEF IndicesOf
  <2>6. interface_index_in_use' \ {LAST_INDEX} =
          {interface_index'[j] : j \in Known'} \ {LAST_INDEX}
    BY <2>1, <2>2, <2>3, <2>4, <2>5 DEF IndexPerInterface
  <2> QED BY <2>2, <2>3, <2>6 DEF IndexPerInterface
<1> QED BY <1>1, <1>2, <1>3
        DEF Next, vars, device_vars, HandleReport, do_handle_received_report, HandleRollover,
            ReadNothing, update_their_descriptor_derivates, process_mapping, NoTick,
            set_mapping_from_config, NoNewConfig

\* assign_interface_index and clear_descriptor_data give no two interfaces the same
\* bit but the last, and interface_index_in_use is what is given out.
THEOREM OwnIndex == Spec => []IndexPerInterface
<1>1. Init => IndexPerInterface
  BY DEF Init, IndexPerInterface, Known
<1> QED BY <1>1, InitBase, StepBase, StepIndex, PTL DEF Spec

-----------------------------------------------------------------------------
(* Bits.                                                                   *)

\* A report changes the bit of its own interface, and only as far as it speaks of
\* the key, unless an array range sets the word of a port.
LEMMA WordOwn ==
  ASSUME NEW i \in Interfaces, NEW r,
         NEW down \in SUBSET Exact[i][r], NEW chosen \in SUBSET Ranged[i][r],
         NEW s \in Usages \X AllPorts
  PROVE  IF s[1] \in down \cup chosen
         THEN interface_index[i] \in Word(i, r, down, chosen, s)
         ELSE IF s[1] \in Exact[i][r] \cup Ranged[i][r]
         THEN interface_index[i] \notin Word(i, r, down, chosen, s)
         ELSE Word(i, r, down, chosen, s) = input_state[s]
BY DEF Word

LEMMA WordOther ==
  ASSUME NEW i \in Interfaces, NEW r,
         NEW down \in SUBSET Exact[i][r], NEW chosen \in SUBSET Ranged[i][r],
         NEW s \in Usages \X AllPorts, s[2] = 0 \/ s[1] \notin Ranged[i][r],
         NEW k, k # interface_index[i]
  PROVE  k \in Word(i, r, down, chosen, s) <=> k \in input_state[s]
BY DEF Word

\* A report keeps every bit what its interface said last.
LEMMA ReportBits ==
  ASSUME BaseInv, IndexPerInterface, BitsFollowReports,
         NEW i \in Interfaces, NEW r \in ReportIds,
         NEW down \in SUBSET Exact[i][r], NEW chosen \in SUBSET Ranged[i][r], NEW delta,
         do_handle_received_report(i, r, down, chosen, delta)
  PROVE  BitsFollowReports'
<1>1. /\ i \in Known /\ i \in derived
      /\ hub_ports[DeviceOf[i]] = PortOf[DeviceOf[i]]
  BY DEF do_handle_received_report, BaseInv, Fresh, PortsKnown
<1>2. UNCHANGED <<interface_index, hub_ports, usage_state_ptr>>
  BY DEF do_handle_received_report, device_vars
<1>3. SUFFICES ASSUME NEW j \in Interfaces, NEW s \in Usages \X AllPorts,
                      Reported(j, s)', KeepsApart(s)
               PROVE  interface_index[j] \in input_state'[s] <=> seen'[j][s[1]] = "down"
  BY <1>2 DEF BitsFollowReports, KeepsApart
<1>4. /\ j \in Known /\ interface_index[j] # LAST_INDEX
      /\ s \in SlotsOf(j, s[1]) /\ seen'[j][s[1]] # "none"
  BY <1>2, <1>3 DEF Reported, Known, SlotsOf
<1>5. /\ s[1] \in Usages /\ s[2] \in AllPorts
      /\ \A k \in Interfaces \ {i} : seen'[k] = seen[k]
  BY DEF do_handle_received_report, BaseInv, TypeOK
<1>6. input_state'[s] = IF s \in SlotsOf(i, s[1])
                        THEN Word(i, r, down, chosen, s) ELSE input_state[s]
  BY <1>1 DEF do_handle_received_report
<1>7. seen[j][s[1]] # "none" =>
        (interface_index[j] \in input_state[s] <=> seen[j][s[1]] = "down")
  BY <1>3, <1>4 DEF BitsFollowReports, Reported
<1>8. CASE j = i
  <2>1. seen'[i][s[1]] = IF s[1] \in down \cup chosen THEN "down"
                         ELSE IF s[1] \in Exact[i][r] \cup Ranged[i][r] THEN "up"
                         ELSE seen[i][s[1]]
    BY <1>5 DEF do_handle_received_report, BaseInv, TypeOK
  <2>2. input_state'[s] = Word(i, r, down, chosen, s)
    BY <1>4, <1>6, <1>8
  <2> QED BY <1>4, <1>7, <1>8, <2>1, <2>2, WordOwn
<1>9. CASE j # i
  <2>1. interface_index[j] # interface_index[i]
    BY <1>1, <1>4, <1>9 DEF IndexPerInterface
  <2>2. interface_index[j] \in input_state'[s] <=> interface_index[j] \in input_state[s]
    <3>1. CASE s \in SlotsOf(i, s[1])
      <4>1. s[2] = 0 \/ s[1] \notin Ranged[i][r]
        BY <1>1, <1>3, <3>1 DEF KeepsApart, SlotsOf
      <4> QED BY <1>6, <2>1, <3>1, <4>1, WordOther
    <3>2. CASE s \notin SlotsOf(i, s[1])
      BY <1>6, <3>2
    <3> QED BY <3>1, <3>2
  <2> QED BY <1>4, <1>5, <1>7, <1>9, <2>2
<1> QED BY <1>8, <1>9

\* A step that is not a report keeps the bits of those that have reported.
LEMMA KeptBits ==
  ASSUME BitsFollowReports, UNCHANGED <<usage_state_ptr, input_state>>,
         \A j \in Interfaces, s \in Usages \X AllPorts : Reported(j, s)' =>
            /\ Reported(j, s)
            /\ interface_index'[j] = interface_index[j]
            /\ seen'[j][s[1]] = seen[j][s[1]]
  PROVE  BitsFollowReports'
BY DEF BitsFollowReports, KeepsApart

LEMMA StepBits ==
  BaseInv /\ IndexPerInterface /\ BitsFollowReports /\ [Next]_vars => BitsFollowReports'
<1> SUFFICES ASSUME BaseInv, IndexPerInterface, BitsFollowReports, [Next]_vars
             PROVE  BitsFollowReports'
  OBVIOUS
<1>1. ASSUME UNCHANGED <<interface_index, hub_ports, usage_state_ptr, input_state, seen>>
      PROVE  BitsFollowReports'
  BY <1>1 DEF BitsFollowReports, KeepsApart, Reported, SlotsOf, Known
<1>2. ASSUME NEW i \in Interfaces, NEW r \in ReportIds, HandleReport(i, r)
      PROVE  BitsFollowReports'
  BY <1>2, ReportBits DEF HandleReport
<1>3. ASSUME NEW i \in Interfaces, DeviceConnected(i)
      PROVE  BitsFollowReports'
  <2>1. UNCHANGED <<usage_state_ptr, input_state, seen>>
    BY <1>3 DEF DeviceConnected, state_vars, history
  <2>2. ASSUME NEW j \in Known
        PROVE  /\ interface_index'[j] = interface_index[j]
               /\ hub_ports'[DeviceOf[j]] = hub_ports[DeviceOf[j]]
    <3>1. interface_index'[j] = interface_index[j]
      BY <1>3, <2>2 DEF DeviceConnected, assign_interface_index, BaseInv, TypeOK, Known
    <3>2. DeviceOf[j] \in Devices /\ hub_ports[DeviceOf[j]] = PortOf[DeviceOf[j]]
      BY InputAssumption DEF BaseInv, PortsKnown, Known
    <3>3. hub_ports'[DeviceOf[j]] = hub_ports[DeviceOf[j]]
      BY <1>3, <3>2 DEF DeviceConnected, BaseInv, TypeOK
    <3> QED BY <3>1, <3>3
  <2>3. ASSUME NEW j \in Interfaces, NEW s \in Usages \X AllPorts, Reported(j, s)'
        PROVE  Reported(j, s) /\ interface_index'[j] = interface_index[j]
    <3>1. s[1] \in Usages /\ seen[j][s[1]] # "none"
      BY <2>1, <2>3 DEF Reported
    <3>2. j \in Known
      BY <3>1 DEF BaseInv, OnlyKnown
    <3> QED BY <2>1, <2>2, <2>3, <3>1, <3>2 DEF Reported, SlotsOf
  <2> QED BY <2>1, <2>3, KeptBits
<1>4. ASSUME NEW d \in Devices, device_disconnected_callback(d)
      PROVE  BitsFollowReports'
  <2>1. UNCHANGED <<usage_state_ptr, input_state>>
    BY <1>4 DEF device_disconnected_callback, state_vars
  <2>2. ASSUME NEW j \in Interfaces, NEW s \in Usages \X AllPorts, Reported(j, s)'
        PROVE  /\ Reported(j, s)
               /\ interface_index'[j] = interface_index[j]
               /\ seen'[j][s[1]] = seen[j][s[1]]
    <3>1. DeviceOf[j] # d
      BY <1>4, <2>2 DEF device_disconnected_callback, clear_descriptor_data, Reported, Known
    <3>2. interface_index'[j] = interface_index[j] /\ seen'[j] = seen[j]
      BY <1>4, <3>1 DEF device_disconnected_callback, clear_descriptor_data
    <3>3. hub_ports'[DeviceOf[j]] = hub_ports[DeviceOf[j]]
      BY <1>4, <3>1, InputAssumption DEF device_disconnected_callback, BaseInv, TypeOK
    <3> QED BY <2>1, <2>2, <3>2, <3>3 DEF Reported, SlotsOf, Known
  <2> QED BY <2>1, <2>2, KeptBits
<1>5. ASSUME NEW config \in Configs, set_mapping_from_config(config)
      PROVE  BitsFollowReports'
  BY <1>5 DEF set_mapping_from_config, BitsFollowReports, Reported
<1> QED BY <1>1, <1>2, <1>3, <1>4, <1>5
        DEF Next, vars, device_vars, state_vars, history, HandleRollover,
            ReadNothing, update_their_descriptor_derivates, process_mapping, NoTick,
            NoNewConfig

\* read_input and read_input_range keep in a word what each interface last said of
\* the key, through plugging, re-used indices and new configurations.
THEOREM BitsAreReports == Spec => []BitsFollowReports
<1>1. Init => IndexPerInterface /\ BitsFollowReports
  BY DEF Init, IndexPerInterface, BitsFollowReports, Reported, Known
<1> QED BY <1>1, InitBase, StepBase, StepIndex, StepBits, PTL DEF Spec

-----------------------------------------------------------------------------
(* Motion.                                                                 *)

MotionInv == MotionTakenOnce /\ MotionHasOwner

\* The ports a frame clears depend on derivates, devices and slots only.
LEMMA SamePorts ==
  ASSUME UNCHANGED <<derived, hub_ports, usage_state_ptr>>
  PROVE  relative_usages' = relative_usages
BY DEF relative_usages, AxisPorts, SlotsOf

LEMMA StepMotion == BaseInv /\ MotionInv /\ [Next]_vars => MotionInv'
<1> SUFFICES ASSUME BaseInv, MotionInv, [Next]_vars PROVE MotionInv'
  OBVIOUS
<1>1. ASSUME NEW i \in Interfaces, NEW r \in ReportIds,
             NEW down, NEW chosen, NEW delta \in Int,
             do_handle_received_report(i, r, down, chosen, delta)
      PROVE  MotionInv'
  <2>1. i \in Known /\ i \in derived /\ pc = "read"
    BY <1>1 DEF do_handle_received_report, BaseInv, Fresh
  <2>2. relative_usages' = relative_usages
    BY <1>1, SamePorts DEF do_handle_received_report, device_vars
  <2>3. i \in Relative => AxisPorts(i) \subseteq relative_usages
    BY <2>1 DEF relative_usages
  <2>4. ASSUME NEW p \in AllPorts
        PROVE  IF i \in Relative /\ p \in AxisPorts(i)
               THEN motion'[p] = motion[p] + delta /\ owed'[p] = owed[p] + delta
               ELSE motion'[p] = motion[p] /\ owed'[p] = owed[p]
    BY <1>1, <2>1 DEF do_handle_received_report, Added
  <2>5. MotionTakenOnce'
    BY <1>1, <2>4 DEF do_handle_received_report, MotionInv, MotionTakenOnce
  <2>6. MotionHasOwner'
    BY <1>1, <2>1, <2>2, <2>3, <2>4
       DEF do_handle_received_report, MotionInv, MotionHasOwner
  <2> QED BY <2>5, <2>6 DEF MotionInv
<1>2. ASSUME NEW i \in Interfaces, NEW r \in ReportIds, HandleReport(i, r)
      PROVE  MotionInv'
  <2>1. PICK down \in SUBSET Exact[i][r], chosen \in SUBSET Ranged[i][r],
             delta \in IF i \in Relative THEN Deltas ELSE {0} :
          do_handle_received_report(i, r, down, chosen, delta)
    BY <1>2 DEF HandleReport
  <2>2. delta \in Int
    BY InputAssumption
  <2> QED BY <1>1, <2>1, <2>2
<1>3. ASSUME NEW i \in Interfaces, DeviceConnected(i)
      PROVE  MotionInv'
  BY <1>3 DEF DeviceConnected, StopReading, state_vars, history,
     MotionInv, MotionTakenOnce, MotionHasOwner
<1>4. ASSUME NEW d \in Devices, device_disconnected_callback(d)
      PROVE  MotionInv'
  BY <1>4 DEF device_disconnected_callback, clear_descriptor_data, StopReading, state_vars,
     MotionInv, MotionTakenOnce, MotionHasOwner
<1>5. CASE update_their_descriptor_derivates
  <2>1. UNCHANGED <<motion, owed, hub_ports, usage_state_ptr, interface_index>>
    BY <1>5 DEF update_their_descriptor_derivates, device_vars, state_vars
  <2>2. CASE their_descriptor_updated
    <3>1. derived' = Known
      BY <1>5, <2>2 DEF update_their_descriptor_derivates
    <3>2. relative_usages' = RelativeThen
      BY <2>1, <3>1 DEF relative_usages, RelativeThen, AxisPorts, SlotsOf
    <3>3. spoiled' = spoiled \cup {p \in AllPorts : motion[p] # 0 /\ p \notin RelativeThen}
      BY <1>5, <2>2 DEF update_their_descriptor_derivates
    <3> QED BY <2>1, <3>2, <3>3 DEF MotionInv, MotionTakenOnce, MotionHasOwner
  <2>3. CASE ~their_descriptor_updated
    <3>1. UNCHANGED <<derived, spoiled>>
      BY <1>5, <2>3 DEF update_their_descriptor_derivates
    <3>2. relative_usages' = relative_usages
      BY <2>1, <3>1, SamePorts
    <3> QED BY <2>1, <2>3, <3>1, <3>2 DEF MotionInv, MotionTakenOnce, MotionHasOwner
  <2> QED BY <2>2, <2>3
<1>6. CASE process_mapping
  <2>1. ASSUME NEW p \in AllPorts \ spoiled'
        PROVE  owed'[p] = 0 /\ motion'[p] = 0
    <3>1. p \notin spoiled /\ (motion[p] # 0 => Reads(p))
      BY <1>6, <2>1 DEF process_mapping
    <3>2. motion[p] \in Int /\ owed[p] = motion[p] /\ (motion[p] # 0 => p \in relative_usages)
      BY <1>6, <3>1
         DEF process_mapping, BaseInv, TypeOK, MotionInv, MotionTakenOnce, MotionHasOwner
    <3>3. motion'[p] = IF p \in relative_usages THEN 0 ELSE motion[p]
      BY <1>6 DEF process_mapping
    <3>4. owed'[p] = IF Reads(p) THEN owed[p] - motion[p] ELSE owed[p]
      BY <1>6, <3>1 DEF process_mapping
    <3> QED BY <3>1, <3>2, <3>3, <3>4
  <2> QED BY <2>1 DEF MotionInv, MotionTakenOnce, MotionHasOwner
<1>7. ASSUME NEW config \in Configs, set_mapping_from_config(config)
      PROVE  MotionInv'
  BY <1>7 DEF set_mapping_from_config, MotionInv, MotionTakenOnce, MotionHasOwner
<1>8. ASSUME UNCHANGED <<motion, owed, spoiled, derived, hub_ports, usage_state_ptr>>,
             pc # "derive"
      PROVE  MotionInv'
  BY <1>8, SamePorts DEF MotionInv, MotionTakenOnce, MotionHasOwner
<1>9. CASE UNCHANGED vars
  BY <1>9, SamePorts DEF vars, device_vars, state_vars, history,
     MotionInv, MotionTakenOnce, MotionHasOwner
<1> QED BY <1>2, <1>3, <1>4, <1>5, <1>6, <1>7, <1>8, <1>9
        DEF Next, device_vars, state_vars, history, HandleRollover, ReadNothing, NoTick,
            NoNewConfig

\* What do_handle_received_report adds to an axis, process_mapping takes once, as
\* long as some interface defines the axis and the port of the mapping is in use.
THEOREM MotionOnce == Spec => []MotionTakenOnce
<1>1. Init => MotionInv
  BY DEF Init, MotionInv, MotionTakenOnce, MotionHasOwner
<1>2. MotionInv => MotionTakenOnce
  BY DEF MotionInv
<1> QED BY <1>1, <1>2, InitBase, StepBase, StepMotion, PTL DEF Spec

-----------------------------------------------------------------------------
(* Ports.                                                                  *)

LEMMA StepPorts == BaseInv /\ ActivePortIsPlugged /\ [Next]_vars => ActivePortIsPlugged'
<1> SUFFICES ASSUME BaseInv, ActivePortIsPlugged, [Next]_vars PROVE ActivePortIsPlugged'
  OBVIOUS
<1>1. ASSUME NEW i \in Known, Activate(i), UNCHANGED hub_ports
      PROVE  ActivePortIsPlugged'
  <2>1. DeviceOf[i] \in Devices
    BY InputAssumption DEF Known
  <2> QED BY <1>1, <2>1 DEF Activate, ActivePortIsPlugged
<1>2. ASSUME NEW i \in Interfaces, DeviceConnected(i)
      PROVE  ActivePortIsPlugged'
  <2>1. \A d \in Devices : hub_ports[d] # NoEntry => hub_ports'[d] = hub_ports[d]
    BY <1>2 DEF DeviceConnected, BaseInv, TypeOK, PortsKnown
  <2>2. \A p \in active_ports_mask : p # NoEntry
    BY InputAssumption DEF BaseInv, TypeOK, AllPorts
  <2>3. active_ports_mask' = active_ports_mask
    BY <1>2 DEF DeviceConnected
  <2> QED BY <2>1, <2>2, <2>3 DEF ActivePortIsPlugged
<1>3. ASSUME NEW d \in Devices, device_disconnected_callback(d)
      PROVE  ActivePortIsPlugged'
  <2>1. active_ports_mask' = active_ports_mask \ {hub_ports[d]}
    BY <1>3 DEF device_disconnected_callback, LeavePort
  <2>2. \A e \in Devices \ {d} : hub_ports'[e] = hub_ports[e]
    BY <1>3 DEF device_disconnected_callback, BaseInv, TypeOK
  <2> QED BY <2>1, <2>2 DEF ActivePortIsPlugged
<1>4. ASSUME NEW config \in Configs, set_mapping_from_config(config)
      PROVE  ActivePortIsPlugged'
  BY <1>4 DEF set_mapping_from_config, ActivePortIsPlugged
<1>5. ASSUME UNCHANGED <<active_ports_mask, hub_ports>>
      PROVE  ActivePortIsPlugged'
  BY <1>5 DEF ActivePortIsPlugged
<1> QED BY <1>1, <1>2, <1>3, <1>4, <1>5
        DEF Next, vars, device_vars, HandleReport, do_handle_received_report, HandleRollover,
            ReadNothing, update_their_descriptor_derivates, process_mapping, NoTick, NoNewConfig

\* device_disconnected_callback looks the port up before it forgets it: a mapping
\* of a port is not in force while nothing is plugged in there.
THEOREM PortsArePlugged == Spec => []ActivePortIsPlugged
<1>1. Init => ActivePortIsPlugged
  BY DEF Init, ActivePortIsPlugged
<1> QED BY <1>1, InitBase, StepBase, StepPorts, PTL DEF Spec
=============================================================================
