---------------------------- MODULE NumLockFilter ----------------------------
(***************************************************************************)
(* The NumLock synchronization filter of controller A (remapper.cc, built  *)
(* with WBT2_BOOT_INTERFACES).  A keyboard receiver wraps each keypad key  *)
(* in two NumLock taps; the filter takes NumLock out of every report,      *)
(* recognises complete wrappers and drops their taps, and re-emits all     *)
(* other NumLock edges one per mapping frame.                              *)
(*                                                                         *)
(* A report only says whether NumLock and some keypad key are down.  Time  *)
(* is counted in units of which NUM_LOCK_SYNC_EDGE make 20 ms; a deadline  *)
(* is the time left.  The input state of the NumLock usage is the set of   *)
(* interfaces whose bit is set, the same for port 0, the hub port, raw and *)
(* scaled.                                                                 *)
(***************************************************************************)
EXTENDS Naturals, Sequences

CONSTANTS
  Interfaces,          \* those whose reports may define NumLock or keypad usages
  ReportIds,           \* the reports of an interface that define either
  DefinesNumLock,      \* those that define the NumLock usage
  DefinesKeypad,       \* those that define keypad usages
  DeviceOf,            \* the device of an interface
  NoFilter,            \* an interface without an entry in num_lock_sync_filters
  NUM_LOCK_SYNC_EDGE,  \* 20 ms
  Burst                \* bound: reports of an interface A may handle in one frame

ASSUME FilterAssumption ==
  /\ DefinesNumLock \cup DefinesKeypad = ReportIds
  /\ NUM_LOCK_SYNC_EDGE \in Nat \ {0}
  /\ Burst \in Nat \ {0}

VARIABLES
  filters,       \* num_lock_sync_filters
  input_state,   \* the interfaces whose bit of the NumLock usage is set
  silent,        \* the devices send nothing from now on
  \* environment and history
  burst,         \* reports handled and not yet covered by a frame's millisecond
  odd,           \* NumLock presses seen and not re-emitted: is their number odd?
  swallowed      \* interfaces with a press no stage has a transition for

history == <<burst, odd, swallowed>>
vars == <<filters, input_state, silent, history>>

-----------------------------------------------------------------------------
(* One filter.                                                             *)

Stages == {"IDLE", "FIRST_DOWN", "WAIT_KEYPAD", "KEYPAD_ACTIVE",
           "WAIT_TRAILING_DOWN", "TRAILING_DOWN", "PASSTHROUGH_DOWN"}

NoDeadline == NUM_LOCK_SYNC_EDGE + 1

FilterType ==
  [stage : Stages,
   num_lock_by_report : [ReportIds -> BOOLEAN],
   keypad_by_report : [ReportIds -> BOOLEAN],
   pending_output_states : Seq(BOOLEAN),
   previous_num_lock : BOOLEAN,
   previous_keypad : BOOLEAN,
   output_num_lock : BOOLEAN,
   inferred_num_lock : {"unknown", "on", "off"},
   deadline : 0 .. NoDeadline]

\* The absence of an entry is not an entry.
ASSUME NoFilterAssumption == NoFilter \notin FilterType

NewFilter ==
  [stage |-> "IDLE",
   num_lock_by_report |-> [r \in ReportIds |-> FALSE],
   keypad_by_report |-> [r \in ReportIds |-> FALSE],
   pending_output_states |-> << >>,
   previous_num_lock |-> FALSE,
   previous_keypad |-> FALSE,
   output_num_lock |-> FALSE,
   inferred_num_lock |-> "unknown",
   deadline |-> NoDeadline]

\* What NumLock will be once everything pending is out.
LastState(f) ==
  IF f.pending_output_states = << >> THEN f.output_num_lock
  ELSE f.pending_output_states[Len(f.pending_output_states)]

queue_num_lock_state(f, state) ==
  IF LastState(f) = state THEN f
  ELSE [f EXCEPT !.pending_output_states = Append(@, state)]

replay_first_num_lock_tap(f) ==
  queue_num_lock_state(queue_num_lock_state(f, TRUE), FALSE)

toggle_inferred_num_lock_state(f) ==
  [f EXCEPT !.inferred_num_lock = IF @ = "on" THEN "off" ELSE "on"]

Enter(f, stage, deadline) == [f EXCEPT !.stage = stage, !.deadline = deadline]
PassDown(f) ==
  Enter(queue_num_lock_state(f, TRUE), "PASSTHROUGH_DOWN", NoDeadline)
ReplayAndPassDown(f) == PassDown(replay_first_num_lock_tap(f))

\* Mutated: the withheld tap is forgotten when the wrapper does not complete.
TimeoutForgetsTap(f) ==
  IF f.deadline # 0 THEN f
  ELSE CASE f.stage = "FIRST_DOWN" -> PassDown(f)
         [] f.stage \in {"WAIT_KEYPAD", "WAIT_TRAILING_DOWN"} -> Enter(f, "IDLE", NoDeadline)
         [] f.stage = "TRAILING_DOWN" -> ReplayAndPassDown(f)
         [] OTHER -> [f EXCEPT !.deadline = NoDeadline]

advance_num_lock_sync_timeout(f) ==
  IF f.deadline # 0 THEN f
  ELSE CASE f.stage = "FIRST_DOWN" -> PassDown(f)
         [] f.stage \in {"WAIT_KEYPAD", "WAIT_TRAILING_DOWN"} ->
              Enter(toggle_inferred_num_lock_state(replay_first_num_lock_tap(f)),
                    "IDLE", NoDeadline)
         [] f.stage = "TRAILING_DOWN" -> ReplayAndPassDown(f)
         [] OTHER -> [f EXCEPT !.deadline = NoDeadline]

\* The automaton, given the edges of the aggregate NumLock and keypad states.
Observed(f, numDown, numUp, keyDown, keyUp, keypad) ==
  CASE f.stage = "IDLE" /\ numDown -> Enter(f, "FIRST_DOWN", NUM_LOCK_SYNC_EDGE)
    [] f.stage = "IDLE" /\ ~numDown /\ keyDown -> [f EXCEPT !.inferred_num_lock = "off"]
    [] f.stage = "FIRST_DOWN" /\ numUp /\ keypad -> Enter(f, "KEYPAD_ACTIVE", NoDeadline)
    [] f.stage = "FIRST_DOWN" /\ numUp /\ ~keypad ->
         Enter(f, "WAIT_KEYPAD", NUM_LOCK_SYNC_EDGE)
    [] f.stage = "FIRST_DOWN" /\ ~numUp /\ keyDown -> PassDown(f)
    [] f.stage = "WAIT_KEYPAD" /\ keyDown -> Enter(f, "KEYPAD_ACTIVE", NoDeadline)
    [] f.stage = "WAIT_KEYPAD" /\ ~keyDown /\ numDown -> ReplayAndPassDown(f)
    [] f.stage = "KEYPAD_ACTIVE" /\ numDown -> ReplayAndPassDown(f)
    [] f.stage = "KEYPAD_ACTIVE" /\ ~numDown /\ keyUp ->
         Enter(f, "WAIT_TRAILING_DOWN", NUM_LOCK_SYNC_EDGE)
    [] f.stage = "WAIT_TRAILING_DOWN" /\ numDown ->
         Enter(f, "TRAILING_DOWN", NUM_LOCK_SYNC_EDGE)
    [] f.stage = "WAIT_TRAILING_DOWN" /\ ~numDown /\ keyDown ->
         Enter(f, "KEYPAD_ACTIVE", NoDeadline)
    [] f.stage = "TRAILING_DOWN" /\ numUp ->
         Enter([f EXCEPT !.inferred_num_lock = "on"], "IDLE", NoDeadline)
    [] f.stage = "PASSTHROUGH_DOWN" /\ numUp ->
         Enter(queue_num_lock_state(f, FALSE), "IDLE", f.deadline)
    [] OTHER -> f

observe_num_lock_sync_state(f, num_lock, keypad) ==
  LET now == advance_num_lock_sync_timeout(f)
      done == Observed(now,
                       num_lock /\ ~f.previous_num_lock, ~num_lock /\ f.previous_num_lock,
                       keypad /\ ~f.previous_keypad, ~keypad /\ f.previous_keypad, keypad)
  IN  [done EXCEPT !.previous_num_lock = num_lock, !.previous_keypad = keypad]

\* A frame lets one pending state out.
\* Mutated: nothing goes out while a press is being passed through.
PoppedBetweenPresses(f) ==
  IF f.pending_output_states = << >> \/ f.stage = "PASSTHROUGH_DOWN" THEN f
  ELSE [f EXCEPT !.output_num_lock = Head(f.pending_output_states),
                 !.pending_output_states = Tail(@)]

Popped(f) ==
  IF f.pending_output_states = << >> THEN f
  ELSE [f EXCEPT !.output_num_lock = Head(f.pending_output_states),
                 !.pending_output_states = Tail(@)]

-----------------------------------------------------------------------------
(* The operations.                                                         *)

FilterOf(i) == IF filters[i] = NoFilter THEN NewFilter ELSE filters[i]

\* A report updates its own contribution to the aggregate states.
Noted(f, r, num_lock, keypad) ==
  [f EXCEPT !.num_lock_by_report = IF r \in DefinesNumLock
                                   THEN [@ EXCEPT ![r] = num_lock] ELSE @,
            !.keypad_by_report = IF r \in DefinesKeypad
                                 THEN [@ EXCEPT ![r] = keypad] ELSE @]

AnyNumLock(f) == \E r \in ReportIds : f.num_lock_by_report[r]
AnyKeypad(f) == \E r \in ReportIds : f.keypad_by_report[r]

\* WAIT_KEYPAD looks for the keypad first: a NumLock press in the same report
\* is seen by no stage, neither then nor later.
NumLockDown(f) == AnyNumLock(f) /\ ~f.previous_num_lock
Swallows(f) ==
  /\ advance_num_lock_sync_timeout(f).stage = "WAIT_KEYPAD"
  /\ NumLockDown(f)
  /\ AnyKeypad(f) /\ ~f.previous_keypad

filter_num_lock_sync_report(i, r, num_lock, keypad) ==
  /\ ~silent
  /\ burst[i] < Burst
  /\ LET f == Noted(FilterOf(i), r, num_lock, keypad) IN
     /\ filters' = [filters EXCEPT ![i] =
                      observe_num_lock_sync_state(f, AnyNumLock(f), AnyKeypad(f))]
     /\ odd' = [odd EXCEPT ![i] = @ # NumLockDown(f)]
     /\ swallowed' = swallowed \cup {j \in {i} : Swallows(f)}
  /\ burst' = [burst EXCEPT ![i] = @ + 1]
  /\ UNCHANGED <<input_state, silent>>

Filtered == {i \in Interfaces : filters[i] # NoFilter}

\* Mutated: deadlines are only looked at when a report arrives.
AfterNoTimeout(i) == Popped(filters[i])
After(i) == Popped(advance_num_lock_sync_timeout(filters[i]))

\* Mutated: the bit is chosen by the device, not by the interface.
ApplyByDevice ==
  /\ filters' = [i \in Interfaces |-> IF i \in Filtered THEN After(i) ELSE NoFilter]
  /\ input_state' = {DeviceOf[i] : i \in {j \in Filtered : After(j).output_num_lock}}
  /\ odd' = [i \in Interfaces |->
               IF i \in Filtered /\ After(i).output_num_lock /\ ~filters[i].output_num_lock
               THEN ~odd[i] ELSE odd[i]]
  /\ burst' = [i \in Interfaces |-> IF burst[i] = 0 THEN 0 ELSE burst[i] - 1]
  /\ UNCHANGED <<silent, swallowed>>

apply_filtered_num_lock_states ==
  /\ filters' = [i \in Interfaces |-> IF i \in Filtered THEN After(i) ELSE NoFilter]
  /\ input_state' = (input_state \ Filtered) \cup {i \in Filtered : After(i).output_num_lock}
  /\ odd' = [i \in Interfaces |->
               IF i \in Filtered /\ After(i).output_num_lock /\ ~filters[i].output_num_lock
               THEN ~odd[i] ELSE odd[i]]
  /\ burst' = [i \in Interfaces |-> IF burst[i] = 0 THEN 0 ELSE burst[i] - 1]
  /\ UNCHANGED <<silent, swallowed>>

\* A device goes: its filters and their bits go with it.
\* Mutated: the bits stay.
RemoveKeepsBits(dev_addr) ==
  LET gone == {i \in Interfaces : DeviceOf[i] = dev_addr} IN
  /\ filters' = [i \in Interfaces |-> IF i \in gone THEN NoFilter ELSE filters[i]]
  /\ odd' = [i \in Interfaces |-> i \notin gone /\ odd[i]]
  /\ swallowed' = swallowed \ gone
  /\ UNCHANGED <<input_state, silent, burst>>

remove_num_lock_sync_filters(dev_addr) ==
  LET gone == {i \in Interfaces : DeviceOf[i] = dev_addr} IN
  /\ input_state' = input_state \ (gone \cap Filtered)
  /\ filters' = [i \in Interfaces |-> IF i \in gone THEN NoFilter ELSE filters[i]]
  /\ odd' = [i \in Interfaces |-> i \notin gone /\ odd[i]]
  /\ swallowed' = swallowed \ gone
  /\ UNCHANGED <<silent, burst>>

\* A new configuration zeroes the input state.
set_mapping_from_config ==
  /\ input_state' = {}
  /\ UNCHANGED <<filters, silent, history>>

Passed(f) ==
  [f EXCEPT !.deadline = IF @ \in 1 .. NUM_LOCK_SYNC_EDGE THEN @ - 1 ELSE @]

TimePasses ==
  /\ filters' = [i \in Interfaces |-> IF i \in Filtered THEN Passed(filters[i]) ELSE NoFilter]
  /\ UNCHANGED <<input_state, silent, history>>

FallSilent ==
  /\ ~silent
  /\ silent' = TRUE
  /\ UNCHANGED <<filters, input_state, history>>

-----------------------------------------------------------------------------
Init ==
  /\ filters = [i \in Interfaces |-> NoFilter]
  /\ input_state = {}
  /\ silent = FALSE
  /\ burst = [i \in Interfaces |-> 0]
  /\ odd = [i \in Interfaces |-> FALSE]
  /\ swallowed = {}

Next ==
  \/ \E i \in Interfaces, r \in ReportIds, num_lock, keypad \in BOOLEAN :
       filter_num_lock_sync_report(i, r, num_lock, keypad)
  \/ apply_filtered_num_lock_states
  \/ \E i \in Interfaces : remove_num_lock_sync_filters(DeviceOf[i])
  \/ set_mapping_from_config
  \/ TimePasses
  \/ FallSilent

Spec == Init /\ [][Next]_vars

\* Frames keep coming (A is not suspended) and time does not stop.
Fairness == WF_vars(apply_filtered_num_lock_states) /\ WF_vars(TimePasses)
FairSpec == Spec /\ Fairness

-----------------------------------------------------------------------------
(* Properties.                                                             *)

TypeOK ==
  /\ filters \in [Interfaces -> FilterType \cup {NoFilter}]
  /\ input_state \subseteq Interfaces
  /\ silent \in BOOLEAN
  /\ burst \in [Interfaces -> 0 .. Burst]
  /\ odd \in [Interfaces -> BOOLEAN]
  /\ swallowed \subseteq Interfaces

\* NumLock presses a stage keeps back.
Withheld(stage) ==
  CASE stage \in {"FIRST_DOWN", "WAIT_KEYPAD", "KEYPAD_ACTIVE", "WAIT_TRAILING_DOWN"} -> 1
    [] stage = "TRAILING_DOWN" -> 2
    [] OTHER -> 0

\* Presses among the pending states, which alternate.
PendingPresses(f) ==
  (Len(f.pending_output_states) + (IF f.output_num_lock THEN 0 ELSE 1)) \div 2

\* NumLock toggles the PC, so presses may only be dropped in pairs: whatever the
\* timing of the edges, the PC's lock state is what the presses seen so far make
\* it, up to those that are pending or withheld.  Only a press that a report
\* brings together with the keypad press WAIT_KEYPAD waits for is lost.
TogglesConserved ==
  \A i \in Filtered \ swallowed :
    odd[i] <=> (Withheld(filters[i].stage) + PendingPresses(filters[i])) % 2 = 1

\* NumLock is never left down towards the PC: a bit in the input state belongs
\* to an interface that is still there, and while the key is up it is either
\* not set or its release is on the way.
NoStuckNumLock ==
  /\ \A i \in input_state :
       filters[i] # NoFilter /\ filters[i].output_num_lock
  /\ \A i \in Filtered :
       LastState(filters[i]) => filters[i].previous_num_lock

\* The queue of pending states stays short however long NumLock is hammered: it
\* is behind by no more than one state per report of the current burst, and the
\* three states of a replayed tap with the press that follows it.
BacklogBounded ==
  \A i \in Filtered : Len(filters[i].pending_output_states) <= 3 + burst[i]

\* Once the devices are silent every press but one that a keypad key holds back
\* has been delivered, and the PC sees NumLock as it is, up or down.
SettlesToKey ==
  silent ~> [](\A i \in Filtered \ swallowed :
                 /\ filters[i].pending_output_states = << >>
                 /\ filters[i].stage \in {"IDLE", "PASSTHROUGH_DOWN", "KEYPAD_ACTIVE"}
                 /\ filters[i].output_num_lock = filters[i].previous_num_lock)

\* "A NumLock held for more than 20 ms is forwarded as an ordinary press, and its
\* UP at the physical release" (docs/hid-report-compatibility.md:65).
HeldIsForwarded ==
  silent ~> [](\A i \in Filtered :
                 filters[i].previous_num_lock => filters[i].output_num_lock)
=============================================================================
