------------------------------ MODULE OutQueue ------------------------------
(***************************************************************************)
(* The mapped reports of controller A: how process_mapping (remapper.cc)   *)
(* turns the input state of a frame into reports, queues or aggregates     *)
(* them, and how send_report hands them to the USB endpoints, in the order *)
(* of main.cc's loop.                                                      *)
(*                                                                         *)
(* The mapping is the identity on a few usages.  A report is its array     *)
(* fields (keyboard keys), its one-bit fields (modifiers, mouse buttons)   *)
(* and one signed relative field.  Macros, layers, tap-hold and            *)
(* expressions, which only choose what is pressed, are left out.           *)
(*                                                                         *)
(* A pass of the loop handles at most one report of a device, a frame if a *)
(* tick is due, and one call of send_report.  Passes without a tick are    *)
(* not told apart: reports arrive and are sent at any time, and pc only    *)
(* says that every frame is followed by a call of send_report.  The tool's *)
(* SUSPEND command and a sleeping bus do no more than delay frames, sends  *)
(* and polls, which the model lets happen late in any case.                *)
(***************************************************************************)
EXTENDS Integers, Sequences, FiniteSets, SequencesExt

CONSTANTS
  ReportIds,       \* report_ids, in their order
  RelativeId,      \* the report with the relative field
  MappingOrder,    \* the usages in the order of reverse_mapping
  ArrayUsages,     \* those that live in an array field
  ReportOf,        \* the report of each usage
  InterfaceOf,     \* the USB interface (endpoint) of each report
  ArrayCount,      \* elements of the array field
  OR_BUFSIZE,      \* items of the outgoing queue
  LogicalMaximum,  \* of the relative field; the minimum is its negation
  Idle,            \* an endpoint with nothing to send
  Motions,         \* relative values a report of a device may have
  MaxOwed          \* bound: motion that has not reached the host

Usages == Range(MappingOrder)
Ids == Range(ReportIds)
Endpoints == Range(InterfaceOf)

\* The values of the relative field, and what a report and an item of the queue hold.
Half == LogicalMaximum + 1
Contents == [keys : Seq(ArrayUsages), bits : SUBSET (Usages \ ArrayUsages),
             rel : (0 - Half) .. LogicalMaximum]
Items == [id : Ids, report : Contents]

ASSUME OutQueueAssumption ==
  /\ OR_BUFSIZE \in Nat \ {0}
  /\ LogicalMaximum \in Nat \ {0}  \* one less than a power of two
  /\ ArrayCount \in Nat \ {0}
  /\ MaxOwed \in Nat
  /\ Motions \subseteq (0 - LogicalMaximum) .. LogicalMaximum
  /\ RelativeId \in Ids
  /\ ArrayUsages \subseteq Usages
  /\ ReportOf \in [Usages -> Ids]
  /\ DOMAIN InterfaceOf = Ids
  /\ ReportIds \in Seq(Ids)
  /\ MappingOrder \in Seq(Usages)
  /\ Idle \notin Items

VARIABLES
  pc,               \* "map": the next frame may come, "send": send_report comes first
  pressed,          \* input_state: the usages that are active
  moved,            \* input_state: relative input since the last frame
  reports,          \* the reports being built, blank between two frames
  prev_reports,     \* what was last queued of each report
  outgoing_reports, \* the queue
  endpoint,         \* what each interface's endpoint has to send
  silent,           \* the devices send nothing from now on
  \* history, read by no guard but the bounds of ReadReport
  host,             \* what the host last received of each report's usages
  owed,             \* motion received from devices and not by the host
  overflowed,       \* a frame has met a full queue
  unshown           \* usages a frame found newly active and the host has not seen since

building == <<reports, prev_reports, outgoing_reports, overflowed>>
vars == <<pc, pressed, moved, building, endpoint, silent, host, owed, unshown>>

-----------------------------------------------------------------------------
(* Reports.                                                                *)

Blank == [keys |-> << >>, bits |-> {}, rel |-> 0]

\* put_bits keeps the low bits of a relative value, sign_extend_hid_value
\* reads them back: a field of LogicalMaximum's width wraps.
WrapField(value) == ((value + Half) % (2 * Half)) - Half

\* A pressed usage sets its bit, or takes the first free element of its array,
\* if there is one (there is no RollOver).
PutUsage(report, u) ==
  IF u \notin ArrayUsages
  THEN [report EXCEPT !.bits = @ \cup {u}]
  ELSE IF Len(report.keys) < ArrayCount
       THEN [report EXCEPT !.keys = Append(@, u)]
       ELSE report

\* The report built in a frame: what is active goes into what the report
\* already holds, and the motion is added to its relative field.
Built(id) ==
  LET put(report, u) == IF u \in pressed /\ ReportOf[u] = id THEN PutUsage(report, u) ELSE report
      filled == FoldLeft(put, reports[id], MappingOrder)
  IN  IF id = RelativeId
      THEN [filled EXCEPT !.rel = WrapField(@ + moved)] ELSE filled

Active(report) == Range(report.keys) \cup report.bits
Absolute(report) == [keys |-> report.keys, bits |-> report.bits]
differ_on_absolute(r1, r2) == Absolute(r1) # Absolute(r2)
needs_to_be_sent(report, prev) == report.rel # 0 \/ differ_on_absolute(report, prev)

\* aggregate_relative's test: the sum stays within the field.
\* Mutated: the sum is written whatever it is.
AggregatesAlways(queued, report) == TRUE
Aggregates(queued, report) ==
  queued.rel + report.rel \in (0 - LogicalMaximum) .. LogicalMaximum

aggregate_relative(queued, report) ==
  [queued EXCEPT !.report.rel = WrapField(@ + report.rel)]

-----------------------------------------------------------------------------
(* The end of process_mapping: the reports in turn, until one does not fit. *)
(* From that one on they are left uncleared for the next frame.             *)

\* Mutated: a report that does not fit is cleared like the others.
QueueReportDrops(acc, id) ==
  LET report == acc.built[id]
      queue == acc.queue
  IN  IF needs_to_be_sent(report, acc.prev[id]) /\ Len(queue) < OR_BUFSIZE
      THEN [built |-> [acc.built EXCEPT ![id] = Blank],
            queue |-> Append(queue, [id |-> id, report |-> report]),
            prev |-> [acc.prev EXCEPT ![id] = report],
            overflow |-> acc.overflow]
      ELSE [acc EXCEPT !.built[id] = Blank]

\* Mutated: the last queued report is noted before the room is known.
QueueReportNotesFirst(acc, id) ==
  LET report == acc.built[id]
      queue == acc.queue
      last == queue[Len(queue)]
      noted == [acc EXCEPT !.prev[id] = report]
  IN  CASE acc.overflow -> acc
        [] ~acc.overflow /\ ~needs_to_be_sent(report, acc.prev[id]) ->
             [acc EXCEPT !.built[id] = Blank]
        [] OTHER ->
             IF Len(queue) = OR_BUFSIZE THEN [noted EXCEPT !.overflow = TRUE]
             ELSE [noted EXCEPT !.built[id] = Blank,
                                !.queue = Append(@, [id |-> id, report |-> report])]

QueueReport(acc, id) ==
  LET report == acc.built[id]
      queue == acc.queue
      last == queue[Len(queue)]
      cleared == [acc EXCEPT !.built[id] = Blank]
  IN  IF acc.overflow THEN acc
      ELSE IF ~needs_to_be_sent(report, acc.prev[id]) THEN cleared
      ELSE IF Len(queue) = OR_BUFSIZE THEN [acc EXCEPT !.overflow = TRUE]
      ELSE IF /\ queue # << >>
              /\ last.id = id
              /\ ~differ_on_absolute(last.report, report)
              /\ Aggregates(last.report, report)
           THEN [cleared EXCEPT !.queue[Len(queue)] = aggregate_relative(@, report)]
           ELSE [cleared EXCEPT !.queue = Append(@, [id |-> id, report |-> report]),
                                !.prev[id] = report]

process_mapping ==
  /\ pc = "map"
  /\ \E done \in {FoldLeft(QueueReport,
                    [built |-> [id \in Ids |-> Built(id)], queue |-> outgoing_reports,
                     prev |-> prev_reports, overflow |-> FALSE],
                    ReportIds)} :
       /\ reports' = done.built
       /\ outgoing_reports' = done.queue
       /\ prev_reports' = done.prev
       /\ overflowed' = (overflowed \/ done.overflow)
  /\ unshown' = unshown \cup {u \in pressed : u \notin Active(prev_reports[ReportOf[u]])}
  /\ moved' = 0
  /\ pc' = "send"
  /\ UNCHANGED <<pressed, endpoint, silent, host, owed>>

-----------------------------------------------------------------------------
(* Input and output around it.                                             *)

\* read_report: a report of a device presses or releases a usage, or moves;
\* relative input adds up until the next frame.
ReadReport ==
  /\ ~silent
  /\ UNCHANGED <<pc, building, endpoint, silent, host, unshown>>
  /\ \/ \E u \in Usages :
          /\ pressed' = IF u \in pressed THEN pressed \ {u} ELSE pressed \cup {u}
          /\ UNCHANGED <<moved, owed>>
     \/ \E d \in Motions :
          /\ moved + d \in (0 - LogicalMaximum) .. LogicalMaximum
          /\ owed + d \in (0 - MaxOwed) .. MaxOwed
          /\ moved' = moved + d
          /\ owed' = owed + d
          /\ UNCHANGED pressed

\* send_report, called when some endpoint is ready: the head of the queue goes
\* to the endpoint of its interface, if it is that one that is idle.
CanSend ==
  /\ outgoing_reports # << >>
  /\ endpoint[InterfaceOf[Head(outgoing_reports).id]] = Idle

\* Mutated: a report its endpoint is too busy for is lost.
SendNothingLoses ==
  /\ pc = "send"
  /\ ~CanSend
  /\ pc' = "map"
  /\ outgoing_reports' = IF outgoing_reports = << >> THEN << >> ELSE Tail(outgoing_reports)
  /\ UNCHANGED <<pressed, moved, reports, prev_reports, overflowed, endpoint, silent, host, owed, unshown>>

SendNothing ==
  /\ pc = "send"
  /\ ~CanSend
  /\ pc' = "map"
  /\ UNCHANGED <<pressed, moved, building, endpoint, silent, host, owed, unshown>>

send_report ==
  /\ CanSend
  /\ endpoint' = [endpoint EXCEPT ![InterfaceOf[Head(outgoing_reports).id]] =
                    Head(outgoing_reports)]
  /\ outgoing_reports' = Tail(outgoing_reports)
  /\ pc' = "map"
  /\ UNCHANGED <<pressed, moved, reports, prev_reports, overflowed, silent, host, owed, unshown>>

HostPoll(i) ==
  /\ endpoint[i] # Idle
  /\ endpoint' = [endpoint EXCEPT ![i] = Idle]
  /\ host' = [host EXCEPT ![endpoint[i].id] = Absolute(endpoint[i].report)]
  /\ owed' = owed - endpoint[i].report.rel
  /\ unshown' = unshown \ Active(endpoint[i].report)
  /\ UNCHANGED <<pc, pressed, moved, building, silent>>

FallSilent ==
  /\ ~silent
  /\ silent' = TRUE
  /\ UNCHANGED <<pc, pressed, moved, building, endpoint, host, owed, unshown>>

-----------------------------------------------------------------------------
Init ==
  /\ pc = "map"
  /\ pressed = {}
  /\ moved = 0
  /\ reports = [id \in Ids |-> Blank]
  /\ prev_reports = [id \in Ids |-> Blank]
  /\ outgoing_reports = << >>
  /\ endpoint = [i \in Endpoints |-> Idle]
  /\ silent = FALSE
  /\ host = [id \in Ids |-> Absolute(Blank)]
  /\ owed = 0
  /\ overflowed = FALSE
  /\ unshown = {}

Next ==
  \/ ReadReport
  \/ process_mapping
  \/ send_report
  \/ SendNothing
  \/ \E i \in Endpoints : HostPoll(i)
  \/ FallSilent

Spec == Init /\ [][Next]_vars

\* The main loop runs and ticks keep coming; the host polls every endpoint.
Fairness ==
  /\ WF_vars(process_mapping) /\ WF_vars(send_report \/ SendNothing)
  /\ \A i \in Endpoints : WF_vars(HostPoll(i))

FairSpec == Spec /\ Fairness

-----------------------------------------------------------------------------
(* Properties.                                                             *)

TypeOK ==
  /\ pc \in {"map", "send"}
  /\ pressed \subseteq Usages
  /\ moved \in (0 - LogicalMaximum) .. LogicalMaximum
  /\ reports \in [Ids -> Contents]
  /\ prev_reports \in [Ids -> Contents]
  /\ outgoing_reports \in Seq(Items)
  /\ Len(outgoing_reports) <= OR_BUFSIZE
  /\ endpoint \in [Endpoints -> Items \cup {Idle}]
  /\ silent \in BOOLEAN
  /\ host \in [Ids -> [keys : Seq(ArrayUsages), bits : SUBSET (Usages \ ArrayUsages)]]
  /\ owed \in Int
  /\ overflowed \in BOOLEAN
  /\ unshown \subseteq Usages

\* What the host will show of a report once all that is in flight has arrived: the last one
\* queued, else the one its endpoint is sending, else what the host has.
NewestInFlight(id) ==
  LET queued == {p \in 1 .. Len(outgoing_reports) : outgoing_reports[p].id = id}
      busy == endpoint[InterfaceOf[id]]
  IN  IF queued # {} THEN Absolute(outgoing_reports[Max(queued)].report)
      ELSE IF busy # Idle /\ busy.id = id THEN Absolute(busy.report)
      ELSE host[id]

\* needs_to_be_sent compares with prev_reports, not with the host: they agree
\* once everything in flight has arrived, through aggregation, overflow and busy
\* endpoints, so that no change is taken for sent.
PrevIsNewestInFlight == \A id \in Ids : Absolute(prev_reports[id]) = NewestInFlight(id)

\* The comparison in needs_to_be_sent and the types it rests on.
OutQueueInv == TypeOK /\ PrevIsNewestInFlight

\* The motion between the devices and the host: read, built, queued, being sent.
Motion(item) == IF item.id = RelativeId THEN item.report.rel ELSE 0
Queued(items) == FoldLeft(LAMBDA sum, item : sum + Motion(item), 0, items)
Sending(item) == IF item = Idle THEN 0 ELSE Motion(item)
OnTheWay == moved + reports[RelativeId].rel + Queued(outgoing_reports)
              + Sending(endpoint[InterfaceOf[RelativeId]])

\* No motion is lost, duplicated or invented: what the host is still owed is
\* what the stages between hold; exactly, as long as no frame has met a full
\* queue, and in the low bits of the field after that.
MotionConserved ==
  /\ (owed - OnTheWay) % (2 * Half) = 0
  /\ ~overflowed => owed = OnTheWay

\* "Do not let a delayed run of signed relative reports wrap around inside one
\* HID field" (aggregate_relative): the motion in flight keeps its sign and
\* size, also when the queue is full.
NoWrapInField == owed = OnTheWay

HostShows(u) == u \in Active(host[ReportOf[u]])

\* Once the devices fall silent the host ends up with exactly the input state,
\* and with all the motion: no key stays stuck or dead, nothing stays behind
\* after a full queue, an aggregation or a busy endpoint.
HostSettles ==
  silent ~> [](OnTheWay = 0 /\ \A u \in Usages : u \in pressed <=> HostShows(u))

\* A press that a frame has found is shown to the host sooner or later, even if
\* the frame met a full queue and the key was released before the next one.
PressIsShown == \A u \in Usages : (silent /\ u \in unshown) ~> u \notin unshown
=============================================================================
