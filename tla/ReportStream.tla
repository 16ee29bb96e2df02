---------------------------- MODULE ReportStream ----------------------------
(***************************************************************************)
(* What the bridge promises for input reports: each interface has a stream *)
(* of its own from the device to A's handle_received_report.  It is FIFO,  *)
(* the streams do not disturb one another, everything put into a stream    *)
(* comes out, and only unplugging may lose a report: the last one, when B  *)
(* had not yet written it.                                                 *)
(***************************************************************************)
EXTENDS Naturals, Sequences

CONSTANTS Interfaces, ReportNumbers

VARIABLES
  stream,   \* per interface, what was put in and has not come out
  plugged,  \* interfaces that are mounted
  number    \* number of the last report of each mounted interface

svars == <<stream, plugged, number>>

Item(type, n) == [type |-> type, n |-> n]
Put(i, item) == [stream EXCEPT ![i] = Append(@, item)]

SInit ==
  /\ stream = [i \in Interfaces |-> << >>]
  /\ plugged = {}
  /\ number = [i \in Interfaces |-> 0]

Plug(i) ==
  /\ i \notin plugged
  /\ plugged' = plugged \cup {i}
  /\ stream' = Put(i, Item("connected", 0))
  /\ UNCHANGED number

Take(i) ==
  /\ i \in plugged
  /\ number' = [number EXCEPT ![i] = (@ + 1) % ReportNumbers]
  /\ stream' = Put(i, Item("report", number'[i]))
  /\ UNCHANGED plugged

\* The stream's last report, if that is what it ends with, may go with the plug.
Unplug(i) ==
  /\ i \in plugged
  /\ plugged' = plugged \ {i}
  /\ number' = [number EXCEPT ![i] = 0]
  /\ LET s == stream[i]
         keep == {s} \cup IF s # << >> /\ s[Len(s)].type = "report"
                          THEN {SubSeq(s, 1, Len(s) - 1)} ELSE {}
     IN \E k \in keep :
          stream' = [stream EXCEPT ![i] = Append(k, Item("disconnected", 0))]

Give(i) ==
  /\ stream[i] # << >>
  /\ stream' = [stream EXCEPT ![i] = Tail(@)]
  /\ UNCHANGED <<plugged, number>>

SNext == \E i \in Interfaces : Plug(i) \/ Take(i) \/ Unplug(i) \/ Give(i)

SSpec == SInit /\ [][SNext]_svars
SFairSpec == SSpec /\ \A i \in Interfaces : WF_svars(Give(i))
=============================================================================
