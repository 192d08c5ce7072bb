----------------------------- MODULE DcpimResults -----------------------------
(***************************************************************************)
(* The two post-processing tasks process_results.extract_all_results adds *)
(* for one dcPIM directory (lines 31-33 and 55-58): aggr_app_data, in the  *)
(* "Slowdown Pool", and aggr_q_data, in the "Queuing Pool".  The pool runs *)
(* them as separate processes in either order.  Both read the same         *)
(* data.txt, and both call get_app_data and get_trace_interval on it, so   *)
(* the queue task's trace window and whether its last line is a sample are *)
(* functions of the flow lines the app task reads.                         *)
(***************************************************************************)
EXTENDS DcpimApp, FiniteSets

CONSTANTS
  Links,    \* the network's links in the order dcPIM samples them
  QLens     \* queue lengths a sample may show

VARIABLES
  q,        \* queue length of each link in each period
  qgroups,  \* aggr_q_data's orig_to_data
  qsums,    \* aggr_q_data's orig_to_sum
  qpc       \* "load", "done" or "crashed"

qVars == <<q, qgroups, qsums, qpc>>
vars == <<appVars, qVars>>

(***************************************************************************)
(* produce_aggr.py lines 581-583: the queue rows are trimmed to            *)
(* [trace_start, trace_end] computed from the flow lines; timestamps are  *)
(* whole periods, so the window starts at trace_start rounded up.  With no *)
(* flow row the task never gets that far (it crashes at line 581).        *)
(***************************************************************************)
QueueWindow ==
  LET rows == GetAppData(flows, last)
  IN IF rows = <<>> THEN <<1, 1>> ELSE <<TraceStartCeil(rows, ratio), SimEnd(rows)>>

Q == INSTANCE DcpimQueues WITH
       TrailerChoices <- BOOLEAN,
       trailer <- (last # "qs"),
       window <- QueueWindow,
       groups <- qgroups,
       sums <- qsums,
       pc <- qpc

ResultsInit == Init /\ Q!Init

(* aggr_q_data on the directory: get_app_data raises before grouping when *)
(* the file has no flow row.                                               *)
QueueTask ==
  /\ UNCHANGED appVars
  /\ \/ /\ GetAppData(flows, last) = <<>>
        /\ qpc = "load"
        /\ qpc' = "crashed"
        /\ UNCHANGED <<q, qgroups, qsums>>
     \/ /\ GetAppData(flows, last) # <<>>
        /\ Q!ProcessLoadLvlDcpim

AppTask ==
  /\ AggrAppData
  /\ UNCHANGED qVars

Ended ==
  /\ apc # "run" /\ qpc # "load"
  /\ UNCHANGED vars

ResultsNext == QueueTask \/ AppTask \/ Ended

ResultsSpec == ResultsInit /\ [][ResultsNext]_vars /\ WF_vars(QueueTask) /\ WF_vars(AppTask)

-----------------------------------------------------------------------------
(***************************************************************************)
(* Every series aggr_q_data groups is one link's samples inside the trace *)
(* window get_trace_interval derives from the flow lines.                  *)
(***************************************************************************)
SeriesAreLinks == Q!SeriesAreLinks

Row == appcsv[2]
Rows == GetAppData(flows, last)

(***************************************************************************)
(* app.csv's msgs_initiated and msgs_completed count the flows read that   *)
(* start, respectively finish, inside the trace interval; the byte counts  *)
(* behind the two goodputs are those flows' sizes.                         *)
(***************************************************************************)
AppCountsTrace ==
  apc = "done" =>
    LET Started == {i \in DOMAIN Rows : InTrace(Rows[i].start, Rows, ratio)}
        Finished == {i \in DOMAIN Rows : InTrace(Rows[i].finish, Rows, ratio)}
        Bytes(I) == FoldSet(LAMBDA i, acc : acc + Rows[i].size, 0, I)
    IN /\ Row.initiated = Cardinality(Started)
       /\ Row.completed = Cardinality(Finished)
       /\ Row.sent.bytes = Bytes(Started)
       /\ Row.achieved.bytes = Bytes(Finished)

(***************************************************************************)
(* The row has one statistics entry per header column group, in the       *)
(* header's order; the entry of group (a, b) describes the non-incast     *)
(* flows of size a <= size < b completed in the trace interval, and is -1 *)
(* exactly when there are fewer than MinGroupMsgs of them.                *)
(***************************************************************************)
GroupStatsFaithful ==
  apc = "done" =>
    LET exclude == IF w5 THEN IncastSizeW5 ELSE IncastSize
        M(g) == {i \in DOMAIN Rows : /\ InTrace(Rows[i].finish, Rows, ratio)
                                     /\ Rows[i].size # exclude
                                     /\ g[1] <= Rows[i].size /\ Rows[i].size < g[2]}
    IN /\ DOMAIN Row.groups = DOMAIN appcsv[1]
       /\ \A k \in DOMAIN Row.groups :
            LET g == appcsv[1][k] IN
            /\ Row.groups[k][1] = g
            /\ IF Cardinality(M(g)) < MinGroupMsgs
               THEN Row.groups[k][2] = Skipped
               ELSE /\ Row.groups[k][2] # Skipped
                    /\ BagToSet(Row.groups[k][2]) = {Rows[i].sldn : i \in M(g)}
                    /\ BagCardinality(Row.groups[k][2]) = Cardinality(M(g))

(***************************************************************************)
(* Both goodputs of app.csv divide by sim_end - trace_start (lines         *)
(* 247-248); a row is written only when that interval has positive        *)
(* length.  Nothing checks it: what keeps it from being 0 is that an      *)
(* interval of length 0 holds no completion, so data_rec[0] raises first.  *)
(***************************************************************************)
GoodputDivisorPositive ==
  apc = "done" => Row.sent.span > 0 /\ Row.achieved.span > 0

(***************************************************************************)
(* The trace interval starts num/den of the way from the first injected   *)
(* flow to the last one (the comment at lines 207-214: the load-generating *)
(* phase, cut by the parameter file's ratio).                              *)
(***************************************************************************)
TraceStartsAtRatio ==
  Rows # <<>> =>
    LET first == Min({Rows[i].start : i \in DOMAIN Rows})
    IN \A t \in 1..Periods :
         InTrace(t, Rows, ratio) <=>
           /\ t * ratio[2] >= first * ratio[2] + (SimEnd(Rows) - first) * ratio[1]
           /\ t <= SimEnd(Rows)

====
