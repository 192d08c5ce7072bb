------------------------------ MODULE DcpimQueues ------------------------------
(***************************************************************************)
(* The queue statistics of a dcPIM run: produce_aggr.aggr_q_data's         *)
(* process_load_lvl_dcpim (produce_aggr.py lines 574-596), with            *)
(* dcpim_helper.get_queue_data and group_by_origin and the per-origin sum  *)
(* of process_grouped_data (lines 501-515).                                *)
(*                                                                         *)
(* dcPIM writes one "qs" line per link and sampling period into data.txt,  *)
(* among the flow lines.  Only the "qs" lines are kept here, in period     *)
(* order, and whether the file ends with a line of another kind, since     *)
(* get_queue_data never reads the last line.  A row's timestamp is its     *)
(* period; its value is the queue length.  The trace window computed from  *)
(* the flow lines (get_trace_interval) is chosen in Init; drops are not    *)
(* modelled (the assert at line 587 requires almost none).                 *)
(***************************************************************************)
EXTENDS Naturals, Sequences, SequencesExt

CONSTANTS
  Links,      \* the network's links in the order dcPIM samples them
  Periods,    \* sampling periods in the file
  QLens,      \* queue lengths a sample may show
  TrailerChoices  \* whether data.txt may end with a line other than "qs"

(* A link: source type and id, destination type and id, as spelled in the *)
(* file ("h"/"host", "t"/"tor", "a"/"aggr").                              *)
TypeNames == {"h", "host", "t", "tor", "a", "aggr"}

ASSUME \A k \in DOMAIN Links : Links[k].srcType \in TypeNames /\ Links[k].dstType \in TypeNames

(* node_type_to_int, lines 113-121. *)
NodeTypeToInt(t) ==
  CASE t \in {"h", "host"} -> 0
    [] t \in {"t", "tor"} -> 1
    [] t \in {"a", "aggr"} -> 2

(* int_to_node_type, lines 123-131. *)
IntToNodeType(i) == <<"host", "tor", "aggr">>[i + 1]

Samples == [(DOMAIN Links) \X (1..Periods) -> QLens]

(* The "qs" lines of the file, period by period, link by link. *)
QsLines(q) ==
  FlattenSeq([p \in 1..Periods |->
    [k \in DOMAIN Links |-> [kind |-> "qs", link |-> Links[k], ts |-> p, qlen |-> q[k, p]]]])

(* A flow line or a "##" line, written after the last sample. *)
OtherLine == [kind |-> "flow", link |-> Links[1], ts |-> 0, qlen |-> 0]

(***************************************************************************)
(* get_queue_data, lines 133-161: lines 0 .. len(lines)-2, the "qs" ones, *)
(* with both node types converted to their numbers.                        *)
(***************************************************************************)
GetQueueData(lines) ==
  LET Row(l) == [ts |-> l.ts, srcType |-> NodeTypeToInt(l.link.srcType),
                 dstType |-> NodeTypeToInt(l.link.dstType),
                 src |-> l.link.src, dst |-> l.link.dst, qlen |-> l.qlen]
      read == SelectSeq(SubSeq(lines, 1, Len(lines) - 1), LAMBDA l : l.kind = "qs")
  IN [i \in DOMAIN read |-> Row(read[i])]

(* hlp.trim_by_timestamp, helper.py lines 160-167. *)
TrimByTimestamp(rows, start, stop) ==
  SelectSeq(rows, LAMBDA r : start <= r.ts /\ r.ts <= stop)

(* Mutant: the filter on the destination type (line 187) dropped. *)
RelevantViewAnyDstType(rows, r) ==
  SelectSeq(rows, LAMBDA x : x.srcType = r.srcType /\ x.src = r.src /\ x.dst = r.dst)

(* Lines 186-189: the rows of r's link. *)
RelevantView(rows, r) ==
  SelectSeq(rows, LAMBDA x : x.srcType = r.srcType /\ x.dstType = r.dstType
                             /\ x.src = r.src /\ x.dst = r.dst)

(***************************************************************************)
(* group_by_origin, lines 163-192.  The origin is f"{src_type}_{src}", the *)
(* link f"{origin}_{dst}": the pair (origin, dst).  A link already present *)
(* is skipped.                                                             *)
(***************************************************************************)
GroupByOrigin(rows) ==
  LET Step(d, r) ==
        LET o == <<IntToNodeType(r.srcType), r.src>>
            d1 == IF o \in DOMAIN d THEN d ELSE d @@ (o :> <<>>)
        IN IF \E e \in ToSet(d1[o]) : e.dst = r.dst THEN d1
           ELSE [d1 EXCEPT ![o] = Append(@, [dst |-> r.dst, rows |-> RelevantView(rows, r)])]
  IN FoldLeft(Step, <<>>, rows)

(***************************************************************************)
(* orig_to_sum[origin][:,1] + data[:,1] under numpy broadcasting: equal    *)
(* lengths add row by row, a single row is added to every row; otherwise   *)
(* ValueError (Fail).  The result is assigned back into the sum's rows.    *)
(***************************************************************************)
Fail == <<-1>>
AddColumn(sum, rows) ==
  CASE sum = Fail -> Fail
    [] Len(rows) = Len(sum) -> [i \in DOMAIN sum |-> sum[i] + rows[i].qlen]
    [] Len(rows) = 1 -> [i \in DOMAIN sum |-> sum[i] + rows[1].qlen]
    [] OTHER -> Fail

(* Lines 507-513: per origin, the first link's column plus the others. *)
OriginSum(series) ==
  FoldLeft(LAMBDA s, e : AddColumn(s, e.rows),
           [i \in DOMAIN series[1].rows |-> series[1].rows[i].qlen],
           Tail(series))

VARIABLES
  q,        \* queue length of each link in each period
  trailer,  \* data.txt ends with a line that is not a "qs" line
  window,   \* the trace interval <<trace_start, trace_end>>
  groups,   \* orig_to_data: origin -> its links, in order met
  sums,     \* orig_to_sum: origin -> summed queue column
  pc        \* "load", "done" or "crashed"

vars == <<q, trailer, window, groups, sums, pc>>

Init ==
  /\ q \in Samples
  /\ trailer \in TrailerChoices
  /\ window \in {w \in (1..Periods) \X (1..Periods) : w[1] <= w[2]}
  /\ groups = <<>>
  /\ sums = <<>>
  /\ pc = "load"

(***************************************************************************)
(* process_load_lvl_dcpim: parse, trim to the trace window, group by link  *)
(* and sum per origin; a broadcasting error ends it.                       *)
(***************************************************************************)
ProcessLoadLvlDcpim ==
  LET lines == QsLines(q) \o (IF trailer THEN <<OtherLine>> ELSE <<>>)
      rows == TrimByTimestamp(GetQueueData(lines), window[1], window[2])
      g == GroupByOrigin(rows)
      s == [o \in DOMAIN g |-> OriginSum(g[o])]
  IN
  /\ pc = "load"
  /\ groups' = g
  /\ sums' = s
  /\ pc' = IF \E o \in DOMAIN s : s[o] = Fail THEN "crashed" ELSE "done"
  /\ UNCHANGED <<q, trailer, window>>

Ended ==
  /\ pc \in {"done", "crashed"}
  /\ UNCHANGED vars

Next == ProcessLoadLvlDcpim \/ Ended

Spec == Init /\ [][Next]_vars /\ WF_vars(ProcessLoadLvlDcpim)

-----------------------------------------------------------------------------
(* The samples of link k inside the trace window, in time order; the     *)
(* file's last line, when it is a sample, is never read.                  *)
LinkSeries(k) ==
  LET all == [i \in 1..(window[2] - window[1] + 1) |-> q[k, window[1] + i - 1]]
  IN IF ~trailer /\ k = Len(Links) /\ window[2] = Periods THEN Front(all) ELSE all

Origin(l) == <<IntToNodeType(NodeTypeToInt(l.srcType)), l.src>>

(***************************************************************************)
(* Every series of orig_to_data is one link's queue samples, those of a    *)
(* link from that origin to that destination id, in time order within the *)
(* trace window.                                                           *)
(***************************************************************************)
SeriesAreLinks ==
  pc # "load" =>
    \A o \in DOMAIN groups : \A i \in DOMAIN groups[o] :
      \E k \in DOMAIN Links :
        /\ Origin(Links[k]) = o /\ Links[k].dst = groups[o][i].dst
        /\ LET got == [j \in DOMAIN groups[o][i].rows |-> groups[o][i].rows[j].qlen]
           IN got = LinkSeries(k)

(***************************************************************************)
(* The queue of an origin that process_grouped_data reports is the sum of  *)
(* the queues of all the origin's links ("origin -> link -> data", lines   *)
(* 164-168), sample by sample.                                             *)
(***************************************************************************)
OriginSumCoversLinks ==
  pc = "done" =>
    \A o \in DOMAIN sums : \A i \in DOMAIN sums[o] :
      sums[o][i] = FoldLeft(LAMBDA acc, k : acc + q[k, window[1] + i - 1], 0,
                            SelectSeq([k \in DOMAIN Links |-> k],
                                      LAMBDA k : Origin(Links[k]) = o))

====
