------------------------------ MODULE OmnetQueues ------------------------------
(***************************************************************************)
(* The queue statistics of an OMNeT++ run: produce_aggr.aggr_q_data's      *)
(* process_load_lvl_omnet (produce_aggr.py lines 610-633), with            *)
(* omnet_helper.get_qlen_and_throughput_single_origin and                  *)
(* get_dst_and_dst_area_omnet, then process_grouped_data and               *)
(* report_per_link_data (lines 474-537).                                   *)
(*                                                                         *)
(* The extracted CSVs hold two columns per interface, in the header's      *)
(* order; get_header_info reads each interface's name (agg[i].eth[j],      *)
(* spine[i].eth[j], server[i].eth[j]) and the numSpines, numAggs and       *)
(* numServers of the run.  Every vector is sampled at the same times, all  *)
(* inside [0, sim_dur] once shifted by 10 s, so every view has Periods     *)
(* rows.  An interface is idle when the throughput calc_thrpt derives from *)
(* its departed bytes sums to (almost) 0.  A series keeps its queue        *)
(* lengths; percentiles, histograms and their rounding are functions of it *)
(* and stand for themselves.                                               *)
(*                                                                         *)
(* The same data feeds produce_aggr_ts.aggr_q_data_ts's                    *)
(* process_load_lvl_omnet (lines 188-211), which writes one qts file per   *)
(* active interface; its throughput column is a function of the byte       *)
(* data and stands for itself.                                             *)
(***************************************************************************)
EXTENDS Naturals, Sequences, SequencesExt, FiniteSets

CONSTANTS
  NumAggr,      \* numSpines in the header
  NumTor,       \* numAggs in the header
  HostsPerTor,  \* numServers in the header: servers per agg switch
  Ifaces,       \* the header's interfaces in column order: [kind, index, eth]
  Periods,      \* rows of each vector
  QLens         \* queue lengths a sample may show

Kinds == {"agg", "spine", "server"}

ASSUME \A k \in DOMAIN Ifaces : Ifaces[k].kind \in Kinds /\ Periods >= 2

(* omnet_to_ns2_area, line 23. *)
OmnetToNs2Area == "agg" :> "tor" @@ "spine" :> "aggr" @@ "server" :> "host"

(* The assert of get_dst_and_dst_area_omnet failing. *)
Fail == [dst |-> 0, area |-> "none"]

(* Mutant: an aggr's port checked against numSpines, as the assert's       *)
(* message reads.                                                          *)
GetDstAndDstAreaOmnetNumAggr(origin, area, id) ==
  CASE area = "tor" /\ id < HostsPerTor + NumAggr ->
         IF id < HostsPerTor THEN [dst |-> origin * HostsPerTor + id, area |-> "host"]
         ELSE [dst |-> id, area |-> "aggr"]
    [] area = "aggr" /\ id < NumAggr -> [dst |-> id, area |-> "tor"]
    [] area = "host" -> [dst |-> id \div HostsPerTor, area |-> "tor"]
    [] OTHER -> Fail

(* Mutant: a tor's host port numbered by the port alone. *)
GetDstAndDstAreaOmnetPhysical(origin, area, id) ==
  CASE area = "tor" /\ id < HostsPerTor + NumAggr ->
         IF id < HostsPerTor THEN [dst |-> id, area |-> "host"]
         ELSE [dst |-> id, area |-> "aggr"]
    [] area = "aggr" /\ id < NumTor -> [dst |-> id, area |-> "tor"]
    [] area = "host" -> [dst |-> id \div HostsPerTor, area |-> "tor"]
    [] OTHER -> Fail

(***************************************************************************)
(* get_dst_and_dst_area_omnet, omnet_helper.py lines 176-202: a tor's      *)
(* ports below numServers lead to its hosts, numbered across the network;  *)
(* the port number itself is the destination of the other ports and of an  *)
(* aggr's ports; a host's destination is its port over numServers.         *)
(***************************************************************************)
GetDstAndDstAreaOmnet(origin, area, id) ==
  CASE area = "tor" /\ id < HostsPerTor + NumAggr ->
         IF id < HostsPerTor THEN [dst |-> origin * HostsPerTor + id, area |-> "host"]
         ELSE [dst |-> id, area |-> "aggr"]
    [] area = "aggr" /\ id < NumTor -> [dst |-> id, area |-> "tor"]
    [] area = "host" -> [dst |-> id \div HostsPerTor, area |-> "tor"]
    [] OTHER -> Fail

(* Lines 104-105: the origin, f"{origin_area}_{origin}" at line 625.       *)
Origin(k) == <<OmnetToNs2Area[Ifaces[k].kind], Ifaces[k].index>>

End(k) == GetDstAndDstAreaOmnet(Ifaces[k].index, OmnetToNs2Area[Ifaces[k].kind], Ifaces[k].eth)

(* Mutant: the queue view cut at its end instead of its start.             *)
QingLast(q, k) == [i \in 1..(Periods - 1) |-> q[k, i]]

(***************************************************************************)
(* Line 110: qing = q_data_view[1:,:], which lines up with the Periods - 1 *)
(* throughput rows calc_thrpt derives (qmon_hlp.py lines 53-62).           *)
(***************************************************************************)
Qing(q, k) == [i \in 1..(Periods - 1) |-> q[k, i + 1]]

(***************************************************************************)
(* Lines 619-631: every active interface, in header order, is stored at    *)
(* orig_to_data[areaorig][f"{areaorig}_{end}"]; a key already present      *)
(* keeps its place and takes the new series.                               *)
(***************************************************************************)
GroupIfaces(q, ks) ==
  LET Step(d, k) ==
        LET o == Origin(k)  e == End(k).dst
            d1 == IF o \in DOMAIN d THEN d ELSE d @@ (o :> <<>>)
            at == SelectInSeq(d1[o], LAMBDA x : x.end = e)
        IN [d1 EXCEPT ![o] = IF at = 0 THEN Append(@, [end |-> e, rows |-> Qing(q, k)])
                              ELSE [@ EXCEPT ![at].rows = Qing(q, k)]]
  IN FoldLeft(Step, <<>>, ks)

(***************************************************************************)
(* process_grouped_data, lines 507-513: per origin, the first link's       *)
(* column plus the others' (all of length Periods - 1).                    *)
(***************************************************************************)
OriginSum(series) ==
  FoldLeft(LAMBDA s, l : [i \in DOMAIN s |-> s[i] + l.rows[i]], series[1].rows, Tail(series))

(* The origins of orig_to_data in the order a dict keeps them.             *)
OriginOrder(ks) ==
  FoldLeft(LAMBDA s, k : IF Origin(k) \in ToSet(s) THEN s ELSE Append(s, Origin(k)), <<>>, ks)

(***************************************************************************)
(* report_per_link_data, lines 479-497: one q_link.csv row per link, in    *)
(* dict order, and a histogram row for each link of a switch origin.       *)
(***************************************************************************)
LinkRows(g, origins) ==
  FlattenSeq([i \in DOMAIN origins |->
    [j \in DOMAIN g[origins[i]] |->
       [origin |-> origins[i], end |-> g[origins[i]][j].end,
        rows |-> g[origins[i]][j].rows, hist |-> origins[i][1] # "host"]]])

(* Mutant: the file named without the end's area. *)
QtsKeyNoEndArea(k) == <<Origin(k)[1], Origin(k)[2], End(k).dst>>

(***************************************************************************)
(* write_qts_data, lines 129-134: qts_{origin_area}_{origin}_{end_area}_   *)
(* {end}.csv in the directory of origin_area.                              *)
(***************************************************************************)
QtsKey(k) == <<Origin(k)[1], Origin(k)[2], End(k).area, End(k).dst>>

VARIABLES
  q,        \* queue length sampled on each interface in each period
  active,   \* the interfaces whose throughput is not (almost) 0
  groups,   \* orig_to_data: origin -> its links, in order met
  sums,     \* orig_to_sum: origin -> summed queue column (q.csv, qhist)
  qlink,    \* the rows of q_link.csv
  pc,       \* "load", "done" or "crashed"
  qts,      \* qts file name -> the queue series written to it
  tpc       \* the qts task: "load", "done" or "crashed"

vars == <<q, active, groups, sums, qlink, pc, qts, tpc>>

Init ==
  /\ q \in [(DOMAIN Ifaces) \X (1..Periods) -> QLens]
  /\ active \in SUBSET DOMAIN Ifaces
  /\ groups = <<>>
  /\ sums = <<>>
  /\ qlink = <<>>
  /\ pc = "load"
  /\ qts = <<>>
  /\ tpc = "load"

(***************************************************************************)
(* process_load_lvl_omnet: the assert of get_dst_and_dst_area_omnet ends   *)
(* the task before anything is written; otherwise orig_to_data is grouped, *)
(* summed and reported.                                                    *)
(***************************************************************************)
ProcessLoadLvlOmnet ==
  LET ks == SelectSeq([i \in DOMAIN Ifaces |-> i], LAMBDA k : k \in active)
      g == GroupIfaces(q, ks)
      origins == OriginOrder(ks)
  IN
  /\ pc = "load"
  /\ IF \E k \in active : End(k).area = Fail.area
     THEN /\ pc' = "crashed"
          /\ UNCHANGED <<groups, sums, qlink>>
     ELSE /\ groups' = g
          /\ sums' = [o \in DOMAIN g |-> OriginSum(g[o])]
          /\ qlink' = LinkRows(g, origins)
          /\ pc' = "done"
  /\ UNCHANGED <<q, active, qts, tpc>>

(***************************************************************************)
(* aggr_q_data_ts's process_load_lvl_omnet, lines 188-211: for each        *)
(* interface in header order, an idle one is skipped; the assert of        *)
(* get_dst_and_dst_area_omnet ends the task, the files already written     *)
(* staying; otherwise its file is written (an existing one overwritten).   *)
(***************************************************************************)
AggrQDataTsOmnet ==
  LET ks == SelectSeq([i \in DOMAIN Ifaces |-> i], LAMBDA k : k \in active)
      bad == SelectInSeq(ks, LAMBDA k : End(k).area = Fail.area)
      written == IF bad = 0 THEN ks ELSE SubSeq(ks, 1, bad - 1)
  IN
  /\ tpc = "load"
  /\ qts' = FoldLeft(LAMBDA f, k : (QtsKey(k) :> Qing(q, k)) @@ f, qts, written)
  /\ tpc' = IF bad = 0 THEN "done" ELSE "crashed"
  /\ UNCHANGED <<q, active, groups, sums, qlink, pc>>

Ended ==
  /\ pc \in {"done", "crashed"}
  /\ tpc \in {"done", "crashed"}
  /\ UNCHANGED vars

Next == ProcessLoadLvlOmnet \/ AggrQDataTsOmnet \/ Ended

Spec == Init /\ [][Next]_vars /\ WF_vars(ProcessLoadLvlOmnet) /\ WF_vars(AggrQDataTsOmnet)

-----------------------------------------------------------------------------
(***************************************************************************)
(* The node behind each port, as MAC_Table_Data/generate.py lays out the   *)
(* network: agg a's ports below numServers lead to servers a * numServers  *)
(* + port, its other ports to the spines in order; spine s's port a leads  *)
(* to agg a; a server's one port to its agg.                               *)
(***************************************************************************)
Neighbour(k) ==
  LET i == Ifaces[k]  IN
  CASE i.kind = "agg" /\ i.eth < HostsPerTor -> <<"host", i.index * HostsPerTor + i.eth>>
    [] i.kind = "agg" -> <<"aggr", i.eth - HostsPerTor>>
    [] i.kind = "spine" -> <<"tor", i.eth>>
    [] i.kind = "server" -> <<"tor", i.index \div HostsPerTor>>

(* The interfaces such a network has. *)
TopologyIfaces ==
  \A k \in DOMAIN Ifaces :
    CASE Ifaces[k].kind = "agg" -> Ifaces[k].eth < HostsPerTor + NumAggr
      [] Ifaces[k].kind = "spine" -> Ifaces[k].eth < NumTor
      [] Ifaces[k].kind = "server" -> Ifaces[k].eth = 0

(***************************************************************************)
(* Every row of q_link.csv is the queue series of an active interface of   *)
(* its origin, lined up with the throughput rows (the first sample         *)
(* dropped), and for a port down the tree (agg to server, spine to agg)    *)
(* the row names the node behind that port.                                *)
(***************************************************************************)
LinksAreInterfaces ==
  pc = "done" =>
    \A r \in ToSet(qlink) :
      \E k \in active :
        /\ Origin(k) = r.origin
        /\ r.rows = [i \in 1..(Periods - 1) |-> q[k, i + 1]]
        /\ Ifaces[k].kind = "spine" \/ (Ifaces[k].kind = "agg" /\ Ifaces[k].eth < HostsPerTor)
           => r.end = Neighbour(k)[2]

(***************************************************************************)
(* On a network of the shape generate.py describes, neither the queue task *)
(* nor the qts task ends in an AssertionError (the qts task would leave    *)
(* only the files of the interfaces before the port): the asserts of       *)
(* get_dst_and_dst_area_omnet accept every port that exists.               *)
(***************************************************************************)
AssertsAcceptTopology == TopologyIfaces => pc # "crashed" /\ tpc # "crashed"

(***************************************************************************)
(* The qts task leaves one file per active interface, each holding that    *)
(* interface's queue series: no two interfaces write the same file.        *)
(***************************************************************************)
QtsFilePerInterface ==
  tpc = "done" =>
    /\ Cardinality(DOMAIN qts) = Cardinality(active)
    /\ \A k \in active : \E f \in DOMAIN qts : qts[f] = [i \in 1..(Periods - 1) |-> q[k, i + 1]]

(***************************************************************************)
(* The queue process_grouped_data reports for an origin is the sum of the  *)
(* queues of all the origin's active interfaces, sample by sample.         *)
(***************************************************************************)
OriginSumCoversIfaces ==
  pc = "done" =>
    \A o \in DOMAIN sums : \A i \in DOMAIN sums[o] :
      sums[o][i] = FoldLeft(LAMBDA acc, k : acc + q[k, i + 1], 0,
                            SelectSeq([k \in DOMAIN Ifaces |-> k],
                                      LAMBDA k : k \in active /\ Origin(k) = o))

(***************************************************************************)
(* Every row of q_link.csv names the node behind its port, in the node     *)
(* numbering of ns-2's areas that omnet_to_ns2_area follows.               *)
(***************************************************************************)
EndsAreNeighbours ==
  pc = "done" =>
    \A r \in ToSet(qlink) :
      \E k \in active : Origin(k) = r.origin /\ Neighbour(k)[2] = r.end

====
