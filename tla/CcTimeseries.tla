----------------------------- MODULE CcTimeseries -----------------------------
(***************************************************************************)
(* The congestion-control time series of an ns-2 run:                      *)
(* produce_aggr_ts.aggr_cc_data_ts (lines 262-302) with cc_hlp's           *)
(* load_cc_data, process_elet_data, basic_variable_treatment and           *)
(* output_results, and helper.calc_measurment_start_stop.                  *)
(*                                                                         *)
(* A row of cc_trace.str keeps its time, its event, the host that logged   *)
(* it and the value of each treated variable; the other columns are never  *)
(* read.  The variables treated are the columns of cc_cols_hybrid past     *)
(* index 3 (scheme_to_params["micro-hybrid"]); two stand for them, one     *)
(* whose name contains "global" and one that does not.  A file holds the   *)
(* (timestamp, value) rows written to it.                                  *)
(***************************************************************************)
EXTENDS Naturals, Sequences, SequencesExt

CONSTANTS
  Hosts,       \* params["host_addr"], in the parameter file's order
  Vars,        \* the variables treated, in cc_cols_hybrid's order
  GlobalVars,  \* those whose name contains "global"
  Schemes,     \* values of params["r2p2_cc_scheme"]
  HybridSchemes, \* those whose name contains "hybrid"
  Times,       \* timestamps a row may carry
  Values,      \* values a variable may take
  SimStartParam,    \* params["sim_start"]
  SimDurParam,      \* params["sim_dur"]
  MaxRows      \* rows of cc_trace.str

ASSUME GlobalVars \subseteq ToSet(Vars) /\ "micro-hybrid" \in HybridSchemes
       /\ HybridSchemes \subseteq Schemes

(* A row: cc_cols_hybrid's timestamp, event and local_addr columns and     *)
(* the treated ones; "snd" stands for every event other than "pol".        *)
Row == [ts : Times, event : {"pol", "snd"}, host : ToSet(Hosts), val : [ToSet(Vars) -> Values]]

(***************************************************************************)
(* calc_measurment_start_stop, helper.py lines 144-157, with the window    *)
(* 1.0 aggr_cc_data_ts passes: [sim_start, sim_start + sim_dur].           *)
(***************************************************************************)
MeasureWindow == <<SimStartParam, SimStartParam + SimDurParam>>

(* trim_by_timestamp, helper.py lines 160-167: start <= ts <= stop.        *)
TrimByTimestamp(data, start, stop) == SelectSeq(data, LAMBDA r : start <= r.ts /\ r.ts <= stop)

(* load_cc_data, cc_hlp.py lines 123-135: the rows inside the window.      *)
LoadCcData(trace) == TrimByTimestamp(trace, MeasureWindow[1], MeasureWindow[2])

(***************************************************************************)
(* cols(), lines 7-114: the column layout of cc_cols[scheme], else         *)
(* cc_cols_micro, which has none of the hybrid variables.                  *)
(***************************************************************************)
HasColumns(scheme) == scheme = "micro-hybrid"

(* The rows of host h among the poll rows, as (timestamp, value of v).     *)
HostSeries(poll, h, v) ==
  LET mine == SelectSeq(poll, LAMBDA r : r.host = h)
  IN [i \in DOMAIN mine |-> <<mine[i].ts, mine[i].val[v]>>]

(* Mutant: every row kept, the poll filter left out. *)
BasicVariableTreatmentAllEvents(v, data) ==
  LET Step(res, h) ==
        IF res.stop \/ HostSeries(data, h, v) = <<>> THEN res
        ELSE IF v \in GlobalVars
             THEN [out |-> <<[var |-> v, host |-> "global", rows |-> HostSeries(data, h, v)]>>, stop |-> TRUE]
             ELSE [res EXCEPT !.out = Append(@, [var |-> v, host |-> h, rows |-> HostSeries(data, h, v)])]
  IN FoldLeft(Step, [out |-> <<>>, stop |-> FALSE], Hosts).out

(***************************************************************************)
(* basic_variable_treatment, lines 212-243: the poll rows; for each host   *)
(* in host_addr order with rows, its series; a global variable returns     *)
(* with the first such host's series, under the key "global".              *)
(***************************************************************************)
BasicVariableTreatment(v, data) ==
  LET poll == SelectSeq(data, LAMBDA r : r.event = "pol")
      Step(res, h) ==
        IF res.stop \/ HostSeries(poll, h, v) = <<>> THEN res
        ELSE IF v \in GlobalVars
             THEN [out |-> <<[var |-> v, host |-> "global", rows |-> HostSeries(poll, h, v)]>>, stop |-> TRUE]
             ELSE [res EXCEPT !.out = Append(@, [var |-> v, host |-> h, rows |-> HostSeries(poll, h, v)])]
  IN FoldLeft(Step, [out |-> <<>>, stop |-> FALSE], Hosts).out

(***************************************************************************)
(* process_elet_data (lines 197-207) and output_results (lines 271-319):   *)
(* one output_results_task per variable, metric "ts" and host, in that     *)
(* order.                                                                  *)
(***************************************************************************)
ProcessEletData(data) == FlattenSeq([i \in DOMAIN Vars |-> BasicVariableTreatment(Vars[i], data)])

VARIABLES
  trace,    \* the rows of cc_trace.str, in file order
  scheme,   \* params["r2p2_cc_scheme"][0]
  pending,  \* the CC subpool's tasks, put on the queue, not yet run
  files,    \* <<variable, host>> -> rows of <varname>.csv under host_<host>
  pc        \* "none" (no task), "load", "write", "done" or "crashed"

vars == <<trace, scheme, pending, files, pc>>

(***************************************************************************)
(* process_results.py lines 79-89: an ns-2 directory gets the task when    *)
(* its scheme's name contains "hybrid" (cc_trace.str is there).  Only      *)
(* "micro-hybrid" reads the rows, so one trace stands for all under the    *)
(* other schemes.                                                          *)
(***************************************************************************)
Init ==
  /\ scheme \in Schemes
  /\ trace \in IF scheme = "micro-hybrid" THEN SeqOf(Row, MaxRows) ELSE {<<>>}
  /\ pending = <<>>
  /\ files = <<>>
  /\ pc = IF scheme \in HybridSchemes THEN "load" ELSE "none"

(***************************************************************************)
(* aggr_cc_data_ts's process_load_lvl, lines 269-295: load and trim, treat *)
(* every variable (the first one raises KeyError when the scheme's columns *)
(* lack it), and add the subpool of writes.                                *)
(***************************************************************************)
AggrCcDataTs ==
  /\ pc = "load"
  /\ IF HasColumns(scheme)
     THEN pending' = ProcessEletData(LoadCcData(trace)) /\ pc' = "write"
     ELSE pc' = "crashed" /\ UNCHANGED pending
  /\ UNCHANGED <<trace, scheme, files>>

(***************************************************************************)
(* The CC subpool (batches of 20) runs output_results_task, lines 248-269: *)
(* each writes its series to <var>/load_<load>/host_<host>/<var>.csv.      *)
(***************************************************************************)
OutputResultsTasks ==
  /\ pc = "write"
  /\ files' = FoldLeft(LAMBDA f, t : (<<t.var, t.host>> :> t.rows) @@ f, files, pending)
  /\ pending' = <<>>
  /\ pc' = "done"
  /\ UNCHANGED <<trace, scheme>>

Ended ==
  /\ pc \in {"none", "done", "crashed"}
  /\ UNCHANGED vars

Next == AggrCcDataTs \/ OutputResultsTasks \/ Ended

Spec == Init /\ [][Next]_vars /\ WF_vars(AggrCcDataTs \/ OutputResultsTasks)

-----------------------------------------------------------------------------
(* The periodic samples (event "pol") host h logged inside the window.     *)
Samples(h) == SelectSeq(trace, LAMBDA r : /\ r.event = "pol" /\ r.host = h
                                          /\ SimStartParam <= r.ts /\ r.ts <= SimStartParam + SimDurParam)

Series(h, v) == [i \in DOMAIN Samples(h) |-> <<Samples(h)[i].ts, Samples(h)[i].val[v]>>]

(***************************************************************************)
(* Every file written is the time series of its variable at one host: the  *)
(* host's periodic samples inside the measurement window, in trace order.  *)
(* Every host that sampled has a file for every per-host variable, and a   *)
(* global variable, the same network-wide, has one file if any host        *)
(* sampled it.                                                             *)
(***************************************************************************)
CcSeriesFaithful ==
  pc = "done" =>
    /\ \A k \in DOMAIN files :
         \E h \in ToSet(Hosts) : Samples(h) # <<>> /\ files[k] = Series(h, k[1])
    /\ \A v \in ToSet(Vars) \ GlobalVars, h \in ToSet(Hosts) :
         Samples(h) # <<>> => <<v, h>> \in DOMAIN files
    /\ \A v \in GlobalVars :
         (\E h \in ToSet(Hosts) : Samples(h) # <<>>) <=> <<v, "global">> \in DOMAIN files

====
