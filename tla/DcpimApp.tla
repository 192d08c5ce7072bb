------------------------------- MODULE DcpimApp -------------------------------
(***************************************************************************)
(* The application statistics of a dcPIM run: produce_aggr.aggr_app_data  *)
(* for the dcPIM simulator (lines 373-384), that is write_app_header and   *)
(* process_load_lvl_dcpim (lines 195-305), with dcpim_helper.get_app_data  *)
(* and get_trace_interval.                                                 *)
(*                                                                         *)
(* data.txt holds one flow line per completed flow, in completion order,   *)
(* among "qs", "queue" and "##" lines.  A flow keeps its start and finish  *)
(* time, its size and the slowdown dcPIM computed; the other lines matter  *)
(* only through the file's last line, which get_app_data never reads.      *)
(* Percentiles and means of a group are functions of the group's bag of    *)
(* slowdowns, which stands for them; goodput keeps its byte count and the  *)
(* length of the interval it is divided by.                                *)
(***************************************************************************)
EXTENDS Naturals, Sequences, SequencesExt

CONSTANTS
  Periods,          \* the times a flow may start or finish at, 1..Periods
  FlowSizes,        \* sizes a flow may have
  Slowdowns,        \* slowdowns dcPIM may report
  MaxFlows,         \* flow lines in the file
  RatioChoices,     \* <<num, den>>: (start_tracing_at - sim_start) / sim_dur
  IncastSize,       \* cfg.gparams["incast_size_dcpim"]
  IncastSizeW5,     \* cfg.gparams["incast_size_dcpim_websearch"]
  SizeGroups,       \* cfg.SIZE_GROUPS: <<cut_start, cutoff>> pairs
  MinGroupMsgs,     \* a group with fewer messages is skipped (100)
  Skipped           \* the -1 written for a skipped group

ASSUME \A r \in RatioChoices : r[2] > 0 /\ r[1] <= r[2]

Flow == [start : 1..Periods, finish : 1..Periods, size : FlowSizes, sldn : Slowdowns]

(* The flow lines of a file, in completion order; a flow completion time *)
(* is positive (its slowdown is at least 1).                              *)
FlowFiles ==
  {s \in SeqOf({f \in Flow : f.start < f.finish}, MaxFlows) :
     \A i \in 1..(Len(s) - 1) : s[i].finish <= s[i + 1].finish}

(***************************************************************************)
(* get_app_data, lines 34-99: the flow lines among lines 0 .. len-2; the  *)
(* last line is read only when it is not a flow line.                      *)
(***************************************************************************)
GetAppData(flows, last) == IF last = "flow" THEN Front(flows) ELSE flows

(* Lines 96-98: sim_start is the first row's start, sim_end the latest. *)
SimStart(rows) == rows[1].start
SimEnd(rows) == Max(ToSet([i \in DOMAIN rows |-> rows[i].start]))

(***************************************************************************)
(* get_trace_interval, lines 101-111, and trim_by_timestamp (helper.py    *)
(* 160-167): a time t is kept when                                         *)
(*   trace_start = sim_start + sim_dur * num/den <= t <= sim_end,          *)
(* compared exactly by multiplying through by den.                         *)
(***************************************************************************)
InTrace(t, rows, ratio) ==
  /\ t * ratio[2] >= SimStart(rows) * ratio[2]
                     + (SimEnd(rows) - SimStart(rows)) * ratio[1]
  /\ t <= SimEnd(rows)

(* trace_start rounded up: the first whole time inside the interval. *)
TraceStartCeil(rows, ratio) ==
  LET x == SimStart(rows) * ratio[2] + (SimEnd(rows) - SimStart(rows)) * ratio[1]
  IN (x + ratio[2] - 1) \div ratio[2]

(* Mutant: the event column set on the odd rows, data[1::2]. *)
EventsSwapped(rows) ==
  FlattenSeq([i \in DOMAIN rows |->
    << [event |-> 0, ts |-> rows[i].start, flow |-> rows[i]],
       [event |-> 1, ts |-> rows[i].finish, flow |-> rows[i]] >>])

(***************************************************************************)
(* Lines 221-232: np.repeat doubles each row; the even copy is the        *)
(* injection (event 1, timestamp = start), the odd one the completion      *)
(* (event 0, timestamp = finish).                                          *)
(***************************************************************************)
Events(rows) ==
  FlattenSeq([i \in DOMAIN rows |->
    << [event |-> 1, ts |-> rows[i].start, flow |-> rows[i]],
       [event |-> 0, ts |-> rows[i].finish, flow |-> rows[i]] >>])

SizeSum(evs) == FoldLeft(LAMBDA acc, e : acc + e.flow.size, 0, evs)

(* Mutant: the cutoff of a size group taken inclusively. *)
InGroupUpToCutoff(size, g) == g[1] <= size /\ size <= g[2]

(* Lines 279-280: cut_start <= size < cutoff. *)
InGroup(size, g) == g[1] <= size /\ size < g[2]

(***************************************************************************)
(* Lines 276-304: for each group, -1 when fewer than MinGroupMsgs messages *)
(* fall in it, else its slowdown statistics; each dict is keyed by the     *)
(* group's text f"{cut_start}-{cutoff}", one key per pair.                 *)
(***************************************************************************)
GroupStats(slowdown) ==
  [k \in DOMAIN SizeGroups |->
     LET msgs == SelectSeq(slowdown, LAMBDA m : InGroup(m.size, SizeGroups[k]))
     IN <<SizeGroups[k],
          IF Len(msgs) < MinGroupMsgs THEN Skipped
          ELSE ToBag([i \in DOMAIN msgs |-> msgs[i].sldn])>>]

(* Mutant: print(data_rec[0]) guarded, so an empty interval is reported. *)
NothingToReportNoRec(rows, rec) == rows = <<>>

(***************************************************************************)
(* The two ways the task raises before writing its row: no flow row        *)
(* (np.max of an empty column, dcpim_helper.py line 97) and no completion  *)
(* in the interval (data_rec[0] printed, lines 263-264).                   *)
(***************************************************************************)
NothingToReport(rows, rec) == rows = <<>> \/ rec = <<>>

(* write_app_header, lines 35-47: one column group per SIZE_GROUPS entry. *)
Header == [k \in DOMAIN SizeGroups |-> SizeGroups[k]]

VARIABLES
  flows,    \* the flow lines of data.txt, in completion order
  last,     \* the kind of data.txt's last line: "flow", "qs" or "##"
  ratio,    \* the trace ratio from the parameter file
  w5,       \* "w5" occurs in the run's directory (websearch workload)
  appcsv,   \* output/app.csv: the header, then the row written
  apc       \* "run", "done" or "crashed"

appVars == <<flows, last, ratio, w5, appcsv, apc>>

Init ==
  /\ flows \in FlowFiles
  /\ last \in IF flows = <<>> THEN {"qs", "##"} ELSE {"flow", "qs", "##"}
  /\ ratio \in RatioChoices
  /\ w5 \in BOOLEAN
  /\ appcsv = <<>>
  /\ apc = "run"

(***************************************************************************)
(* aggr_app_data on a dcPIM directory: the header, then                   *)
(* process_load_lvl_dcpim.  The run ends with an exception when the file   *)
(* has no flow row (np.max of an empty column, line 97) or no completion   *)
(* falls in the interval (data_rec[0] is printed, line 264).               *)
(***************************************************************************)
AggrAppData ==
  LET rows == GetAppData(flows, last)
      trimmed == SelectSeq(Events(rows), LAMBDA e : InTrace(e.ts, rows, ratio))
      snt == SelectSeq(trimmed, LAMBDA e : e.event = 1)
      rec == SelectSeq(trimmed, LAMBDA e : e.event = 0)
      exclude == IF w5 THEN IncastSizeW5 ELSE IncastSize
      kept == SelectSeq(rec, LAMBDA e : e.flow.size # exclude)
      slowdown == [i \in DOMAIN kept |-> kept[i].flow]
      span == SimEnd(rows) * ratio[2]
              - (SimStart(rows) * ratio[2] + (SimEnd(rows) - SimStart(rows)) * ratio[1])
  IN
  /\ apc = "run"
  /\ IF NothingToReport(rows, rec)
     THEN /\ appcsv' = <<Header>>
          /\ apc' = "crashed"
     ELSE /\ appcsv' = <<Header,
                         [initiated |-> Len(snt), completed |-> Len(rec),
                          sent |-> [bytes |-> SizeSum(snt), span |-> span],
                          achieved |-> [bytes |-> SizeSum(rec), span |-> span],
                          groups |-> GroupStats(slowdown)]>>
          /\ apc' = "done"
  /\ UNCHANGED <<flows, last, ratio, w5>>

====
