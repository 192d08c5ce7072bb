---------------------------- MODULE ProcessResults ----------------------------
(***************************************************************************)
(* The post-processing tasks process_results.extract_all_results (lines    *)
(* 14-89) submits for one <prot>/<load> directory, chosen by the marker    *)
(* file the simulator left in it, with extract_timeseries set:             *)
(*   this-is-a-dcpim-dir:  aggr_app_data and aggr_q_data (DcpimResults),   *)
(*                         aggr_q_data_ts (plots only);                    *)
(*   this-is-an-omnet-dir: aggr_app_data, aggr_app_data_ts (which raises   *)
(*                         for OMNeT), aggr_q_data and aggr_q_data_ts      *)
(*                         (OmnetQueues);                                  *)
(*   neither (ns-2):       aggr_app_data, aggr_app_data_ts (SlowdownBins), *)
(*                         aggr_q_data, aggr_q_data_ts, and, for a         *)
(*                         "hybrid" scheme, aggr_cc_data_ts (CcTimeseries).*)
(* The worker pool runs every task in a process of its own, in any order   *)
(* (WorkerManager shows that each one runs); an exception ends only its    *)
(* own process.  The OMNeT and ns-2 aggr_app_data tasks, the ns-2          *)
(* aggr_q_data and aggr_q_data_ts tasks and the dcPIM aggr_q_data_ts task  *)
(* are not modelled.  The variables of a task the directory does not get   *)
(* hold "none".                                                            *)
(***************************************************************************)
EXTENDS DcpimResults

CONSTANTS
  DirKinds,         \* the kinds of directory: "dcpim", "omnet", "ns2"
  NumAggr,          \* the OMNeT run's header: numSpines,
  NumTor,           \*   numAggs,
  HostsPerTor,      \*   numServers,
  Ifaces,           \*   and its interfaces in column order
  OPeriods,         \* rows of each OMNeT vector
  SizeChoices,      \* the ns-2 run's request sizes,
  SlowdownChoices,  \*   slowdowns,
  MaxRows,          \*   and most completed requests
  RowsPerBin,       \* 500 in produce_aggr_ts.py line 78
  MaxBinCount,      \* 50 in produce_aggr_ts.py line 78
  CcHosts,          \* the ns-2 run's host_addr,
  CcVars,           \*   the CC variables treated,
  CcGlobalVars,     \*   the global ones among them,
  CcSchemes,        \*   its r2p2_cc_scheme choices,
  CcHybridSchemes,  \*   those naming "hybrid",
  CcTimes,          \*   the times and
  CcValues,         \*   values of cc_trace.str rows,
  CcSimStart,       \*   sim_start,
  CcSimDur,         \*   sim_dur
  CcMaxRows         \*   and the rows of cc_trace.str

ASSUME DirKinds \subseteq {"dcpim", "omnet", "ns2"}

VARIABLES
  kind,                                     \* the directory's marker file
  oq, oactive, ogroups, osums, oqlink, opc, \* aggr_q_data on OMNeT data
  oqts, otpc,                               \*   and its aggr_q_data_ts
  srows, sdata, scsv, spc,                  \* aggr_app_data_ts
  ctrace, cscheme, cpending, cfiles, cpc    \* aggr_cc_data_ts

O == INSTANCE OmnetQueues WITH
       q <- oq, active <- oactive, groups <- ogroups, sums <- osums,
       qlink <- oqlink, pc <- opc, qts <- oqts, tpc <- otpc, Periods <- OPeriods

S == INSTANCE SlowdownBins WITH rows <- srows, data <- sdata, csv <- scsv, pc <- spc

C == INSTANCE CcTimeseries WITH
       trace <- ctrace, scheme <- cscheme, pending <- cpending, files <- cfiles,
       pc <- cpc, Hosts <- CcHosts, Vars <- CcVars, GlobalVars <- CcGlobalVars,
       Schemes <- CcSchemes, HybridSchemes <- CcHybridSchemes, Times <- CcTimes,
       Values <- CcValues, SimStartParam <- CcSimStart, SimDurParam <- CcSimDur,
       MaxRows <- CcMaxRows

omnetVars == <<oq, oactive, ogroups, osums, oqlink, opc, oqts, otpc>>
tsVars == <<srows, sdata, scsv, spc>>
ccVars == <<ctrace, cscheme, cpending, cfiles, cpc>>
dirVars == <<kind, vars, omnetVars, tsVars, ccVars>>

NoDcpimTasks ==
  /\ flows = <<>> /\ last = "none" /\ ratio = <<0, 1>> /\ w5 = FALSE
  /\ appcsv = <<>> /\ apc = "none"
  /\ q = <<>> /\ qgroups = <<>> /\ qsums = <<>> /\ qpc = "none"

NoOmnetQueueTask ==
  /\ oq = <<>> /\ oactive = {} /\ ogroups = <<>> /\ osums = <<>>
  /\ oqlink = <<>> /\ opc = "none" /\ oqts = <<>> /\ otpc = "none"

(* Lines 23-36 and 47-61: the tasks each kind of directory gets.           *)
DirInit ==
  /\ kind \in DirKinds
  /\ IF kind = "dcpim" THEN ResultsInit ELSE NoDcpimTasks
  /\ IF kind = "omnet" THEN O!Init ELSE NoOmnetQueueTask
  /\ CASE kind = "ns2"   -> S!Init
       [] kind = "omnet" -> srows = <<>> /\ sdata = <<>> /\ scsv = <<>> /\ spc = "load"
       [] OTHER          -> srows = <<>> /\ sdata = <<>> /\ scsv = <<>> /\ spc = "none"
  /\ IF kind = "ns2" THEN C!Init
     ELSE ctrace = <<>> /\ cscheme = "none" /\ cpending = <<>> /\ cfiles = <<>> /\ cpc = "none"

DcpimQueueTask == QueueTask /\ UNCHANGED <<kind, omnetVars, tsVars, ccVars>>

DcpimAppTask == AppTask /\ UNCHANGED <<kind, omnetVars, tsVars, ccVars>>

OmnetQueueTask == O!ProcessLoadLvlOmnet /\ UNCHANGED <<kind, vars, tsVars, ccVars>>

(* The OMNeT directory's aggr_q_data_ts, in the time-series pool.          *)
OmnetQtsTask == O!AggrQDataTsOmnet /\ UNCHANGED <<kind, vars, tsVars, ccVars>>

(* The ns-2 CC task, and the subpool of writes it adds. *)
CcTask == C!AggrCcDataTs /\ UNCHANGED <<kind, vars, omnetVars, tsVars>>

CcSubpool == C!OutputResultsTasks /\ UNCHANGED <<kind, vars, omnetVars, tsVars>>

(***************************************************************************)
(* aggr_app_data_ts, produce_aggr_ts.py lines 96-104: on an OMNeT          *)
(* directory it raises "not implemented for OMNET" before reading          *)
(* anything; otherwise it is process_load_lvl.                             *)
(***************************************************************************)
AggrAppDataTs ==
  /\ UNCHANGED <<kind, vars, omnetVars, ccVars>>
  /\ \/ /\ kind = "omnet"
        /\ spc = "load"
        /\ spc' = "crashed"
        /\ UNCHANGED <<srows, sdata, scsv>>
     \/ /\ kind # "omnet"
        /\ S!CalculateSlowdown \/ S!WriteSlowdown

DirEnded ==
  /\ apc # "run" /\ qpc # "load" /\ opc # "load" /\ otpc # "load" /\ spc \notin {"load", "bin"}
  /\ cpc \notin {"load", "write"}
  /\ UNCHANGED dirVars

DirNext ==
  \/ DcpimQueueTask \/ DcpimAppTask \/ OmnetQueueTask \/ OmnetQtsTask \/ AggrAppDataTs
  \/ CcTask \/ CcSubpool \/ DirEnded

(* Every task's process runs to its end. *)
DirSpec ==
  /\ DirInit /\ [][DirNext]_dirVars
  /\ WF_dirVars(DcpimQueueTask) /\ WF_dirVars(DcpimAppTask)
  /\ WF_dirVars(OmnetQueueTask) /\ WF_dirVars(AggrAppDataTs)
  /\ WF_dirVars(OmnetQtsTask) /\ WF_dirVars(CcTask) /\ WF_dirVars(CcSubpool)

-----------------------------------------------------------------------------
(* The OMNeT queue task's and the ns-2 slowdown task's properties (see     *)
(* OmnetQueues and SlowdownBins); they hold vacuously in other directories.*)

(* q_link.csv rows are the series of active interfaces of their origin.    *)
LinksAreInterfaces == O!LinksAreInterfaces

(* The OMNeT queue and qts tasks never fail an assert on a generate.py     *)
(* network.                                                                *)
AssertsAcceptTopology == O!AssertsAcceptTopology

(* slowdown.csv lists its sizes in increasing order. *)
SizesAscending == S!SizesAscending

(* No request is counted in two rows of slowdown.csv. *)
NoSampleCountedTwice == S!NoSampleCountedTwice

(* The OMNeT qts task writes one file per active interface, holding its    *)
(* queue series.                                                           *)
QtsFilePerInterface == O!QtsFilePerInterface

(* Each CC time-series file is its variable's in-window poll samples at    *)
(* one host, and every host that sampled is reported.                      *)
CcSeriesFaithful == C!CcSeriesFaithful

(***************************************************************************)
(* Whatever the simulator, the queue aggr_q_data reports for an origin in  *)
(* q.csv is the sum of the queues of all the origin's links, sample by     *)
(* sample: OriginSumCoversLinks of the dcPIM task, OriginSumCoversIfaces   *)
(* of the OMNeT task (the link key collisions of dcpim_helper.py line 181  *)
(* and produce_aggr.py line 630).                                          *)
(***************************************************************************)
QueueSumsCoverLinks == Q!OriginSumCoversLinks /\ O!OriginSumCoversIfaces

====
