# TLA+ models of the SIRD-Simulator tooling

This directory holds TLA+ models of the parts of `src/` where ordering,
concurrency or failure matter. It also has the TLC configurations that check
them. Most of the repository is straight-line data transformation
(parse a file, compute a number, write a file or plot). The parts with
concurrency are:

* the thread-budget batch runner `scripts/r2p2/coord/run_many.py`
  (the core; see `spec.md`), and
* the post-processing process pool `scripts/r2p2/post-process/worker_manager.py`.

## 1. Inventory

### 1.1 Components

| Component | Source | State it keeps | Operations |
|---|---|---|---|
| Job descriptor extractor | `run_many.py:13-25` `get_required_threads` | none | scan the lines for `max_threads\s*=\s*['"](\d+)['"]`. Return the first match or raise. |
| Job ledger, capacity tracker, admission, supervisor, loop, reporter | `run_many.py:31-179` `main` | `pending_jobs`, `running_jobs` (lists), `exit_codes` (dict), per-job `Popen` and log file handles, `available` | validate all files (93-107); loop `while pending or running` (118); collect exited jobs (119-134); compute `available` (136-138); first-fit launch scan (140-163); `sleep(5)` (166); write `main_log.txt` (168-177) |
| Job processes (environment) | the `run` executable, started by `Popen` at `run_many.py:151` | running / exited, return code, output written to the log | run concurrently with the loop and exit with some code |
| Post-processing pool | `worker_manager.py` | `TMP_TASK_QUEUE`, `TASK_QUEUE` (multiprocessing queues), `HW_THREADS_AVAILABLE`, `tries`, the child processes of one round, the mover process | `add_tasks` (33-41, called by main and by children); `get_and_remove_tasks` (43-50); `task_mover_loop` (52-70, run by main with `init=True` and then as a process); `run_loop` (76-109) |
| Pool clients | `process_results.py`, `produce_aggr_ts.py:165-186`, `cc_hlp.py:271-313` | none | build `Task` lists and call `add_tasks`, from main (`process_results`) and from inside running tasks (the sub-pools). Modelled: the tasks one directory gets (`ProcessResults`) and the CC subpool (`CcTimeseries`). |
| Topology translator | `topology_parser.py` | the merged YAML dict | `keys_are_valid`, `merge_topos`, `check_valid_hosts`, `write_tcl_params` (builds client/server/tor lists while iterating host attributes) |
| TCL to INI translator | `tcl_to_ini.py`, `common.py` | parameter dicts | parse `set` lines, map parameters to INI entries, de-duplicate, write |
| MAC table generator | `MAC_Table_Data/generate.py` | none | allocate consecutive MACs per aggregation switch. `hex_to_string` formats a MAC. |
| Statistics and plots | `post-process/helper.py`, `produce_aggr*.py`, `app_hlp.py`, `omnet_helper.py`, `dcpim_helper.py`, `qmon_hlp.py`, `cc_hlp.py`, `plot_xy.py`, `cfg.py`, `topo_helper.py` | numpy/pandas arrays | percentiles, goodput, histograms, plots. Modelled: slowdown-vs-size bins (`SlowdownBins`), and the dcPIM app and queue tasks on one `data.txt` (`DcpimApp`, `DcpimQueues`, composed in `DcpimResults`), the OMNeT++ queue and queue time-series tasks (`OmnetQueues`), and the ns-2 congestion-control time series (`CcTimeseries`); `ProcessResults` composes them per directory. |

### 1.2 How they interact

* `run_many.main` owns the ledger. It is a single thread, and its only
  suspension point is `time.sleep(5)`. The job processes run concurrently
  with it. The loop learns about an exit only through `proc.poll()` in the
  next tick. So an exit can fall at any point of a tick: before the scan,
  after the job's own poll, between collect and launch.
* `worker_manager` runs in three kinds of processes:
  * the main process runs `run_loop`;
  * one mover process runs `task_mover_loop`. It moves batches from
    `TMP_TASK_QUEUE` to `TASK_QUEUE`, puts an empty batch on every 15 s
    `get` timeout, and stops on the `Task(None, None)` sentinel;
  * one child process per batch of a round. A child can add new batches
    to `TMP_TASK_QUEUE` (the sub-pools).

  The main process ends after three consecutive empty polls of
  `TASK_QUEUE`, each followed by `sleep(1)`.

### 1.3 What is hard

* **Interleaving.** Process exits against the poll/collect/launch steps of a
  tick (`run_many`). In `worker_manager`: children adding work, the mover
  moving it, and main polling `TASK_QUEUE`.
* **Partial failure.** `open`/`Popen` raising in the middle of a launch scan
  kills `main()` and leaves the jobs already launched running unsupervised.
* **Timeouts and retries.** `worker_manager` decides that all work is done
  after 3 empty polls, 1 s apart. Work still in `TMP_TASK_QUEUE`, or held by
  the mover, is not looked at. The mover's 15 s timeout injects empty
  batches.
* **Numeric edges.**
  * A job that needs exactly `total_threads`.
  * `max_threads='0'`.
  * `int(cpu_count()/2) == 0` on a 1-CPU machine.
  * MAC addresses with two leading zero nibbles.
* **Naming.** With `-r`, log files are named by basename, which can collide.

### 1.4 What makes each component correct

* Batch runner:
  * the budget is never oversubscribed, by the ledger or by the live
    processes;
  * no job is lost or launched twice;
  * first fit really scans the whole pending list;
  * the summary reports every job's real exit code and the right verdict;
  * each job has its own log;
  * the batch terminates if every job does;
  * it implements the abstract batch (`JobBatch`).
* Pool:
  * every task added is eventually run;
  * the mover and the main process both stop.
* Translators and generator: the pure functions meet their reference
  definitions (each host in the right tor list, MACs unique and consistent across
  switch tables).

## 2. Plan

In order of importance:

1. **`RunMany`** (done). Models `run_many.main`: validation, loop, collect,
   first-fit launch, launch failure, report. The job processes are
   environment actions.
2. **`JobBatch`** (done). The abstract specification of a thread-budget batch
   runner. `RunMany` implements it through the refinement mapping `Batch`.
3. **`WorkerManager`** (done). Models the two queues, the mover
   (including its timeout and the sentinel), `run_loop` with `tries`, and the
   children adding sub-batches, in discrete time. It has a pass run and two
   configurations reproducing findings (one CPU; a lagging mover).
4. **`ThreadDecl`** (done; a pure algorithm). Models the `get_required_threads`
   regex over a token abstraction of lines, checked against a declarative
   reference. It shows which lines count as declarations: mismatched
   quotes, commented-out lines, `my_max_threads=`.
5. **`TopologyParser`, `TclToIni`, `TopologyPipeline`** (done).
   `TopologyParser` models `write_tcl_params`' host-attribute walk with its
   `this_tor`. `TclToIni` models `tcl_to_ini.main` on the lines it writes.
   `TopologyPipeline` composes the two scripts as they run on one
   experiment. It has one pass run and one violation run; two more
   configurations reproduce the other findings.
6. **`MacTables`** (done). Models `generate_agg`/`generate_spine` MAC
   allocation, and `hex_to_string` with a RECURSIVE digit conversion. It
   has one pass run and
   one configuration reproducing a finding.
7. **`SlowdownBins`, `DcpimQueues`, `DcpimApp`, `DcpimResults`** (done; part
   of the statistics). These are the post-processing paths whose control
   decides which samples get into a report:
   * `SlowdownBins`: the slowdown-vs-size bins;
   * `DcpimQueues`: the dcPIM per-link and per-origin queue series;
   * `DcpimApp`: the dcPIM application statistics;
   * `DcpimResults`: the composition of the two dcPIM tasks on one
     `data.txt`.
8. **`OmnetQueues`** (done; part of the statistics). The OMNeT++ path of
   `aggr_q_data`: which interface becomes which link, the idle-interface
   skip, the per-link dict, the per-origin sums and the per-link report.
   Its properties are stated against the topology `generate.py` lays out.
   It also has the OMNeT++ path of `aggr_q_data_ts`: one `qts` file per
   active interface, written inside the loop.
9. **`CcTimeseries`** (done; part of the statistics). The ns-2
   congestion-control time series of `aggr_cc_data_ts` and `cc_hlp`: the
   window trim, the poll filter, the per-host split, the early return for
   a global variable, and the subpool of writes.
10. **`ProcessResults`** (done; the pool clients). Composes the tasks that
    `extract_all_results` submits for one directory of each kind, so that
    they run in any order. The rest of the statistics stays out (see
    section 5).

## 3. Modules and how they map to the code

### `RunMany.tla` (`run_many.py`)

State:

| Variable | Code |
|---|---|
| `req` | the `max_threads` of each file, fixed by `Init` over `ReqChoices ∪ {NoDecl}` |
| `pc` | where `main()` is |
| `pending_jobs`, `running_jobs` | the two lists, in order |
| `exit_codes` | the dict |
| `proc`, `returncode` | the OS processes |
| `log_open` | the log handles `main()` holds |
| `logs` | which jobs' output each log file holds |
| `summary` | `main_log.txt` |

Actions:

| Action | Code |
|---|---|
| `Validate` | lines 93-107 |
| `LoopTest` | line 118 |
| `Collect` | lines 119-134 |
| `Admit` | lines 136-166. Uses the RECURSIVE `FirstFit` for the scan, then `time.sleep` as `Sleep`. |
| `AdmitFails` | an exception from `open`/`Popen` at the k-th launch of a scan; when `Popen` raises, the k-th job's log was already truncated by `open(..., "w")` (`StartJobs`' `opened`) |
| `Report` | lines 168-177 |
| `Exit(j, c)` | a job process ending with code c |
| `Finished` | `main()` has stopped |

`Used` sums over the list, not a set. A job listed twice would be counted
twice, as in the code.

### `JobBatch.tla` (abstract)

Jobs go pending -> running -> finished in batches. The running jobs' needs
stay within the budget. `RunMany!Batch` maps a job to:

* pending while it has no process;
* running until its code is in `exit_codes`;
* finished after that.

A file without `max_threads` maps to a need above the budget.

### `WorkerManager.tla` (`worker_manager.py`)

A batch is a model value. `Initial` is what the main process adds before
`run_loop`. `Spawns[b]` is what batch `b`'s tasks add while they run. This
models the sub-pools of `produce_aggr_ts.py` and `cc_hlp.py`. `Empty` is the
`TaskBatch([])` of a get timeout. `Stop` is the `Task(None, None)` batch.

State:

| Variable | Code |
|---|---|
| `tmpq`, `taskq` | `TMP_TASK_QUEUE`, `TASK_QUEUE` |
| `mpc` | where the main process is: init mover, poll, join, sleep, stopper, interpreter exit |
| `tries`, `round` | `run_loop`'s locals (`task_batches`) |
| `child` | each batch's process |
| `mstate`, `mheld`, `mtimer` | each mover (`"init"`: `task_mover_loop(init=True)` in main; `"proc"`: the process): its step, the batch between get and put, the seconds left of the 15 s timeout |
| `slept`, `elapsed` | whether `sleep(1)` is over, and the seconds since a round started |

Actions:

| Action | Code |
|---|---|
| `MoverGet` | lines 59-67: get, or `Empty` on timeout; the stopper ends the loop |
| `MoverPut` | lines 68-70 |
| `StartMover` | lines 80-87 |
| `GetTasks` | lines 89-97 and 104-107, with `Take` = `get_and_remove_tasks` |
| `Join` | lines 99-100 |
| `Wake` | line 88 |
| `AddStopper` | line 109 |
| `ExitMain` | interpreter exit, which joins the non-daemon mover process |
| `RunBatch(b)` | `run_batch`, lines 72-74 |
| `Tick` | one second passes |

Time model:

* A step that does not wait is urgent: `Tick` is disabled while one is
  enabled.
* Batch processes are never urgent. They may run for any number of seconds,
  up to the bound `MaxBatchSecs`.
* The mover process is urgent only under `MoverPrompt`.
* With `MaxBatchSecs = 16` > 15, the mover's get timeout happens during a
  round, and its `Empty` batch is taken by a later round.

### `TopologyParser.tla` (`topology_parser.py`, `common.py`)

* The merged YAML topology is the record set `Topologies`:
  * the placement;
  * for each host, its attribute names in YAML order (`AttrOrders`);
  * its `tor` value;
  * whether the files' keys are valid.
  The YAML loading and `merge_topos` are not modelled; their result is this
  input.
* `WalkHosts` is the loop of lines 33-52, written as a `FoldLeft` of
  `AttrStep` over the (host, attribute) pairs. Its accumulator is the
  function's locals: `this_tor`, the client, server and tor lists, and the
  three per-tor dicts.
  * A `tor` attribute sets `this_tor` (`TorSet`).
  * A `client` or `server` attribute is filed under whatever `this_tor`
    holds at that moment.
  * Reading an unbound `this_tor` is the `NameError` (`err`).
* `TclLines` is the list of TCL lines the function appends, in order
  (lines 55-65). A line is a record: base name, tor, list or scalar, values.
  `set_tcl_list` and `set_simple_tcl_var` are `ListLine` and `ScalarLine`.
* `KeysAreValid` and `ValidHosts` are the two checks of `main`.

### `TclToIni.tla` (`tcl_to_ini.py`)

* `ImportParamFile` reads the `set` lines into an ordered dict: a later line
  with the same name replaces the value in place.
* `DeriveHostIndex` is the physical index `HOSTS_PER_TOR*tor + k`, or -1 for
  its failed assert. The hardwired descriptor `_9_16` is the constants
  `NumTor` and `HostsPerTor`.
* Building the entries:
  * `SetActiveClients` gives the k-th client of a tor the index k-1.
  * `SetTargets` does the same for servers, and appends them to the
    module-global `current_target_string`. That string is threaded through
    the loop as `cur`.
  * `MapParam` dispatches on the parameter name.
  * `RemoveDuplicates` drops an earlier entry with the same prefix and name
    before the new one is added.
* `IniMain` is `main`'s loop. An .ini entry is a record (section, prefix,
  name, value); the text of `def_ini_param` is not kept.

### `TopologyPipeline.tla` (composition)

* The two scripts run one after the other:
  * `Init` chooses a topology.
  * `Parse` is `topology_parser.main`: both checks, then the walk.
  * `Convert` is `tcl_to_ini.main` on the lines `Parse` wrote.
* Each step either completes or stops its script (`pc = "exit"`), on
  `exit(1)`, a `NameError` or a failed assert.
* `WF` on both steps: each script is a single straight-line run.

### `MacTables.tla` (`MAC_Table_Data/generate.py`)

* `HexDigits` is `hex()`, written RECURSIVE. `HexToString` pads one `0` and
  asserts the length; `Fail` is the failed assert. With the code's two
  bases the assert never fails, so no property is spent on the digits.
* `AggOffset` (RECURSIVE) is `mac_offset` after a given number of aggs.
  `AggLines` and `SpineLines` are the lines of one `generate_agg` and one
  `generate_spine` call.
* Each `Generate` step is one call of `main`:
  * `Calls` lists the calls in order.
  * `Written` keeps the lines up to the assert that stops the program.
  * `Crashes` also covers `num_hosts = 0`: line 83 then reads an unbound
    `current_mac`.
* A MAC is `MacDigits` hex digits. The code uses 12; the model uses 6,
  because TLC's integers are 32-bit. `BASE_MAC` is scaled the same way:
  `0x0AAA000000A3` becomes `0x0AA0A3`, and one leading zero nibble is kept.

### `ThreadDecl.tla` (`run_many.py:13-25`, `94-107`)

* A line is a sequence of tokens: the key, blanks, `=`, the two quotes,
  digits, and stand-ins for other text (`#`, `my_`, `$n`, `x`).
* `MatchAt` is the regex anchored at one index. `\s*` becomes
  `SkipBlanks`, the closing quote is any quote, and `(\d+)` is the maximal
  run of digits. The regex's classes are disjoint, so this greedy match is
  the only one.
* `Search` is `re.search` (the leftmost match), and `GetRequiredThreads` is
  the loop: the first line that matches wins. `Missing` stands for the
  exception, and `ToInt` is `int()`, leading zeros included.
* `Extract` is one file's pass through `main()`'s validation: it rejects a
  missing declaration or one above `total_threads`, and accepts the rest.
* `SpecRequiredThreads` is the reference from spec 4.1: the first line that
  is, blanks aside, `max_threads=` and a count quoted the same way on both
  sides.

### `SlowdownBins.tla` (`produce_aggr_ts.py:32-94`, `app_hlp.py:155-189`)

* A completed request is a record of its size and its slowdown. Both are
  small integers; the per-message slowdown arithmetic of
  `calculate_slowdown` is abstracted to the chosen value.
* `CalculateSlowdown` is the empty-trace check and the sort of
  `calculate_slowdown`. With no completed request in the window, the
  trace may still have other rows; then `apply_along_axis` gets zero rows
  and raises, so an empty `rows` ends in `skipped` or `crashed`.
* `WriteSlowdown` covers the rest of the action:
  * `BinCount` is `min(len // 500, 50)`;
  * `get_slowdown_vs_size` sorts again (`SortedBySize`);
  * `Bin` cuts equal-count bins, with the remainder going to the last;
  * `Put` stores each bin's statistics in a dict keyed by `MedianKey`.
* `SortedBySize` is every order an unstable `argsort` may return (all
  permutations sorted by size), because quicksort's order among equal sizes
  depends on the data.
* Constants are scaled: `RowsPerBin` stands for 500 and `MaxBinCount` for
  50.

### `DcpimQueues.tla` (`produce_aggr.py:501-515`, `574-596`, `dcpim_helper.py:113-192`, `helper.py:160-167`)

* `data.txt` is the `qs` lines (one per link and period, link records
  spelled as in the file) and optionally a trailing line of another kind.
  `GetQueueData` reads every line but the last, as `range(len(lines)-1)`
  does.
* `TrimByTimestamp` applies the trace window chosen in `Init`, which stands
  for `get_trace_interval`.
* `GroupByOrigin` is the dict `origin -> [links]`. A link's key is
  `(origin, dst id)`, and a key already present is skipped. `RelevantView`
  is the row filter of lines 186-189.
* `OriginSum` folds `AddColumn`, which follows numpy broadcasting: equal
  lengths add, a single row broadcasts, and anything else raises
  `ValueError` (`Fail`).
* `ProcessLoadLvlDcpim` is the whole handler. It ends in `"crashed"` when a
  sum fails.

### `DcpimApp.tla` (`produce_aggr.py:35-47`, `195-305`, `dcpim_helper.py:34-111`)

* `flows` are the flow lines of `data.txt` in completion order. Each keeps
  its start, finish, size and dcPIM's slowdown. `last` is the kind of the
  file's last line. `GetAppData` drops the last flow when `last = "flow"`.
* `SimStart` is the first row's start and `SimEnd` the latest start, as in
  lines 96-98. `InTrace` is `get_trace_interval` followed by
  `trim_by_timestamp`. The ratio is kept as `<<num, den>>` and compared
  exactly.
* `Events` is `np.repeat` with the event column. The even copy is the
  injection, timestamped at its start; the odd copy is the completion,
  timestamped at its finish.
* `AggrAppData` covers the header, the trim and the counts, the byte sums
  behind both goodputs (with their divisor `span`), the incast exclusion
  (`w5` picks the websearch size), and `GroupStats`. It ends in `"crashed"`
  where the code raises: when there is no flow row (line 97), or no
  completion in the interval (line 264).
* Each group's percentiles and mean are functions of its bag of slowdowns,
  which stands for them. `Skipped` is the `-1`.

### `DcpimResults.tla` (`process_results.py:14-63`, `produce_aggr.py:373-384`, `574-583`)

* For a dcPIM directory, `extract_all_results` adds `aggr_app_data` and
  `aggr_q_data`. The pool runs them in separate processes, in either order.
* The composition instances `DcpimQueues` as `Q`. It substitutes:
  * for `trailer`: `last # "qs"`;
  * for `window`: `QueueWindow`, the interval `get_app_data` and
    `get_trace_interval` derive from the same flow lines (lines 581-583),
    with its start rounded up to a whole period.
* `QueueTask` is `Q!ProcessLoadLvlDcpim`, or the crash at line 581 when
  the file has no flow row. `AppTask` is `DcpimApp`'s `AggrAppData`.

### `OmnetQueues.tla` (`produce_aggr.py:474-537`, `610-651`; `produce_aggr_ts.py:129-134`, `188-211`; `omnet_helper.py:23`, `99-112`, `176-202`)

* State: `q` (each interface's queue samples), `active` (the interfaces
  whose throughput is not almost 0), `groups` (`orig_to_data`), `sums`
  (`orig_to_sum`, which `q.csv` and the origin histograms are computed
  from), `qlink` (the rows of `q_link.csv`) and `pc`.
* `ProcessLoadLvlOmnet` is the whole of `process_load_lvl_omnet` and the
  two reporting functions. It visits the active interfaces in header
  order. For each one it computes the origin and `End`, which is
  `GetDstAndDstAreaOmnet`. It stores the series `Qing` (the queue view
  without its first row) under the key `(origin, end id)`, where a key
  already present keeps its place and takes the new series. It then sums
  per origin and lists the link rows in dict order. A port the asserts
  reject ends it in `"crashed"` with nothing written beyond the headers.
* Every vector is taken to have the same sample times, all inside
  `[0, sim_dur]` after the 10 s shift, so every view has `Periods` rows.
* `Neighbour` is the node behind each port as `generate.py`'s tables lay
  out the network: agg `a`'s port `j < hosts` leads to server
  `a * hosts + j`, its port `hosts + s` to spine `s`; spine `s`'s port `a`
  leads to agg `a`; a server's port leads to its agg.
* `AggrQDataTsOmnet` is `aggr_q_data_ts`'s `process_load_lvl_omnet`. It
  reads the same `q` and `active`, so it has two more variables: `qts`
  (file name to the queue series written) and `tpc`. It walks the active
  interfaces in header order and writes each one's file under `QtsKey`,
  the name `write_qts_data` builds: origin area, origin, end area, end.
  A port the asserts reject ends it in `"crashed"`, and the files written
  before that port stay. The throughput column is a function of the byte
  data and is not kept.
* The two tasks run in separate processes, in either order. `Ended` needs
  both to be finished.

### `CcTimeseries.tla` (`produce_aggr_ts.py:262-302`, `cc_hlp.py:26-313`, `helper.py:144-167`, `process_results.py:79-89`)

* A row of `cc_trace.str` keeps its timestamp, its event, the host that
  logged it (`local_addr`) and the value of each treated variable. Two
  variables stand for the columns past index 3 of `cc_cols_hybrid`:
  `budget_bytes` and `global_budget_bytes`, one without and one with
  "global" in its name. The event `"snd"` stands for every event other
  than `"pol"`.
* `Init` is the dispatch of `process_results.py:86-89`: the task exists
  only when the scheme's name contains `"hybrid"`. Only `"micro-hybrid"`
  reads the rows, so a single empty trace stands for the others.
* `AggrCcDataTs` is `process_load_lvl`. `LoadCcData` is `load_cc_data`
  with `MeasureWindow` (`calc_measurment_start_stop` with window 1.0) and
  `TrimByTimestamp`. `ProcessEletData` runs `BasicVariableTreatment` per
  variable: it keeps the poll rows, walks `host_addr` in order, skips a
  host without rows, and returns at the first host with rows for a global
  variable, under the key `"global"`. When the run's scheme is not
  `micro-hybrid`, `cols` falls back to `cc_cols_micro`, which has none of
  the variables, and the first lookup raises `KeyError` (`"crashed"`).
* `OutputResultsTasks` is the CC subpool: one `output_results_task` per
  (variable, host), writing `<var>/load_<load>/host_<host>/<var>.csv`.
  With at most four tasks they form one batch of 20.

### `ProcessResults.tla` (`process_results.py:14-89`, `produce_aggr_ts.py:96-104`)

* `kind` is the marker file of the directory: dcPIM, OMNeT++ or ns-2.
  `DirInit` gives each kind the tasks `extract_all_results` submits for
  it. The variables of a task the directory does not get hold `"none"` or
  empty values, so that task's properties hold vacuously.
* It `EXTENDS DcpimResults` for the two dcPIM tasks, and instances
  `OmnetQueues` as `O`, `SlowdownBins` as `S` and `CcTimeseries` as `C`,
  each with its variables renamed.
* One action per task: `DcpimQueueTask`, `DcpimAppTask`,
  `OmnetQueueTask`, `OmnetQtsTask`, `AggrAppDataTs`, `CcTask` and
  `CcSubpool`. Each leaves the other tasks' variables unchanged.
  `AggrAppDataTs` raises "not implemented for OMNET" on an OMNeT++
  directory before reading anything. Otherwise it is `SlowdownBins`.
* `DirSpec` has `WF` on every task. The pool runs each batch it is given
  (`worker_manager` shows this), and an exception ends only its own
  process.

### MC modules

* `MC_RunMany` has three files in one directory (distinct log names).
* `MC_WorkerManager` has two initial batches, `b1` and `b2`. `b1` spawns
  `s1`, which spawns `s2`, so a sub-batch is added by a sub-batch.
* `MC_RunManyRecursive` has three files found with `-r`, two of them with the
  same basename.
* `MC_TopologyPipeline` gives the model values `NoTor` (the unbound
  `this_tor`) and `AnyServerPrefix`. It also gives two sets of attribute
  orders:
  * `MC_TorFirst`: every order that starts with `tor`;
  * `MC_AnyOrder`: these, plus orders with `tor` after `client` or
    `server`.
* `MC_MacTables` gives the scaled bases. `MC_Bases` are the code's two bases
  (`0x0AAA000000A3`, `0x0AAA00AAAAA3`). `MC_EdgeBases` are a base with two
  leading zero nibbles and one just below the top of the width.
* `MC_ThreadDecl` defines three sets of lines:
  * `MC_WellFormed`: declarations with either quote, with blanks around `=`,
    with `08`, plus another variable, an unquoted `$n` and empty quotes;
  * `MC_Loose`: adds a commented-out line, a `my_` prefix and mixed quotes;
  * `MC_Zero`: adds `'0'`.
* `MC_SlowdownBins` only extends `SlowdownBins`.
* `MC_DcpimResults` gives two links: tor 0 to aggr 0 and tor 0 to host 0
  (the two share destination id 0). Sizes are scaled: 1 stands for a packet and 2 for
  the incast size. The size groups mirror `(0, PKT)`, `(0, 99999999999)` and
  `(PKT, 99999999999)`.
* `MC_OmnetQueues`: two agg switches of two servers each, one spine. The
  sampled interfaces are agg 0's port 1 (server 1), agg 1's port 0
  (server 2), agg 1's port 2 (the uplink to spine 0), spine 0's port 1
  (agg 1) and server 3's port. Agg 1's port to server 2 and its uplink
  both end in id 2.
* `MC_CcTimeseries`: hosts `<<0, 1>>`, the two variables, and traces of up
  to two rows at time 1 (inside the window `[1, 2]`) or 3 (past it).
* `MC_ProcessResults` extends `MC_DcpimResults` and adds the interfaces of
  `MC_OmnetQueues` and the CC hosts and variables of `MC_CcTimeseries`.
* `MC_DcpimQueues` gives five links: host 0 to tor 0, aggr 0 to tor 0, tor 0
  to aggr 0, tor 0 to host 0, and tor 0 to host 1. The two links from tor 0
  to an id 0 share a key.

## 4. Runs

| Run | Module / cfg | Expect | What it shows |
|---|---|---|---|
| `run_many` | `MC_RunMany` / `MC_RunMany.cfg` | pass | The scheduler's safety, first fit, report, termination and refinement. |
| `run_many_recursive_logs` | `MC_RunManyRecursive` / `MC_RunManyRecursive.cfg` | violation | With `-r`, two jobs with the same basename write the same log. |
| `worker_manager` | `MC_WorkerManager` / `MC_WorkerManager.cfg` | pass | With 2 slots and a prompt mover: rounds stay within the slots, every batch runs, and the program ends. |
| `topology_pipeline` | `MC_TopologyPipeline` / `MC_TopologyPipeline.cfg` | pass | Clients and servers are filed under their own tor. Clients are placed one-to-one on servers of their tor. One complete `targetServers` list remains. |
| `topology_targets_not_servers` | `MC_TopologyPipeline` / `MC_TopologyTargets.cfg` | violation | `targetServers` names the physical servers of client-only hosts. |
| `mac_tables` | `MC_MacTables` / `MC_MacTables.cfg` | pass | Every MAC round-trips. The agg and spine tables agree on one MAC per host and on its ports. |
| `thread_decl` | `MC_ThreadDecl` / `MC_ThreadDecl.cfg` | pass | On well-formed files, the first declaration's count is read, and a file without one is rejected. |
| `process_results` | `MC_ProcessResults` / `MC_ProcessResults.cfg` | pass | The tasks of a dcPIM, an OMNeT++ and an ns-2 directory, in any order: dcPIM queue series and `app.csv` describe the trace; OMNeT++ `q_link.csv` rows and `qts` files are one active interface each, and no assert trips on a real topology; `slowdown.csv` is sorted and counts no request twice; each CC file is one host's in-window poll samples. |
| `slowdown_bins_merged` | `MC_SlowdownBins` / `MC_SlowdownBinsMerged.cfg` | violation | Bins with equal median size overwrite each other, and requests vanish from the report. |
| `queue_link_collision` | `MC_ProcessResults` / `MC_ProcessResultsCollision.cfg` | violation | In the dcPIM and the OMNeT++ queue tasks alike, two links of one origin share a key, and one of them is missing from the origin's summed queue. |
| `thread_decl_zero` | `MC_ThreadDecl` / `MC_ThreadDeclZero.cfg` | violation | `max_threads='0'` is accepted. |
| `dcpim_trace_start` | `MC_DcpimResults` / `MC_DcpimResultsFirstFlow.cfg` | violation | The trace interval starts from the first-completed flow's start, not from the first injection. |

More configurations reproduce the other findings below. TLC finds each one
violated, but they are not among the runs listed in `PROJECT.json`:

| cfg (module) | Property violated | What it shows |
|---|---|---|
| `MC_WorkerManagerOneCpu.cfg` (`MC_WorkerManager`) | `AllTasksRun` | `int(cpu_count()/2) = 0` on one CPU: nothing runs, and `run_loop` returns after 3 s. |
| `MC_WorkerManagerLaggingMover.cfg` (`MC_WorkerManager`) | `AllTasksRun` | A mover delayed for 3 s loses a sub-batch: it reaches `TASK_QUEUE` after the last poll. |
| `MC_TopologyStaleTor.cfg` (`MC_TopologyPipeline`) | `RolesFiledUnderOwnTor` | A `client`/`server` attribute before `tor` is filed under the previous host's tor. |
| `MC_TopologyTorOverflow.cfg` (`MC_TopologyPipeline`) | `ActiveClientsPlaced` | More clients in a tor than `HOSTS_PER_TOR` land on the next tor's servers. |
| `MC_MacTablesEdge.cfg` (`MC_MacTables`) | `AllTablesWritten` | `hex_to_string` is not total: a base with two leading zero nibbles stops the program with the tables half written. |
| `MC_ThreadDeclLoose.cfg` (`MC_ThreadDecl`) | `ExtractsFirstDeclaration` | A commented-out line, a `my_` prefix or mixed quotes count as the declaration. |
| `MC_DcpimQueuesMerged.cfg` (`MC_DcpimQueues`) | `OriginSumCoversLinks` | The dcPIM collision alone: tor 0's links to host 0 and to aggr 0 share the key `tor_0_0`. |
| `MC_OmnetQueuesCollision.cfg` (`MC_OmnetQueues`) | `OriginSumCoversIfaces` | The OMNeT++ collision alone: agg 1's link to server 2 and its uplink to spine 0 share the key `tor_1_2`; the later one replaces the earlier in `q_link.csv` and in tor 1's summed queue. |
| `MC_OmnetQueuesEnds.cfg` (`MC_OmnetQueues`) | `EndsAreNeighbours` | A tor's uplink is named by its port number, not by the spine behind it. |

Some configurations check one component alone, with larger inputs than
the composed run can afford, and pass:

| cfg (module) | Properties | Distinct states |
|---|---|---|
| `MC_DcpimQueues.cfg` (`MC_DcpimQueues`) | `SeriesAreLinks`, over five links and a chosen window | 12,288 |
| `MC_DcpimResults.cfg` (`MC_DcpimResults`) | the four dcPIM properties | 382,976 |
| `MC_SlowdownBins.cfg` (`MC_SlowdownBins`) | `SizesAscending`, `NoSampleCountedTwice`, with up to 4 requests, slowdowns {1, 2} and `MaxBinCount = 3` | 11,846 |
| `MC_OmnetQueues.cfg` (`MC_OmnetQueues`) | `LinksAreInterfaces`, `AssertsAcceptTopology`, `QtsFilePerInterface` | 131,072 |
| `MC_CcTimeseries.cfg` (`MC_CcTimeseries`) | `CcSeriesFaithful`, with values {0, 1} for each variable | 3,174 |

Details of `run_many`:

* Bounds: 3 files and `total_threads = 4`.
* Each `max_threads` is one of 1-5 or missing, so 6^3 = 216 configurations.
  These cover:
  * jobs that fit together and jobs that do not;
  * a job of exactly the budget (the `<=` edge);
  * a job above it and a file without a declaration (both validation
    failures);
  * spec scenario A (2, 2, 3).
* Exit codes are {0, 1}. `LaunchCanFail = TRUE` covers a raise at any
  position of a scan.
* TLC finds 16,070 distinct states.

Three jobs are enough to see the interesting cases:

* a later job fitting where an earlier one did not (first fit);
* a job that becomes runnable only after two others free their threads;
* exits falling between any two loop steps.

Properties:

* `CapacityNeverExceeded`: every live process is in `running_jobs`, and
  `running_jobs` uses at most `total_threads`.
* `NoJobLostOrDuplicated`: after validation each job is in exactly one of
  pending / running / `exit_codes`, and a recorded code is the process's
  real code.
* `FirstFitMaximal`: after a scan, no pending job fits in what is left.
* `ReportFaithful`: `main_log.txt` has every job's real code and the right
  verdict.
* `Terminates`: `main()` stops, if every job process exits.
* `ImplementsJobBatch`: refinement of `JobBatch`. It gives lifecycle order,
  and the budget over the processes really started.

Fairness: `WF` on `main()`'s loop, which never blocks except in `sleep`.
`WF` on each job's exit is the assumption of spec section 8 ("every job's
execution eventually exits"). The code has no timeout, so a hung job keeps
the batch waiting forever.

Each property of the pass run has a mutant: a plausible slip in the code
that TLC must catch.

| Property | Mutant |
|---|---|
| `CapacityNeverExceeded` | `available` not decremented |
| `NoJobLostOrDuplicated` | `pending_jobs.remove` dropped |
| `FirstFitMaximal` | scan stops at the first job that does not fit |
| `ReportFaithful` | `while pending_jobs:` |
| `Terminates` | `<` for `<=` |
| `ImplementsJobBatch` | `running_jobs` overwritten instead of extended |

Details of `worker_manager`:

* Bounds: `HW = 2`, `Tries = 3`, `GetTimeout = 15`, `MaxBatchSecs = 16`.
  TLC finds 4,981 distinct states.
* Properties:
  * `AllTasksRun`: at exit every batch has run.
  * `Terminates`: the program ends, although the mover keeps adding `Empty`
    batches that reset `tries`.
* Fairness:
  * `WF` on the main process, each mover and `Tick` (the processes are
    never blocked except where the model shows it, and time advances).
  * `WF` on each batch process: its tasks end. A task that hangs would
    hang `p.join()` forever.
* Mutants:

| Property | Mutant |
|---|---|
| `TypeOK` | `while tries >= 0` |
| `AllTasksRun` | processes not joined |
| `Terminates` | `tries -= 1` dropped |

Findings:

* One CPU: `process_results.py:116` passes `int(cpu_count()/2)`. That is 0
  on one CPU, and the assert at line 85 only rejects negative values.
* Lagging mover: `run_loop` ends on three empty polls of `TASK_QUEUE` alone,
  1 s apart (line 88). `TMP_TASK_QUEUE` and the batch the mover holds are
  never consulted. So a sub-batch is lost whenever the mover process is
  descheduled for about 3 s. This is plausible, since the machine is loaded
  with `HW` CPU-bound batch processes.

Details of `topology_pipeline`:

* Bounds:
  * 3 hosts;
  * `tor` values {0, 1, 2} against `num_tors = 2`, so manual placement can
    be rejected;
  * every attribute order that starts with `tor` and includes any subset of
    `client` and `server`;
  * both placements, and valid or invalid keys;
  * the descriptor is 2 tors of 3 hosts.
  TLC finds 31,375 distinct states.
* The bounds reach:
  * tors with several clients and several servers;
  * hosts that are both a client and a server;
  * empty tors;
  * tor 2 with no physical servers, where the assert fails.
* Properties:
  * `RolesFiledUnderOwnTor`: each `tor_<t>_clients`/`servers` line lists
    exactly the hosts of tor t with that role, in host order.
  * `ActiveClientsPlaced`: in both Config sections, `logicalIdx` maps
    physical servers one-to-one onto the clients, each on its own tor, and
    `activeClient` is set on exactly those.
  * `TargetServersComplete`: one `targetServers` entry remains. It holds one
    physical server per server, in the server's tor.
* Mutants:

| Property | Mutant |
|---|---|
| `TypeOK` | the assert of `derive_host_index` dropped |
| `RolesFiledUnderOwnTor` | `this_tor` only set by the first `tor` met |
| `ActiveClientsPlaced` | `hosts_placed` not incremented |
| `TargetServersComplete` | `remove_duplicates` does nothing |

Details of `mac_tables`:

* Bounds:
  * 0-3 hosts per agg, 1-3 aggs, 1-2 spines;
  * the code's two bases.
  TLC finds 186 distinct states.
* With 0 hosts, the run reaches the `UnboundLocalError` path.
* Properties:
  * `MacTablesConsistent`: when every table is written, each table has
    `agg*hosts` distinct MACs, all tables have the same set, an agg reaches
    each MAC on one host port or on all uplinks, and the spines agree with
    the aggs about which agg has which host.
* Mutants:

| Property | Mutant |
|---|---|
| `TypeOK` | switch ids counted from 1 |
| `MacTablesConsistent` | `current_mac += 1` dropped |

Findings of this part:

* `topology_parser.py:39`: `this_tor` is set by the `tor` attribute and
  never reset. A host whose `client` or `server` key precedes `tor` in the
  YAML is filed under the previous host's tor. For the first host, the
  result is a `NameError`.
* `tcl_to_ini.py:156`: the assert only bounds the global index. A tor with
  more clients than `HOSTS_PER_TOR` spills onto the next tor's servers.
* `tcl_to_ini.py:184`: `set_targets` numbers servers among servers only,
  and clients among clients only. So when a tor's clients and servers are
  different hosts, `targetServers` names hosts that carry clients.

A remark, not a finding: `hex_to_string` (`generate.py:16`) pads at most
one zero, so a base with two leading zero nibbles would fail its assert.
The code's two hardwired bases have exactly one, so it never fires.

Details of `thread_decl`:

* Bounds: files of up to 3 lines over the 6 lines of `MC_WellFormed`, and
  `total_threads = 4`. TLC finds 518 distinct states. The bounds cover a
  file with two declarations, one without any, one above the budget and one
  at it.
* `ExtractsFirstDeclaration`: the count read is the count of the file's
  first declaration as spec 4.1 defines it, and it is `Missing` exactly when
  there is none. Mutant: the loop keeps reading, and the last match wins.
* `thread_decl_zero` (`MC_ThreadDeclZero.cfg`) checks `AcceptedJobIsValid`: an accepted job needs 1 to
  `total_threads` threads (spec 3). `'0'` matches `\d+`, and line 99 only
  rejects `req > total_threads`.

Details of `process_results`:

* Bounds: one directory of each kind, chosen in `DirInit`.
  * dcPIM: 2 links (tor 0 to aggr 0 and to host 0, sharing destination
    id 0), 3 periods, queue lengths {0, 1}; up to 2 flows with every start
    before its finish, size in {1, 2} and slowdown in {1, 2}; the last line
    a flow, a sample or `##`; ratios 0 and 1/2; both incast sizes;
    `MinGroupMsgs = 1`, which stands for 100 (with two flows at most one
    completes inside the interval, so a larger threshold would skip every
    group).
  * OMNeT++: the five interfaces of `MC_OmnetQueues`, two samples per
    vector (one row once the first is dropped), queue lengths {0, 1}, and
    every subset of active interfaces.
  * ns-2 slowdowns: up to 3 requests, sizes {1, 2, 3}, slowdowns {1, 2},
    `RowsPerBin = 1` (for 500), `MaxBinCount = 2` (for 50). Three requests
    in two bins still reach the remainder going to the last bin, the cap
    on the bin count, equal sizes across a bin boundary and an empty
    trace. `MC_SlowdownBins.cfg` checks the same properties with 4
    requests and 3 bins.
  * ns-2 CC: schemes `micro-hybrid`, `other-hybrid` (which crashes) and
    `noop` (no task); up to 2 rows, at time 1 (inside the window `[1, 2]`)
    or 3 (past it), of event `pol` or `snd`, from host 0 or 1, with the
    value 0. `MC_CcTimeseries.cfg` checks the same property with the
    values {0, 1}, so a value read from the wrong column shows.
  TLC finds 926,838 distinct states in about 70 seconds. The ns-2 tasks
  are an interleaved product of two input spaces, which is what limits
  the bounds.
* The bounds reach:
  * both dcPIM crashes, skipped and reported groups, flows that start
    before the interval and finish inside it, a dropped last flow or last
    sample, and the two links of tor 0 that share destination id 0;
  * an idle OMNeT++ interface, two active interfaces of one origin with the
    same end id (agg 1's port to server 2 and its uplink to spine 0), and
    an origin with a single link;
  * a CC trace with rows of one host only (so a global variable comes from
    host 1), samples outside the window, non-poll rows, and the
    `KeyError` of a scheme other than `micro-hybrid`.
* Properties:
  * `SeriesAreLinks` (`DcpimQueues`): each series in `orig_to_data` is
    exactly one link's samples from that origin to that destination id,
    within the window. The last link's last sample is missing when the file
    ends with it.
  * `AppCountsTrace`: `msgs_initiated` and `msgs_completed`, and the sent
    and received bytes, are those of the flows read that start or finish
    in the interval.
  * `GroupStatsFaithful`: the row has the header's groups, in order. Group
    `(a, b)` is `-1` exactly when fewer than `MinGroupMsgs` non-incast flows
    of size in `[a, b)` completed in the interval, and is otherwise their
    slowdowns.
  * `GoodputDivisorPositive`: a row is written only when
    `sim_end - trace_start`, the divisor of both goodputs, is positive.
    Nothing in the code checks it. With a ratio below 1 the divisor is 0
    exactly when the first completed flow has the latest start. Every flow
    then finishes after that start, so no completion falls in the interval
    and the `IndexError` at line 264 fires before the division. The bounds
    reach that case.
  * `LinksAreInterfaces`: every `q_link.csv` row is the queue series of an
    active interface of its origin, after the first sample. A downward port
    (agg to server, spine to agg) is named by the node behind it.
  * `AssertsAcceptTopology`: on the interfaces of a network of the shape
    `generate.py` describes, neither OMNeT++ queue task ends in an
    `AssertionError`. (A liveness form, `<>(pc = "done")`, says the same
    thing; TLC checks it only very slowly on this many initial states, so
    the invariant is checked instead.)
  * `QtsFilePerInterface`: the `qts` task leaves as many files as there
    are active interfaces, and each interface's queue series is in one of
    them. The `qts` name has the end's area, which separates agg 1's port
    to server 2 from its uplink to spine 0, the two links `q_link.csv`
    confuses.
  * `SizesAscending`: the rows of `slowdown.csv` are in increasing size.
  * `NoSampleCountedTwice`: no request is in two rows (bag inclusion).
  * `CcSeriesFaithful`: every CC file is the series of its variable at one
    host: that host's poll samples inside the window, in trace order.
    Every host that sampled has a file for each per-host variable, and a
    global variable has one file exactly when some host sampled.
* Mutants:

| Property | Mutant |
|---|---|
| `SeriesAreLinks` | the destination-type filter of `RelevantView` dropped |
| `AppCountsTrace` | the event column set on the odd copies |
| `GroupStatsFaithful` | the cutoff taken inclusively |
| `GoodputDivisorPositive` | `print(data_rec[0])` guarded, so an empty interval no longer raises (`NothingToReport` without its `rec` test) |
| `LinksAreInterfaces` | a tor's host port numbered by the port alone |
| `AssertsAcceptTopology` | an aggr's port checked against `numSpines`, the count the assert's message prints |
| `QtsFilePerInterface` | the `qts` file named without the end's area |
| `SizesAscending` | neither `calculate_slowdown` nor `get_slowdown_vs_size` sorts (`SortedBySize` is used by both) |
| `NoSampleCountedTwice` | `bin_end` one too far |
| `CcSeriesFaithful` | the poll filter of `basic_variable_treatment` dropped |

* The fairness is `WF` on each task: the pool runs every batch it was
  given (see `worker_manager`), and an exception ends only its own
  process.
* `slowdown_bins_merged` checks `EverySampleReported`, which says every
  request is in some row. Two bins with the same median are one dict key, so
  the later bin replaces the earlier.
* `queue_link_collision` checks `QueueSumsCoverLinks` under the same
  constants: the queue reported for an origin is the sum over all its
  links, for the dcPIM task (`OriginSumCoversLinks`) and for the OMNeT++
  task (`OriginSumCoversIfaces`). TLC reports the first violation it
  meets, which may be either one; `MC_DcpimQueuesMerged.cfg` and
  `MC_OmnetQueuesCollision.cfg` show each task alone.
  `MC_DcpimQueues.cfg` also reaches the broadcast of a one-sample series
  onto a longer sum, with a file ending in a sample.

Findings of the statistics and `ThreadDecl`:

* `run_many.py:99`: `max_threads='0'` is accepted, although spec 3 requires
  more than zero threads.
* `run_many.py:22` (`MC_ThreadDeclLoose.cfg`): `re.search` accepts a
  commented-out declaration, a longer key or mixed quotes, and the first
  such line wins.
* `app_hlp.py:182`: the bins' statistics are keyed by median size, so bins
  with equal medians merge and requests are lost from `slowdown.csv`.
* `dcpim_helper.py:98` (`dcpim_trace_start`): `sim_start` is
  the start of the first flow line, the first flow to complete. Flow 0's
  start is computed into `s_time` and never used. The trace interval of
  both tasks therefore starts later than the ratio says whenever an early
  flow completes late.
* `produce_aggr.py:264`: the app task raises `IndexError` when no
  completion falls in the interval, leaving `app.csv` with a header and no
  row. `produce_aggr.py:249` divides by `sim_end - trace_start`;
  `GoodputDivisorPositive` shows that this crash is exactly what keeps the
  divisor from being 0 in a written row, so a fix of the crash must also
  handle the empty interval.
* `produce_aggr.py:630` (`queue_link_collision`; `MC_OmnetQueuesCollision.cfg` alone): the OMNeT++
  path has the same kind of collision. `get_dst_and_dst_area_omnet` names a
  tor's uplink by its port number `hosts + s`. Agg 1's link to server
  `hosts + s` and its uplink to spine `s` therefore get the same key. The
  later interface in the header replaces the earlier one, in `q_link.csv`
  and in tor 1's sum. In `generate.py`'s configuration (16 hosts per agg, 1
  spine) this hits agg 1's ports 0 and 16.
* `omnet_helper.py:190` (`MC_OmnetQueuesEnds.cfg`): uplinks are named by
  port number. The comment says "ideally, we want logical address, not
  physical". A server's link is named tor `int(0 / numServers) = 0` for
  every server.
* `dcpim_helper.py:181` (`queue_link_collision`; `MC_DcpimQueuesMerged.cfg`
  alone): a link's key has no destination type. With ids
  numbered per node type, a tor's links to host k and to aggr k collide, and
  the second is dropped from the per-link and per-origin statistics.

Observations that no run checks:

* `produce_aggr_ts.py:210`: the comment says the OMNeT++ `qts` loop "only
  writes aggr and tor data (no host)". The loop writes a file for every
  active interface, servers included (`origin_area = "host"`); the model
  follows the code.
* `cc_hlp.py:219`: `process_results.py:88` submits the CC task for any
  scheme whose name contains "hybrid", and `aggr_cc_data_ts` loads the
  trace with the `micro-hybrid` layout, but `basic_variable_treatment`
  looks the columns up with the run's own scheme. For any other hybrid
  scheme `cols` falls back to `cc_cols_micro`, and the first variable
  raises `KeyError`. `CcTimeseries` reaches this crash (`other-hybrid`).
  No property is stated for it, because `micro-hybrid` is the only scheme
  this repository names.

## 5. Not modelled

* File discovery (`os.walk`/`listdir`), argument parsing, and the checks on
  the working directory and the `run` executable. These are pure I/O before
  any state the loop uses. Their outcome is the constant `sh_files` (and
  `LogName`).
* The content of job output and the summary's formatting. Only which job's
  output lands in which file is kept.
* Two concurrent `run_many.py` invocations. `os.makedirs(run_subdir)` at line
  82 raises if both start in the same second on directories with the same
  basename. Only one invocation is modelled.
* The rest of the statistics and the plots: percentiles, goodput values,
  per-message slowdown, histograms, the ns-2 queue loader (the ns-2
  `aggr_q_data` and `aggr_q_data_ts` tasks), the dcPIM `aggr_q_data_ts`
  task (plots only), and the ns-2 and OMNeT++ app paths. The ns-2 queue loader takes its area and file
  names from `qmon` directories that ns-2 scripts outside this repository
  write. These are floating-point array computations and file I/O, and
  their control is a loop over files or a single formula. The ns-2 and
  OMNeT++ app paths run the same size-group loop as the dcPIM path, which
  is modelled (`DcpimApp`), over data the loaders read.
* In `tcl_to_ini.py`:
  * the `ptm` entries other than the app counts, which are one-line renames
    with no control flow;
  * `set_network` (only for `oversub_topo`);
  * the text formatting of `def_ini_param`;
  * `write_ini_file`.
* `generate.py`'s `read()`, a debugging reader for a generated file.
