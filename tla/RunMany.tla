------------------------------ MODULE RunMany ------------------------------
(***************************************************************************)
(* The thread-budget batch scheduler of scripts/r2p2/coord/run_many.py.    *)
(*                                                                         *)
(* main() validates every .sh file's max_threads, then runs one            *)
(* single-threaded polling loop: collect the jobs whose process has        *)
(* exited, recompute the free threads, launch every pending job that fits  *)
(* (first fit, in discovery order), sleep, repeat until nothing is pending *)
(* or running, and finally write main_log.txt.  The launched processes     *)
(* run concurrently with the loop: their exits are environment steps that  *)
(* interleave with every step of the loop.                                 *)
(***************************************************************************)
EXTENDS Integers, Sequences, SequencesExt, Functions

CONSTANTS
  sh_files,       \* the .sh files in discovery order (distinct model values)
  total_threads,  \* --threads
  ReqChoices,     \* the max_threads values a file may declare
  NoDecl,         \* a file without a max_threads line
  NoCode,         \* no exit code (model value)
  ExitCodes,      \* the exit codes a job process may return
  LogName,        \* [job -> name of its log file]: basename(sh_file) + ".txt"
  LaunchCanFail   \* whether open()/Popen() may raise (LaunchError)

Jobs == ToSet(sh_files)

ASSUME /\ sh_files # <<>>
       /\ IsInjective(sh_files)
       /\ total_threads \in Int
       /\ ReqChoices \subseteq Nat
       /\ NoDecl \notin Nat
       /\ ExitCodes \subseteq Int
       /\ NoCode \notin Int
       /\ 0 \in ExitCodes
       /\ DOMAIN LogName = Jobs
       /\ LaunchCanFail \in BOOLEAN

VARIABLES
  req,            \* max_threads read from each file (fixed by Init)
  pc,             \* where main() is
  pending_jobs,   \* pending_jobs list
  running_jobs,   \* running_jobs list
  exit_codes,     \* exit_codes dict: job -> code, or NoCode
  proc,           \* each job's OS process: "none", "alive" or "exited"
  returncode,     \* the code an exited process returned
  log_open,       \* jobs whose log_file handle main() holds open
  logs,           \* log file name -> the jobs whose output it contains
  summary         \* main_log.txt: NoCode until written

vars == <<req, pc, pending_jobs, running_jobs, exit_codes, proc, returncode,
          log_open, logs, summary>>

Terminal == {"done", "aborted", "crashed"}

(***************************************************************************)
(* Threads accounted to a list of jobs: sum(job["required_threads"] for    *)
(* job in running_jobs).  Summed over the list, so a job listed twice is   *)
(* counted twice, as in the code.                                          *)
(***************************************************************************)
Used(list) == FoldLeft(LAMBDA acc, j : acc + req[j], 0, list)

(***************************************************************************)
(* The launch scan over pending_jobs_copy: a job is launched iff its       *)
(* required_threads <= available, and available then drops by it; the     *)
(* scan never stops early.  Result: the launched jobs in launch order.     *)
(***************************************************************************)
(* Fault variants of the scan: `available` not decremented, `<` for     *)
(* `<=`, and a scan that stops at the first job that does not fit.        *)
RECURSIVE FirstFitNoDecrement(_, _)
FirstFitNoDecrement(list, available) ==
  IF list = <<>> THEN <<>>
  ELSE IF req[Head(list)] <= available
       THEN <<Head(list)>> \o FirstFitNoDecrement(Tail(list), available)
       ELSE FirstFitNoDecrement(Tail(list), available)

RECURSIVE FirstFitStrict(_, _)
FirstFitStrict(list, available) ==
  IF list = <<>> THEN <<>>
  ELSE IF req[Head(list)] < available
       THEN <<Head(list)>> \o FirstFitStrict(Tail(list),
                                             available - req[Head(list)])
       ELSE FirstFitStrict(Tail(list), available)

RECURSIVE FirstFitStopEarly(_, _)
FirstFitStopEarly(list, available) ==
  IF list = <<>> \/ req[Head(list)] > available THEN <<>>
  ELSE <<Head(list)>> \o FirstFitStopEarly(Tail(list),
                                           available - req[Head(list)])

RECURSIVE FirstFit(_, _)
FirstFit(list, available) ==
  IF list = <<>> THEN <<>>
  ELSE LET j == Head(list) IN
       IF req[j] <= available
       THEN <<j>> \o FirstFit(Tail(list), available - req[j])
       ELSE FirstFit(Tail(list), available)

Available == total_threads - Used(running_jobs)

-----------------------------------------------------------------------------
Init ==
  /\ req \in [Jobs -> ReqChoices \cup {NoDecl}]
  /\ pc = "validate"
  /\ pending_jobs = <<>>
  /\ running_jobs = <<>>
  /\ exit_codes = [j \in Jobs |-> NoCode]
  /\ proc = [j \in Jobs |-> "none"]
  /\ returncode = [j \in Jobs |-> NoCode]
  /\ log_open = {}
  /\ logs = [n \in Range(LogName) |-> {}]
  /\ summary = NoCode

(***************************************************************************)
(* Building pending_jobs: get_required_threads raises when no max_threads  *)
(* line matches, and a job needing more than total_threads raises; either  *)
(* exception ends main() with sys.exit(1) before anything is launched.     *)
(***************************************************************************)
Validate ==
  /\ pc = "validate"
  /\ IF \A j \in Jobs : req[j] # NoDecl /\ req[j] <= total_threads
     THEN /\ pending_jobs' = sh_files
          /\ pc' = "test"
     ELSE /\ pc' = "aborted"
          /\ UNCHANGED pending_jobs
  /\ UNCHANGED <<req, running_jobs, exit_codes, proc, returncode, log_open,
                 logs, summary>>

(* Fault variant: `while pending_jobs:` *)
LoopTestPendingOnly ==
  /\ pc = "test"
  /\ pc' = IF pending_jobs # <<>> THEN "collect" ELSE "report"
  /\ UNCHANGED <<req, pending_jobs, running_jobs, exit_codes, proc,
                 returncode, log_open, logs, summary>>

(* while pending_jobs or running_jobs *)
LoopTest ==
  /\ pc = "test"
  /\ pc' = IF pending_jobs # <<>> \/ running_jobs # <<>>
           THEN "collect" ELSE "report"
  /\ UNCHANGED <<req, pending_jobs, running_jobs, exit_codes, proc,
                 returncode, log_open, logs, summary>>

(***************************************************************************)
(* Poll every running job; for each exited one record its returncode,      *)
(* close its log file, and remove it from running_jobs.                    *)
(***************************************************************************)
Collect ==
  LET finished == {j \in Range(running_jobs) : proc[j] = "exited"}
  IN /\ pc = "collect"
     /\ exit_codes' = [j \in Jobs |-> IF j \in finished THEN returncode[j]
                                                          ELSE exit_codes[j]]
     /\ log_open' = log_open \ finished
     /\ running_jobs' = SelectSeq(running_jobs, LAMBDA j : j \notin finished)
     /\ pc' = "admit"
     /\ UNCHANGED <<req, pending_jobs, proc, returncode, logs, summary>>

(***************************************************************************)
(* Launch the jobs in list `launched`: open its log with "w" (truncating   *)
(* whatever another job wrote there), Popen, append to running_jobs and    *)
(* remove from pending_jobs.                                               *)
(***************************************************************************)
LaunchAppendList(launched) ==     \* fault variant: running_jobs.append(list)
  LET L == Range(launched) IN
  /\ running_jobs' = Append(running_jobs, launched)
  /\ pending_jobs' = SelectSeq(pending_jobs, LAMBDA j : j \notin L)
  /\ proc' = [j \in Jobs |-> IF j \in L THEN "alive" ELSE proc[j]]
  /\ log_open' = log_open \cup L
  /\ logs' = [n \in DOMAIN logs |->
                IF \E j \in L : LogName[j] = n
                THEN {j \in L : LogName[j] = n} ELSE logs[n]]

LaunchKeepPending(launched) ==    \* fault variant: no pending_jobs.remove
  LET L == Range(launched) IN
  /\ running_jobs' = running_jobs \o launched
  /\ UNCHANGED pending_jobs
  /\ proc' = [j \in Jobs |-> IF j \in L THEN "alive" ELSE proc[j]]
  /\ log_open' = log_open \cup L
  /\ logs' = [n \in DOMAIN logs |->
                IF \E j \in L : LogName[j] = n
                THEN {j \in L : LogName[j] = n} ELSE logs[n]]

LaunchOverwrite(launched) ==      \* fault variant: running_jobs = launched
  LET L == Range(launched) IN
  /\ running_jobs' = launched
  /\ pending_jobs' = SelectSeq(pending_jobs, LAMBDA j : j \notin L)
  /\ proc' = [j \in Jobs |-> IF j \in L THEN "alive" ELSE proc[j]]
  /\ log_open' = log_open \cup L
  /\ logs' = [n \in DOMAIN logs |->
                IF \E j \in L : LogName[j] = n
                THEN {j \in L : LogName[j] = n} ELSE logs[n]]

(* The jobs of `started` launched; `opened` are those whose log file      *)
(* open(log_filepath, "w") created or truncated.                           *)
StartJobs(started, opened) ==
  LET L == Range(started) IN
  /\ running_jobs' = running_jobs \o started
  /\ pending_jobs' = SelectSeq(pending_jobs, LAMBDA j : j \notin L)
  /\ proc' = [j \in Jobs |-> IF j \in L THEN "alive" ELSE proc[j]]
  /\ log_open' = log_open \cup opened
  /\ logs' = [n \in DOMAIN logs |->
                IF \E j \in opened : LogName[j] = n
                THEN {j \in L : LogName[j] = n} ELSE logs[n]]

Launch(launched) == StartJobs(launched, Range(launched))

(* The launch scan, then time.sleep(5). *)
Admit ==
  /\ pc = "admit"
  /\ Launch(FirstFit(pending_jobs, Available))
  /\ pc' = "sleep"
  /\ UNCHANGED <<req, exit_codes, returncode, summary>>

(***************************************************************************)
(* open() or Popen() raises for the k-th job of the scan: the jobs before  *)
(* it are already running, the exception is not caught and main() dies,   *)
(* leaving their processes running unsupervised.  When Popen() raises,     *)
(* the k-th job's log was already opened with "w", and so truncated.       *)
(***************************************************************************)
AdmitFails ==
  LET launched == FirstFit(pending_jobs, Available) IN
  /\ LaunchCanFail
  /\ pc = "admit"
  /\ \E k \in 1..Len(launched), popenRaises \in BOOLEAN :
       LET started == SubSeq(launched, 1, k - 1) IN
       StartJobs(started, Range(started) \cup IF popenRaises THEN {launched[k]} ELSE {})
  /\ pc' = "crashed"
  /\ UNCHANGED <<req, exit_codes, returncode, summary>>

Sleep ==
  /\ pc = "sleep"
  /\ pc' = "test"
  /\ UNCHANGED <<req, pending_jobs, running_jobs, exit_codes, proc,
                 returncode, log_open, logs, summary>>

(* main_log.txt: every recorded exit code and the overall verdict. *)
Report ==
  /\ pc = "report"
  /\ summary' = [codes |-> exit_codes,
                 ok    |-> \A j \in Jobs : exit_codes[j] \in {0, NoCode}]
  /\ pc' = "done"
  /\ UNCHANGED <<req, pending_jobs, running_jobs, exit_codes, proc,
                 returncode, log_open, logs>>

(***************************************************************************)
(* A job process ends with some exit code, having written its output to    *)
(* its log file.  It runs independently of main(), even after a crash.    *)
(***************************************************************************)
Exit(j, c) ==
  /\ proc[j] = "alive"
  /\ proc' = [proc EXCEPT ![j] = "exited"]
  /\ returncode' = [returncode EXCEPT ![j] = c]
  /\ logs' = [logs EXCEPT ![LogName[j]] = @ \cup {j}]
  /\ UNCHANGED <<req, pc, pending_jobs, running_jobs, exit_codes, log_open,
                 summary>>

(* main() has returned or exited; nothing of it runs any more. *)
Finished ==
  /\ pc \in Terminal
  /\ UNCHANGED vars

Scheduler == Validate \/ LoopTest \/ Collect \/ Admit \/ AdmitFails
               \/ Sleep \/ Report

Next == Scheduler \/ (\E j \in Jobs, c \in ExitCodes : Exit(j, c)) \/ Finished

(***************************************************************************)
(* main() never blocks except in time.sleep, so its loop is weakly fair.  *)
(* Every job process eventually exits (the assumption under which the     *)
(* batch is meant to terminate; a hung job keeps its threads forever).     *)
(***************************************************************************)
Fairness ==
  /\ WF_vars(Scheduler)
  /\ \A j \in Jobs : WF_vars(\E c \in ExitCodes : Exit(j, c))

Spec == Init /\ [][Next]_vars /\ Fairness

-----------------------------------------------------------------------------
Status == {"none", "alive", "exited"}

TypeOK ==
  /\ req \in [Jobs -> ReqChoices \cup {NoDecl}]
  /\ pc \in {"validate", "test", "collect", "admit", "sleep", "report"}
              \cup Terminal
  /\ pending_jobs \in Seq(Jobs)
  /\ running_jobs \in Seq(Jobs)
  /\ exit_codes \in [Jobs -> ExitCodes \cup {NoCode}]
  /\ proc \in [Jobs -> Status]
  /\ returncode \in [Jobs -> ExitCodes \cup {NoCode}]
  /\ log_open \subseteq Jobs
  /\ logs \in [Range(LogName) -> SUBSET Jobs]
  /\ summary \in {NoCode}
       \cup [codes : [Jobs -> ExitCodes \cup {NoCode}], ok : BOOLEAN]

(***************************************************************************)
(* Capacity: every job process that is alive is in running_jobs, and the  *)
(* threads running_jobs accounts for never exceed total_threads -- across  *)
(* ticks, with processes exiting at any point of the loop, and after a     *)
(* crash of main().  Relies on `available -= required_threads` in the scan *)
(* and on collecting exits before recomputing `available`.                 *)
(***************************************************************************)
CapacityNeverExceeded ==
  /\ {j \in Jobs : proc[j] = "alive"} \subseteq Range(running_jobs)
  /\ Used(running_jobs) <= total_threads

(***************************************************************************)
(* No job lost, none launched twice: once validation passed, every job is  *)
(* exactly once in pending_jobs (never launched), running_jobs (launched,  *)
(* not yet collected) or exit_codes (collected, with the code its process  *)
(* really returned).                                                       *)
(***************************************************************************)
NoJobLostOrDuplicated ==
  pc \notin {"validate", "aborted"} =>
    /\ IsInjective(pending_jobs \o running_jobs)
    /\ \A j \in Jobs :
         \/ j \in Range(pending_jobs) /\ proc[j] = "none"
                                      /\ exit_codes[j] = NoCode
         \/ j \in Range(running_jobs) /\ proc[j] # "none"
                                      /\ exit_codes[j] = NoCode
         \/ /\ j \notin Range(pending_jobs \o running_jobs)
            /\ proc[j] = "exited"
            /\ exit_codes[j] = returncode[j]

(***************************************************************************)
(* First fit: once a tick's launch scan is over, no job left pending would *)
(* have fitted in the threads still free -- the scan does not stop at the  *)
(* first job that does not fit.                                            *)
(***************************************************************************)
FirstFitMaximal ==
  pc = "sleep" => \A j \in Range(pending_jobs) : req[j] > Available

(***************************************************************************)
(* main_log.txt lists, for every job, the code its process exited with,    *)
(* and says "All commands executed successfully" iff all of them are 0.    *)
(***************************************************************************)
ReportFaithful ==
  pc = "done" =>
    /\ summary.codes = returncode
    /\ summary.ok <=> \A j \in Jobs : returncode[j] = 0

(***************************************************************************)
(* When the batch is done, each job's log file holds that job's output and *)
(* no other job's (the log is named after the .sh file's basename and      *)
(* opened with "w").                                                       *)
(***************************************************************************)
LogPerJob ==
  pc = "done" => \A j \in Jobs : logs[LogName[j]] = {j}

(***************************************************************************)
(* Termination: if every job process eventually exits, main() eventually   *)
(* stops (report written, validation failed, or a launch raised).  Needs   *)
(* the loop to free and re-offer capacity to every pending job.            *)
(***************************************************************************)
Terminates == <>(pc \in Terminal)

(***************************************************************************)
(* Refinement: run_many.py implements JobBatch.  A job is pending until    *)
(* its process is started, running until its exit code is collected into  *)
(* exit_codes, then finished; a file without max_threads needs more than   *)
(* the budget.  Checks lifecycle order (no job started twice, finished     *)
(* before it ran, or un-finished) and the budget over the processes        *)
(* really started, whatever running_jobs says.                            *)
(***************************************************************************)
JobStatus(j) ==
  IF proc[j] = "none" THEN "pending"
  ELSE IF exit_codes[j] = NoCode THEN "running" ELSE "finished"

Batch == INSTANCE JobBatch
           WITH Budget <- total_threads,
                status <- [j \in Jobs |-> JobStatus(j)],
                need   <- [j \in Jobs |-> IF req[j] \in Int THEN req[j]
                                          ELSE total_threads + 1]

ImplementsJobBatch == Batch!Spec

====
