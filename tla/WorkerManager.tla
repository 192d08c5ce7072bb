--------------------------- MODULE WorkerManager ---------------------------
(***************************************************************************)
(* The process pool of scripts/r2p2/post-process/worker_manager.py.        *)
(*                                                                         *)
(* Task batches are put on TMP_TASK_QUEUE (by the main process before      *)
(* run_loop, and by batch processes while they run).  A mover copies them  *)
(* to TASK_QUEUE: first the main process itself (task_mover_loop(init=     *)
(* True)), then a mover process.  run_loop takes up to HW_THREADS_AVAILABLE *)
(* batches from TASK_QUEUE, runs each in its own process, joins them all,  *)
(* and repeats; after `tries` empty polls 1 s apart it puts the stopper    *)
(* batch that ends the mover.                                              *)
(*                                                                         *)
(* Time is counted in whole seconds by Tick.  Steps that do not wait are   *)
(* urgent: no time passes while one is enabled.  The mover process is      *)
(* urgent only when MoverPrompt holds; otherwise the OS may delay it.      *)
(***************************************************************************)
EXTENDS Naturals, Sequences, SequencesExt, FiniteSets

CONSTANTS
  HW,            \* num_threads given to run_loop (HW_THREADS_AVAILABLE)
  Initial,       \* batches add_tasks put on TMP_TASK_QUEUE before run_loop
  Spawns,        \* [batch -> batches its tasks add_tasks when it runs]
  Empty,         \* TaskBatch([]) put by the mover on a get timeout
  Stop,          \* the LoopStopper batch [Task(None, None)]
  GetTimeout,    \* TMP_TASK_QUEUE.get(timeout=15)
  Tries,         \* tries = 3
  MaxBatchSecs,  \* bound: a round's batch processes all end within this
  MoverPrompt    \* the mover process is never delayed by the OS

RECURSIVE Reach(_)
Reach(S) == LET T == S \cup UNION {ToSet(Spawns[b]) : b \in S}
            IN IF T = S THEN S ELSE Reach(T)

Batches == Reach(ToSet(Initial))

ASSUME /\ HW \in Nat
       /\ DOMAIN Spawns = Batches
       /\ {Empty, Stop} \cap Batches = {}
       /\ GetTimeout \in Nat \ {0}
       /\ Tries \in Nat \ {0}
       /\ MaxBatchSecs \in Nat
       /\ MoverPrompt \in BOOLEAN

Movers == {"init", "proc"}     \* main in task_mover_loop(init=True); the process

VARIABLES
  tmpq,      \* TMP_TASK_QUEUE
  taskq,     \* TASK_QUEUE
  mpc,       \* where the main process is
  tries,     \* run_loop's tries
  slept,     \* the current time.sleep(1) has elapsed
  round,     \* the batches started in the current round
  child,     \* batch -> "none", "running" or "done"
  elapsed,   \* seconds since the current round started
  mstate,    \* mover -> "idle", "get", "put" or "done"
  mheld,     \* mover -> the batch between its get and its put
  mtimer     \* mover -> seconds left before its get times out

vars == <<tmpq, taskq, mpc, tries, slept, round, child, elapsed, mstate,
          mheld, mtimer>>

-----------------------------------------------------------------------------
Init ==
  /\ tmpq = Initial
  /\ taskq = <<>>
  /\ mpc = "init_mover"
  /\ tries = Tries
  /\ slept = FALSE
  /\ round = <<>>
  /\ child = [b \in Batches |-> "none"]
  /\ elapsed = 0
  /\ mstate = [m \in Movers |-> IF m = "init" THEN "get" ELSE "idle"]
  /\ mheld = [m \in Movers |-> Empty]
  /\ mtimer = [m \in Movers |-> GetTimeout]

(***************************************************************************)
(* task_mover_loop, lines 59-65: get a batch, or Empty when the get times  *)
(* out on an empty queue; the stopper batch ends the loop.                 *)
(***************************************************************************)
MoverGet(m) ==
  /\ mstate[m] = "get"
  /\ \/ /\ tmpq # <<>>
        /\ mheld' = [mheld EXCEPT ![m] = Head(tmpq)]
        /\ tmpq' = Tail(tmpq)
        /\ mstate' = [mstate EXCEPT ![m] =
                        IF Head(tmpq) = Stop THEN "done" ELSE "put"]
     \/ /\ tmpq = <<>>
        /\ mtimer[m] = 0
        /\ mheld' = [mheld EXCEPT ![m] = Empty]
        /\ mstate' = [mstate EXCEPT ![m] = "put"]
        /\ UNCHANGED tmpq
  /\ UNCHANGED <<taskq, mpc, tries, slept, round, child, elapsed, mtimer>>

(* Lines 68-70: put on TASK_QUEUE; with init, return once TMP is empty. *)
MoverPut(m) ==
  /\ mstate[m] = "put"
  /\ taskq' = Append(taskq, mheld[m])
  /\ IF m = "init" /\ tmpq = <<>>
     THEN /\ mstate' = [mstate EXCEPT ![m] = "done"]
          /\ UNCHANGED mtimer
     ELSE /\ mstate' = [mstate EXCEPT ![m] = "get"]
          /\ mtimer' = [mtimer EXCEPT ![m] = GetTimeout]
  /\ UNCHANGED <<tmpq, mpc, tries, slept, round, child, elapsed, mheld>>

(* Lines 82-87: start the mover process once the init loop returned. *)
StartMover ==
  /\ mpc = "init_mover"
  /\ mstate["init"] = "done"
  /\ mstate' = [mstate EXCEPT !["proc"] = "get"]
  /\ mtimer' = [mtimer EXCEPT !["proc"] = GetTimeout]
  /\ tries' = Tries
  /\ mpc' = "get"
  /\ UNCHANGED <<tmpq, taskq, slept, round, child, elapsed, mheld>>

(* get_and_remove_tasks(HW_THREADS_AVAILABLE): min(num_tasks, qsize()). *)
Take(n) == IF n < Len(taskq) THEN n ELSE Len(taskq)

(* Mutant: `tries -= 1` left out of the empty-poll branch. *)
GetTasksNoDecrement ==
  LET n == Take(HW) IN
  /\ mpc = "get"
  /\ taskq' = SubSeq(taskq, n + 1, Len(taskq))
  /\ IF n > 0
     THEN /\ round' = SubSeq(taskq, 1, n)
          /\ child' = [b \in Batches |->
                         IF b \in ToSet(round') THEN "running" ELSE child[b]]
          /\ tries' = Tries
          /\ elapsed' = 0
          /\ mpc' = "join"
          /\ UNCHANGED slept
     ELSE /\ slept' = FALSE
          /\ mpc' = "sleep"
          /\ UNCHANGED <<round, child, elapsed, tries>>
  /\ UNCHANGED <<tmpq, mstate, mheld, mtimer>>

(***************************************************************************)
(* Lines 89-97 and 104-107: take up to HW batches; if any, reset tries and *)
(* start one process per batch; if none, count a try and sleep(1).         *)
(***************************************************************************)
GetTasks ==
  LET n == Take(HW) IN
  /\ mpc = "get"
  /\ taskq' = SubSeq(taskq, n + 1, Len(taskq))
  /\ IF n > 0
     THEN /\ round' = SubSeq(taskq, 1, n)
          /\ child' = [b \in Batches |->
                         IF b \in ToSet(round') THEN "running" ELSE child[b]]
          /\ tries' = Tries
          /\ elapsed' = 0
          /\ mpc' = "join"
          /\ UNCHANGED slept
     ELSE /\ tries' = tries - 1
          /\ slept' = FALSE
          /\ mpc' = "sleep"
          /\ UNCHANGED <<round, child, elapsed>>
  /\ UNCHANGED <<tmpq, mstate, mheld, mtimer>>

(* Mutant: the processes are started but not joined. *)
JoinNoWait ==
  /\ mpc = "join"
  /\ mpc' = "get"
  /\ UNCHANGED <<tmpq, taskq, tries, slept, round, child, elapsed, mstate,
                 mheld, mtimer>>

(* Lines 99-100: p.join() for every process of the round. *)
Join ==
  /\ mpc = "join"
  /\ \A b \in ToSet(round) \cap Batches : child[b] = "done"
  /\ mpc' = "get"
  /\ UNCHANGED <<tmpq, taskq, tries, slept, round, child, elapsed, mstate,
                 mheld, mtimer>>

(* Mutant: `while tries >= 0`. *)
WakeOffByOne ==
  /\ mpc = "sleep"
  /\ slept
  /\ mpc' = IF tries >= 0 THEN "get" ELSE "stopper"
  /\ UNCHANGED <<tmpq, taskq, tries, slept, round, child, elapsed, mstate,
                 mheld, mtimer>>

(* Line 88: after sleep(1), loop while tries > 0. *)
Wake ==
  /\ mpc = "sleep"
  /\ slept
  /\ mpc' = IF tries > 0 THEN "get" ELSE "stopper"
  /\ UNCHANGED <<tmpq, taskq, tries, slept, round, child, elapsed, mstate,
                 mheld, mtimer>>

(* Line 109: add_tasks([Task(None, None)]) *)
AddStopper ==
  /\ mpc = "stopper"
  /\ tmpq' = Append(tmpq, Stop)
  /\ mpc' = "exit"
  /\ UNCHANGED <<taskq, tries, slept, round, child, elapsed, mstate, mheld,
                 mtimer>>

(* The interpreter exits after joining the non-daemon mover process. *)
ExitMain ==
  /\ mpc = "exit"
  /\ mstate["proc"] = "done"
  /\ mpc' = "done"
  /\ UNCHANGED <<tmpq, taskq, tries, slept, round, child, elapsed, mstate,
                 mheld, mtimer>>

(***************************************************************************)
(* run_batch (lines 72-74) in a batch process: its tasks run and put the   *)
(* batches they add on TMP_TASK_QUEUE, flushed before the process exits.   *)
(***************************************************************************)
RunBatch(b) ==
  /\ child[b] = "running"
  /\ tmpq' = tmpq \o Spawns[b]
  /\ child' = [child EXCEPT ![b] = "done"]
  /\ UNCHANGED <<taskq, mpc, tries, slept, round, elapsed, mstate, mheld,
                 mtimer>>

MoverReady(m) ==
  \/ mstate[m] = "put"
  \/ mstate[m] = "get" /\ (tmpq # <<>> \/ mtimer[m] = 0)

Urgent ==
  \/ mpc \in {"get", "stopper"}
  \/ mpc = "sleep" /\ slept
  \/ mpc = "init_mover" /\ mstate["init"] = "done"
  \/ mpc = "join" /\ \A b \in ToSet(round) \cap Batches : child[b] = "done"
  \/ mpc = "exit" /\ mstate["proc"] = "done"
  \/ MoverReady("init")
  \/ MoverPrompt /\ MoverReady("proc")

(* One second passes. *)
Tick ==
  /\ mpc # "done"
  /\ ~Urgent
  /\ mpc = "join" => elapsed < MaxBatchSecs
  /\ mtimer' = [m \in Movers |->
                  IF mstate[m] = "get" /\ mtimer[m] > 0 THEN mtimer[m] - 1
                                                       ELSE mtimer[m]]
  /\ slept' = (slept \/ mpc = "sleep")
  /\ elapsed' = IF mpc = "join" THEN elapsed + 1 ELSE elapsed
  /\ UNCHANGED <<tmpq, taskq, mpc, tries, round, child, mstate, mheld>>

Done ==
  /\ mpc = "done"
  /\ UNCHANGED vars

Main == StartMover \/ GetTasks \/ Join \/ Wake \/ AddStopper \/ ExitMain

Next ==
  \/ Main
  \/ \E m \in Movers : MoverGet(m) \/ MoverPut(m)
  \/ \E b \in Batches : RunBatch(b)
  \/ Tick
  \/ Done

(***************************************************************************)
(* Every process keeps running (none blocks forever except on what the     *)
(* model shows) and time advances.                                         *)
(***************************************************************************)
Fairness ==
  /\ WF_vars(Main)
  /\ \A m \in Movers : WF_vars(MoverGet(m) \/ MoverPut(m))
  /\ \A b \in Batches : WF_vars(RunBatch(b))
  /\ WF_vars(Tick)

Spec == Init /\ [][Next]_vars /\ Fairness

-----------------------------------------------------------------------------
TypeOK ==
  /\ tmpq \in Seq(Batches \cup {Stop})
  /\ taskq \in Seq(Batches \cup {Empty})
  /\ mpc \in {"init_mover", "get", "join", "sleep", "stopper", "exit", "done"}
  /\ tries \in 0..Tries
  /\ slept \in BOOLEAN
  /\ round \in Seq(Batches \cup {Empty})
  /\ child \in [Batches -> {"none", "running", "done"}]
  /\ elapsed \in 0..MaxBatchSecs
  /\ mstate \in [Movers -> {"idle", "get", "put", "done"}]
  /\ mheld \in [Movers -> Batches \cup {Empty, Stop}]
  /\ mtimer \in [Movers -> 0..GetTimeout]

(***************************************************************************)
(* No task is lost: when the program ends, every batch put on the queues,  *)
(* by main or by a running batch, has been run.  run_loop stops on empty   *)
(* polls of TASK_QUEUE alone, so this depends on the mover having moved    *)
(* every sub-batch before the third empty poll.                            *)
(***************************************************************************)
AllTasksRun == mpc = "done" => \A b \in Batches : child[b] = "done"

(***************************************************************************)
(* The program ends: run_loop stops retrying although the mover keeps      *)
(* putting Empty batches on timeouts, and the stopper reaches the mover.   *)
(***************************************************************************)
Terminates == <>(mpc = "done")

====
