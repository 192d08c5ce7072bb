-------------------------- MODULE MC_WorkerManager --------------------------
(* process_results: two batches from main; b1's task adds a sub-pool s1    *)
(* (like aggr_q_data_ts), whose task adds s2 (like cc_hlp.output_results). *)
EXTENDS WorkerManager

CONSTANTS b1, b2, s1, s2

MC_Initial == <<b1, b2>>

MC_Spawns == (b1 :> <<s1>>) @@ (b2 :> <<>>) @@ (s1 :> <<s2>>) @@ (s2 :> <<>>)

====
