----------------------------- MODULE MC_RunMany -----------------------------
(* Three .sh files in one directory (no -r): distinct basenames.           *)
EXTENDS RunMany

CONSTANTS j1, j2, j3

MC_sh_files == <<j1, j2, j3>>

MC_LogName == [j \in {j1, j2, j3} |-> j]

====
