------------------------- MODULE MC_RunManyRecursive -------------------------
(* run_many.py -r: os.walk finds sweep/a/run.sh, sweep/b/run.sh and         *)
(* sweep/b/other.sh; the first two have the same basename, so both jobs'    *)
(* logs are run_subdir/run.sh.txt.                                          *)
EXTENDS RunMany

CONSTANTS j1, j2, j3

MC_sh_files == <<j1, j2, j3>>

MC_LogName == (j1 :> "run.sh.txt") @@ (j2 :> "run.sh.txt")
                @@ (j3 :> "other.sh.txt")

====
