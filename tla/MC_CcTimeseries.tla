--------------------------- MODULE MC_CcTimeseries ---------------------------
(* Two hosts; one per-host and one global variable; a window [1, 2] with  *)
(* a time inside it and one past it; two-row traces.                      *)
EXTENDS CcTimeseries

MC_Hosts == <<0, 1>>
MC_Vars == <<"budget_bytes", "global_budget_bytes">>
====
