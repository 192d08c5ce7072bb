--------------------------- MODULE MC_ProcessResults ---------------------------
(***************************************************************************)
(* One directory of each kind: the dcPIM network of MC_DcpimResults, the  *)
(* OMNeT interfaces of MC_OmnetQueues (agg 1's port to server 2 and its    *)
(* uplink to spine 0 both end in id 2) and the ns-2 trace of              *)
(* MC_SlowdownBins.                                                        *)
(***************************************************************************)
EXTENDS ProcessResults, MC_DcpimResults

MC_Iface(kd, i, e) == [kind |-> kd, index |-> i, eth |-> e]

MC_Ifaces ==
  << MC_Iface("agg", 0, 1),
     MC_Iface("agg", 1, 0),
     MC_Iface("agg", 1, 2),
     MC_Iface("spine", 0, 1),
     MC_Iface("server", 3, 0) >>

MC_CcHosts == <<0, 1>>
MC_CcVars == <<"budget_bytes", "global_budget_bytes">>
====
