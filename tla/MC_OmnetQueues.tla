----------------------------- MODULE MC_OmnetQueues -----------------------------
(***************************************************************************)
(* Two agg switches of two servers each under one spine.  The interfaces   *)
(* sampled: agg 1's port to server 2 and its uplink to spine 0 (both end   *)
(* in id 2), agg 0's port to server 1, spine 0's port to agg 1, and        *)
(* server 3's port to agg 1.                                               *)
(***************************************************************************)
EXTENDS OmnetQueues

MC_Iface(kd, i, e) == [kind |-> kd, index |-> i, eth |-> e]

MC_Ifaces ==
  << MC_Iface("agg", 0, 1),
     MC_Iface("agg", 1, 0),
     MC_Iface("agg", 1, 2),
     MC_Iface("spine", 0, 1),
     MC_Iface("server", 3, 0) >>

====
