---------------------------- MODULE MC_DcpimQueues ----------------------------
(***************************************************************************)
(* One tor (id 0) with two hosts and one aggr switch, ids numbered per     *)
(* node type, so the tor's uplink to aggr 0 and its link to host 0 share   *)
(* the destination id 0.  The file spells the types both ways.             *)
(***************************************************************************)
EXTENDS DcpimQueues

MC_Link(st, s, dt, d) == [srcType |-> st, src |-> s, dstType |-> dt, dst |-> d]

MC_Links ==
  << MC_Link("h", 0, "t", 0),
     MC_Link("a", 0, "tor", 0),
     MC_Link("t", 0, "aggr", 0),
     MC_Link("tor", 0, "h", 0),
     MC_Link("t", 0, "host", 1) >>

====
