---------------------------- MODULE MC_DcpimResults ----------------------------
(***************************************************************************)
(* One tor (id 0) with a host and an aggr switch, ids numbered per node   *)
(* type: the tor's links to aggr 0 and to host 0 share the destination id. *)
(* Sizes are scaled: 1 stands for a packet, 2 for the incast size.  The    *)
(* size groups mirror (0, PKT), (0, 99999999999) and (PKT, 99999999999).  *)
(***************************************************************************)
EXTENDS DcpimResults

MC_Link(st, s, dt, d) == [srcType |-> st, src |-> s, dstType |-> dt, dst |-> d]

MC_Links ==
  << MC_Link("t", 0, "aggr", 0),
     MC_Link("tor", 0, "h", 0) >>

MC_SizeGroups == << <<0, 2>>, <<0, 9>>, <<2, 9>> >>

MC_Ratios == {<<0, 1>>, <<1, 2>>}

====
