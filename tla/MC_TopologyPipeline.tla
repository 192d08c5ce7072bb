------------------------ MODULE MC_TopologyPipeline ------------------------
(* Three hosts, three tor values, a descriptor of 2 tors of 2 servers. *)
EXTENDS TopologyPipeline

CONSTANTS NoTor, AnyServerPrefix

(* Orders in which the tor attribute comes first, as in the example files. *)
MC_TorFirst ==
  {<<"tor">>, <<"tor", "client">>, <<"tor", "server">>,
   <<"tor", "client", "server">>, <<"tor", "server", "client">>}

(* Any order, including client or server before tor. *)
MC_AnyOrder ==
  MC_TorFirst \cup {<<"client", "tor">>, <<"server", "tor">>,
                    <<"client", "server", "tor">>}
====
