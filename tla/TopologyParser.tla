--------------------------- MODULE TopologyParser ---------------------------
(***************************************************************************)
(* scripts/r2p2/coord/topology_parser.py: a YAML topology (the default     *)
(* merged with the user's) becomes TCL parameter lines appended to the     *)
(* experiment's parameter file.  The part with control flow is             *)
(* write_tcl_params' walk over each host's attributes, which files the     *)
(* host under `this_tor`, a variable set by the `tor` attribute and never  *)
(* reset between hosts.                                                    *)
(*                                                                         *)
(* A host is a number (the YAML key).  Its attributes are a sequence of    *)
(* names in YAML order; "client" or "server" listed means the attribute is *)
(* true (one listed as false is written but filed nowhere, like an absent  *)
(* one).  A TCL line is a record: its name (base and tor), whether it is a *)
(* list, and its values.                                                   *)
(***************************************************************************)
EXTENDS Naturals, Sequences, SequencesExt

CONSTANTS
  NumHosts,     \* num_hosts = len(hosts)
  TopoNumTors,  \* num_tors of the topology
  TorChoices,   \* the tor values a host may name
  AttrOrders,   \* the attribute sequences a host may have
  Placements,   \* host_placement values
  Unbound       \* this_tor before any tor attribute was met

Hosts == 0..(NumHosts - 1)
HostSeq == [i \in 1..NumHosts |-> i - 1]
Attrs == {"tor", "client", "server"}

ASSUME /\ NumHosts \in Nat \ {0}
       /\ TopoNumTors \in Nat
       /\ TorChoices \subseteq Nat
       /\ \A s \in AttrOrders : ToSet(s) \subseteq Attrs /\ IsInjective(s)
       /\ Unbound \notin Nat

(* The merged topology: what write_tcl_params and check_valid_hosts read. *)
Topologies ==
  [placement : Placements,
   attrs     : [Hosts -> AttrOrders],
   tor       : [Hosts -> TorChoices],
   keysValid : BOOLEAN]

HasRole(topo, h, role) == role \in ToSet(topo.attrs[h])

(* The locals of write_tcl_params' "hosts" branch, lines 24-30. *)
NoTors == [t \in TorChoices |-> <<>>]
Start ==
  [thisTor |-> Unbound, err |-> FALSE, clients |-> <<>>, servers |-> <<>>,
   torOrder |-> <<>>, toHosts |-> NoTors, toClients |-> NoTors,
   toServers |-> NoTors]

(* Appending h to dict d under key t (lines 39-41, 44-46, 49-51). *)
FileUnder(d, t, h) == [d EXCEPT ![t] = Append(@, h)]

(* Mutant: `this_tor` only taken from the first tor attribute met. *)
TorSetFirstOnly(topo, acc, h) ==
  IF acc.thisTor = Unbound THEN topo.tor[h] ELSE acc.thisTor

(* Line 48: this_tor = attributes[attribute]. *)
TorSet(topo, acc, h) == topo.tor[h]

(***************************************************************************)
(* Lines 36-51: one attribute of host h.  A client or server attribute     *)
(* met before any tor attribute reads an unbound this_tor (NameError).     *)
(***************************************************************************)
AttrStep(topo, acc, p) ==
  LET h == p[1]  a == p[2]  t == TorSet(topo, acc, h) IN
  CASE acc.err -> acc
    [] a = "tor" ->
         [acc EXCEPT !.thisTor = t,
                     !.torOrder = IF t \in ToSet(@) THEN @ ELSE Append(@, t),
                     !.toHosts = FileUnder(@, t, h)]
    [] acc.thisTor = Unbound -> [acc EXCEPT !.err = TRUE]
    [] a = "client" ->
         [acc EXCEPT !.clients = Append(@, h),
                     !.toClients = FileUnder(@, acc.thisTor, h)]
    [] a = "server" ->
         [acc EXCEPT !.servers = Append(@, h),
                     !.toServers = FileUnder(@, acc.thisTor, h)]

(* Lines 33-36: every (host, attribute) pair in YAML order. *)
AttrPairs(topo) ==
  FlattenSeq([i \in 1..NumHosts |->
                [k \in DOMAIN topo.attrs[HostSeq[i]] |->
                   <<HostSeq[i], topo.attrs[HostSeq[i]][k]>>]])

WalkHosts(topo) ==
  FoldLeft(LAMBDA acc, p : AttrStep(topo, acc, p), Start, AttrPairs(topo))

ListLine(base, t, vals) == [base |-> base, tor |-> t, list |-> TRUE, vals |-> vals]
ScalarLine(base, v) == [base |-> base, tor |-> Unbound, list |-> FALSE, vals |-> <<v>>]

(***************************************************************************)
(* Lines 56-65 (common.set_tcl_list, set_simple_tcl_var): per tor in the   *)
(* order first met, its hosts, then its clients and servers if it has any; *)
(* then the app counts and lists.                                          *)
(***************************************************************************)
TorLines(acc, t) ==
  <<ListLine("tor_hosts", t, acc.toHosts[t])>>
  \o (IF acc.toClients[t] # <<>> THEN <<ListLine("tor_clients", t, acc.toClients[t])>> ELSE <<>>)
  \o (IF acc.toServers[t] # <<>> THEN <<ListLine("tor_servers", t, acc.toServers[t])>> ELSE <<>>)

TclLines(acc) ==
  FlattenSeq([i \in DOMAIN acc.torOrder |-> TorLines(acc, acc.torOrder[i])])
  \o << ScalarLine("num_client_apps", Len(acc.clients)),
        ScalarLine("num_server_apps", Len(acc.servers)),
        ListLine("client_apps", Unbound, acc.clients),
        ListLine("server_apps", Unbound, acc.servers) >>

(* Lines 75-80: both files use only keys of valid_keys. *)
KeysAreValid(topo) == topo.keysValid

(* Lines 69-73: with manual placement every host's tor must exist. *)
ValidHosts(topo) ==
  topo.placement = "manual" => \A h \in Hosts : topo.tor[h] < TopoNumTors

====
