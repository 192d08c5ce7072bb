-------------------------- MODULE TopologyPipeline --------------------------
(***************************************************************************)
(* The two coordination scripts that turn a topology into an OMNeT++       *)
(* configuration, run one after the other on one experiment:               *)
(* topology_parser.py appends the topology's TCL parameters to the         *)
(* parameter file, and tcl_to_ini.py reads that file and writes the .ini.  *)
(* The topology is the input, chosen in Init; each script's main is one    *)
(* step, which either completes or stops the script (exit(1), a failed     *)
(* assert, an uncaught NameError).                                         *)
(***************************************************************************)
EXTENDS Naturals, Sequences, SequencesExt, FiniteSets, TopologyParser, TclToIni

VARIABLES
  pc,     \* "parse", "convert", "done" or "exit"
  topo,   \* the merged YAML topology
  tcl,    \* the topology lines of the parameter file
  ini     \* the sections of the .ini file

vars == <<pc, topo, tcl, ini>>

Init ==
  /\ pc = "parse"
  /\ topo \in Topologies
  /\ tcl = <<>>
  /\ ini = EmptyIni

(***************************************************************************)
(* topology_parser.main, lines 94-119: reject invalid keys, check manual   *)
(* placement, then write_tcl_params.                                       *)
(***************************************************************************)
Parse ==
  LET acc == WalkHosts(topo) IN
  /\ pc = "parse"
  /\ IF KeysAreValid(topo) /\ ValidHosts(topo) /\ ~acc.err
     THEN /\ tcl' = TclLines(acc)
          /\ pc' = "convert"
     ELSE /\ pc' = "exit"
          /\ UNCHANGED tcl
  /\ UNCHANGED <<topo, ini>>

(* tcl_to_ini.main, lines 300-324. *)
Convert ==
  LET r == IniMain(tcl) IN
  /\ pc = "convert"
  /\ IF r.err
     THEN /\ pc' = "exit"
          /\ UNCHANGED ini
     ELSE /\ ini' = r.ini
          /\ pc' = "done"
  /\ UNCHANGED <<topo, tcl>>

Ended ==
  /\ pc \in {"done", "exit"}
  /\ UNCHANGED vars

Next == Parse \/ Convert \/ Ended

Spec == Init /\ [][Next]_vars /\ WF_vars(Parse \/ Convert)

-----------------------------------------------------------------------------
Clients == {h \in Hosts : HasRole(topo, h, "client")}
Servers == {h \in Hosts : HasRole(topo, h, "server")}

(* The values of the TCL list line `base` of tor t, or <<>> if none. *)
Listed(base, t) ==
  LET L == {l \in ToSet(tcl) : l.base = base /\ l.tor = t}
  IN IF L = {} THEN <<>> ELSE (CHOOSE l \in L : TRUE).vals

EntriesNamed(sec, name) == {e \in ToSet(ini[sec]) : e.name = name}

TargetLists == {e.value : e \in EntriesNamed("General", "targetServers")}

TypeOK ==
  /\ pc \in {"parse", "convert", "done", "exit"}
  /\ topo \in Topologies
  /\ \A i \in DOMAIN tcl : tcl[i].vals \in Seq(Nat)
  /\ \A s \in Sections : \A i \in DOMAIN ini[s] :
        ini[s][i].prefix \in Slots \cup {AnyServer}
  /\ \A v \in TargetLists : v \in Seq(Slots)

(***************************************************************************)
(* write_tcl_params files every client and every server under the tor its  *)
(* own `tor` attribute names, in host order: tor_<t>_clients lists exactly *)
(* the clients placed in tor t (this_tor must be the current host's).      *)
(***************************************************************************)
RolesFiledUnderOwnTor ==
  pc \in {"convert", "done"} =>
    \A t \in TorChoices :
      /\ Listed("tor_clients", t) =
           SelectSeq(HostSeq, LAMBDA h : h \in Clients /\ topo.tor[h] = t)
      /\ Listed("tor_servers", t) =
           SelectSeq(HostSeq, LAMBDA h : h \in Servers /\ topo.tor[h] = t)

(***************************************************************************)
(* In each Config section of the .ini, the logicalIdx entries map physical *)
(* servers one-to-one onto the clients, each client on a server of its     *)
(* own tor, and activeClient is set on exactly those servers.              *)
(***************************************************************************)
ActiveClientsPlaced ==
  pc = "done" =>
    \A sec \in {"DCTCP", "Swift"} :
      LET L == EntriesNamed(sec, "logicalIdx") IN
      /\ {e.value : e \in L} = Clients
      /\ \A e1, e2 \in L : (e1.prefix = e2.prefix) <=> (e1.value = e2.value)
      /\ \A e \in L : e.prefix \div HostsPerTor = topo.tor[e.value]
      /\ {e.prefix : e \in EntriesNamed(sec, "activeClient")} =
           {e.prefix : e \in L}

(***************************************************************************)
(* Although set_targets is called once per tor, the .ini ends with a       *)
(* single targetServers entry, listing one physical server per server,     *)
(* each in its server's tor (the module-global current_target_string      *)
(* accumulates, remove_duplicates drops the earlier entries).              *)
(***************************************************************************)
TargetServersComplete ==
  pc = "done" =>
    /\ Len(SelectSeq(ini["General"], LAMBDA e : e.name = "targetServers"))
         = IF Servers = {} THEN 0 ELSE 1
    /\ \A v \in TargetLists :
         \A t \in TorChoices :
           Cardinality({k \in DOMAIN v : v[k] \div HostsPerTor = t}) =
             Cardinality({h \in Servers : topo.tor[h] = t})

(***************************************************************************)
(* A physical server named in targetServers that carries a client carries  *)
(* a client that is also a server: requests go to server hosts, not to     *)
(* client-only hosts placed on the same physical index.                    *)
(***************************************************************************)
TargetsAreServers ==
  pc = "done" =>
    \A v \in TargetLists, e \in EntriesNamed("DCTCP", "logicalIdx") :
      \A k \in DOMAIN v : e.prefix = v[k] => e.value \in Servers

====
