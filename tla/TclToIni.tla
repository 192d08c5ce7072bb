------------------------------ MODULE TclToIni ------------------------------
(***************************************************************************)
(* scripts/r2p2/coord/tcl_to_ini.py on the topology part of a parameter    *)
(* file: the tor_<t>_clients and tor_<t>_servers lists become OMNeT++      *)
(* `activeClient`/`logicalIdx` entries of the clients' physical servers    *)
(* and one `targetServers` list, and the app counts become scalar entries. *)
(*                                                                         *)
(* Physical server indices come from the hardwired TOPO_DESCRIPTOR         *)
(* (NumTor tors of HostsPerTor servers; "_9_16" in the code).  An .ini     *)
(* entry is kept as a record: section, prefix (a physical server index, or *)
(* AnyServer for "**.server[*].app[1..]."), parameter name and value; the  *)
(* text formatting of def_ini_param is left out.                           *)
(***************************************************************************)
EXTENDS Naturals, Sequences, SequencesExt

CONSTANTS
  NumTor,        \* NUM_TOR from TOPO_DESCRIPTOR
  HostsPerTor,   \* HOSTS_PER_TOR from TOPO_DESCRIPTOR
  AnyServer      \* the prefix **.server[*].app[1..].

ASSUME NumTor \in Nat /\ HostsPerTor \in Nat \ {0} /\ AnyServer \notin Nat

Sections == {"General", "DCTCP", "Swift"}
Slots == 0..(NumTor * HostsPerTor - 1)

Entry(sec, prefix, name, value) ==
  [sec |-> sec, prefix |-> prefix, name |-> name, value |-> value]

(***************************************************************************)
(* Lines 51-78: the parameters in the order first set; a later `set` of    *)
(* the same name replaces the value.  (The `dict` and non-`set` lines are  *)
(* not among the lines modelled.)                                          *)
(***************************************************************************)
ImportParamFile(lines) ==
  LET Put(params, l) ==
        LET at == SelectInSeq(params, LAMBDA q : q.base = l.base /\ q.tor = l.tor)
        IN IF at = 0 THEN Append(params, l) ELSE [params EXCEPT ![at] = l]
  IN FoldLeft(Put, <<>>, lines)

(* Mutant: the assert of derive_host_index dropped. *)
DeriveHostIndexUnchecked(k, t) == HostsPerTor * t + k

(* Lines 154-157: the physical index; -1 stands for the failed assert. *)
DeriveHostIndex(k, t) ==
  IF HostsPerTor * t + k < NumTor * HostsPerTor THEN HostsPerTor * t + k ELSE -1

(* Mutant: hosts_placed not incremented. *)
ClientSlotNoIncrement(p, k) == DeriveHostIndex(0, p.tor)

(* Lines 165-170: the k-th client of the list sits at hosts_placed = k-1. *)
ClientSlot(p, k) == DeriveHostIndex(k - 1, p.tor)

(* Lines 160-175: activeClient and logicalIdx in both Config sections. *)
SetActiveClients(p) ==
  FlattenSeq([k \in DOMAIN p.vals |->
     LET s == ClientSlot(p, k) IN
     << Entry("DCTCP", s, "activeClient", TRUE),
        Entry("Swift", s, "activeClient", TRUE),
        Entry("DCTCP", s, "logicalIdx", p.vals[k]),
        Entry("Swift", s, "logicalIdx", p.vals[k]) >>])

(***************************************************************************)
(* Lines 177-192: the k-th server of the list is given hosts_placed = k-1  *)
(* (the server's own id is not used) and appended to the module-global     *)
(* current_target_string; the entry carries the whole string so far.      *)
(***************************************************************************)
SetTargets(p, cur) ==
  cur \o [k \in DOMAIN p.vals |-> DeriveHostIndex(k - 1, p.tor)]

(***************************************************************************)
(* Lines 218-250 and 252-273: the entries of one parameter, and the new    *)
(* value of current_target_string.  Scalars go through ptm (here the app   *)
(* counts), lists through the sptm patterns; other names give none.        *)
(***************************************************************************)
MapParam(p, cur) ==
  CASE ~p.list /\ p.base \in {"num_client_apps", "num_server_apps"} ->
         [entries |-> <<Entry("General", AnyServer, p.base, p.vals[1])>>,
          cur |-> cur]
    [] p.list /\ p.base = "tor_clients" ->
         [entries |-> SetActiveClients(p), cur |-> cur]
    [] p.list /\ p.base = "tor_servers" ->
         [entries |-> <<Entry("General", AnyServer, "targetServers",
                              SetTargets(p, cur))>>,
          cur |-> SetTargets(p, cur)]
    [] OTHER -> [entries |-> <<>>, cur |-> cur]

(* Mutant: remove_duplicates does nothing. *)
RemoveDuplicatesNone(list, e) == list

(***************************************************************************)
(* Lines 289-297: drop the first earlier targetServers entry whose text    *)
(* before " = " (prefix and name) is the new entry's.                      *)
(***************************************************************************)
RemoveDuplicates(list, e) ==
  LET at == SelectInSeq(list, LAMBDA x : x.name = "targetServers"
                                       /\ x.name = e.name
                                       /\ x.prefix = e.prefix)
  IN IF at = 0 THEN list ELSE RemoveAt(list, at)

(* Lines 319-323: one entry added to its section. *)
AddEntry(ini, e) ==
  [ini EXCEPT ![e.sec] = Append(RemoveDuplicates(@, e), e)]

(***************************************************************************)
(* Lines 316-323: main's loop over the parameters.  A failed assert in     *)
(* derive_host_index stops the program (err).                              *)
(***************************************************************************)
ConvertStep(acc, p) ==
  LET m == MapParam(p, acc.cur) IN
  IF acc.err \/ \E i \in DOMAIN m.entries : m.entries[i].prefix = -1
                 \/ (m.entries[i].name = "targetServers"
                     /\ -1 \in ToSet(m.entries[i].value))
  THEN [acc EXCEPT !.err = TRUE]
  ELSE [acc EXCEPT !.ini = FoldLeft(AddEntry, @, m.entries), !.cur = m.cur]

EmptyIni == [s \in Sections |-> <<>>]

IniMain(lines) ==
  FoldLeft(ConvertStep, [ini |-> EmptyIni, cur |-> <<>>, err |-> FALSE],
           ImportParamFile(lines))

====
