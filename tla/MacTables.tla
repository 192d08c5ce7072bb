------------------------------ MODULE MacTables ------------------------------
(***************************************************************************)
(* MAC_Table_Data/generate.py: the static MAC address tables of a two-tier *)
(* topology's aggregation switches and spines.  main() calls generate_agg  *)
(* for every agg switch, then generate_spine for every spine; each writes  *)
(* one file of lines "0 <MAC> <interface>".  Hosts of agg a get           *)
(* consecutive MACs after BASE_MAC; hex_to_string formats each MAC.        *)
(*                                                                         *)
(* A MAC is MacDigits hex digits (12 in the code; TLC's integers are 32    *)
(* bits, so a model uses fewer and scales BASE_MAC the same way).  The     *)
(* text of a MAC is its sequence of hex digit values: upper-casing and the *)
(* ':' between pairs are layout only.                                      *)
(***************************************************************************)
EXTENDS Naturals, Sequences, SequencesExt, FiniteSets

CONSTANTS
  MacDigits,     \* len(mac_str) asserted by hex_to_string
  HostChoices,   \* num_hosts_per_agg values
  AggChoices,    \* num_agg values
  SpineChoices,  \* num_spines values
  BaseChoices,   \* BASE_MAC values
  BaseIface      \* BASE_IFACE

ASSUME MacDigits \in Nat /\ MacDigits % 2 = 0 /\ BaseIface \in Nat

(* str(hex(n)) without "0x": the digits, most significant first, no leading zeros. *)
RECURSIVE HexDigits(_)
HexDigits(n) ==
  IF n < 16 THEN <<n>> ELSE HexDigits(n \div 16) \o <<n % 16>>

(***************************************************************************)
(* hex_to_string, lines 11-24: pad one "0" if the length is not MacDigits, *)
(* then assert the length.  Fail stands for the failed assert.             *)
(***************************************************************************)
Fail == <<>>
HexToString(n) ==
  LET d == HexDigits(n)
      padded == IF Len(d) # MacDigits THEN <<0>> \o d ELSE d
  IN IF Len(padded) = MacDigits THEN padded ELSE Fail

Line(mac, iface) == [mac |-> mac, text |-> HexToString(mac), iface |-> iface]

(* Mutant: `current_mac += 1` dropped at the end of an agg's hosts. *)
NextOffsetNoIncrement(offset, nh) == offset + nh - 1

(* Lines 76-84: the offset after an agg's hosts (current_mac + 1). *)
NextOffset(offset, nh) == offset + nh

(* The first MAC of agg a's hosts: mac_offset after a aggs. *)
RECURSIVE AggOffset(_, _, _)
AggOffset(base, nh, a) ==
  IF a = 0 THEN base ELSE NextOffset(AggOffset(base, nh, a - 1), nh)

(***************************************************************************)
(* generate_agg, lines 69-84: for the hosts of another agg, one line per   *)
(* spine uplink; for its own hosts, one line on the host's port.           *)
(***************************************************************************)
AggLines(cfg, k) ==
  FlattenSeq([i \in 1..cfg.agg |->
    LET a == i - 1  off == AggOffset(cfg.base, cfg.hosts, a) IN
    FlattenSeq([j \in 1..cfg.hosts |->
      IF a # k
      THEN [s \in 1..cfg.spines |-> Line(off + j - 1, BaseIface + cfg.hosts + s - 1)]
      ELSE <<Line(off + j - 1, BaseIface + j - 1)>>])])

(* generate_spine, lines 86-95: every host's MAC, on the port of its agg. *)
SpineLines(cfg, k) ==
  FlattenSeq([i \in 1..cfg.agg |->
    [j \in 1..cfg.hosts |->
       Line(AggOffset(cfg.base, cfg.hosts, i - 1) + j - 1, BaseIface + i - 1)]])

(***************************************************************************)
(* What a call leaves in its file: the lines up to the first MAC           *)
(* hex_to_string rejects, where the assert ends the program.  With no      *)
(* hosts, `current_mac += 1` reads an unbound name (UnboundLocalError).    *)
(***************************************************************************)
Written(lines) ==
  LET bad == SelectInSeq(lines, LAMBDA l : l.text = Fail)
  IN IF bad = 0 THEN lines ELSE SubSeq(lines, 1, bad - 1)

Crashes(cfg, lines) ==
  \/ \E i \in DOMAIN lines : lines[i].text = Fail
  \/ cfg.hosts = 0 /\ cfg.agg > 0

Configs ==
  [hosts : HostChoices, agg : AggChoices, spines : SpineChoices,
   base : BaseChoices]

(* Mutant: switch ids counted from 1. *)
CallsFromOne(cfg) ==
  [i \in 1..cfg.agg |-> <<"agg", i>>]
  \o [i \in 1..cfg.spines |-> <<"spine", i>>]

(* The files main() writes, lines 110-115, in order. *)
Calls(cfg) ==
  [i \in 1..cfg.agg |-> <<"agg", i - 1>>]
  \o [i \in 1..cfg.spines |-> <<"spine", i - 1>>]

VARIABLES
  cfg,     \* main's num_hosts_per_agg, num_agg, num_spines and BASE_MAC
  next,    \* index in Calls(cfg) of the next generate call
  files,   \* file (kind, switch id) -> its lines
  pc       \* "run", "done" or "crashed"

vars == <<cfg, next, files, pc>>

Init ==
  /\ cfg \in Configs
  /\ next = 1
  /\ files = <<>>
  /\ pc = "run"

(* One generate_agg or generate_spine call of main. *)
Generate ==
  LET f == Calls(cfg)[next]
      lines == IF f[1] = "agg" THEN AggLines(cfg, f[2]) ELSE SpineLines(cfg, f[2])
  IN
  /\ pc = "run"
  /\ next <= Len(Calls(cfg))
  /\ files' = (f :> Written(lines)) @@ files
  /\ next' = next + 1
  /\ pc' = IF Crashes(cfg, lines) THEN "crashed"
           ELSE IF next = Len(Calls(cfg)) THEN "done" ELSE "run"
  /\ UNCHANGED cfg

Ended ==
  /\ pc \in {"done", "crashed"}
  /\ UNCHANGED vars

Next == Generate \/ Ended

Spec == Init /\ [][Next]_vars /\ WF_vars(Generate)

-----------------------------------------------------------------------------
TypeOK ==
  /\ cfg \in Configs
  /\ next \in 1..(Len(Calls(cfg)) + 1)
  /\ pc \in {"run", "done", "crashed"}
  /\ DOMAIN files \subseteq ({"agg"} \X (0..(cfg.agg - 1)))
                           \cup ({"spine"} \X (0..(cfg.spines - 1)))
  /\ \A f \in DOMAIN files : \A i \in DOMAIN files[f] :
        files[f][i].text \in Seq(0..15) /\ files[f][i].iface \in Nat

Macs(f) == {l.text : l \in ToSet(files[f])}
Ifaces(f, m) == {l.iface : l \in {x \in ToSet(files[f]) : x.text = m}}
HostPorts == {BaseIface + p : p \in 0..(cfg.hosts - 1)}
Uplinks == {BaseIface + cfg.hosts + s : s \in 0..(cfg.spines - 1)}

(***************************************************************************)
(* Once main() has written every table, the tables agree: each knows one   *)
(* distinct MAC per host; an agg switch reaches a MAC on one host port or  *)
(* on all its spine uplinks; and a MAC is on a host port of agg k exactly  *)
(* when every spine sends it out of its port to agg k.                     *)
(***************************************************************************)
MacTablesConsistent ==
  pc = "done" =>
    LET Aggs == {f \in DOMAIN files : f[1] = "agg"}
        Spines == {f \in DOMAIN files : f[1] = "spine"}
    IN
    /\ \A f \in DOMAIN files : Cardinality(Macs(f)) = cfg.agg * cfg.hosts
    /\ \A f, g \in DOMAIN files : Macs(f) = Macs(g)
    /\ \A f \in Aggs : \A m \in Macs(f) :
         \/ \E p \in HostPorts : Ifaces(f, m) = {p}
         \/ Ifaces(f, m) = Uplinks
    /\ \A f \in Aggs, g \in Spines : \A m \in Macs(f) :
         (Ifaces(f, m) \subseteq HostPorts) <=> (Ifaces(g, m) = {BaseIface + f[2]})

(***************************************************************************)
(* main() writes every table: hex_to_string accepts every MAC the          *)
(* configuration allocates (its docstring: int -> "0A:AA:00:00:01:81").    *)
(***************************************************************************)
AllTablesWritten == pc # "crashed"

====
