----------------------------- MODULE SlowdownBins -----------------------------
(***************************************************************************)
(* The slowdown-versus-size report of post-process/produce_aggr_ts.py      *)
(* (aggr_app_data_ts.process_load_lvl, lines 53-94), with the binning of   *)
(* app_hlp.get_slowdown_vs_size (lines 155-189) and write_slowdown_data    *)
(* (lines 32-51).                                                          *)
(*                                                                         *)
(* A sample is a completed request: its size and its slowdown.  Every      *)
(* statistic of a bin (p1, p50, p95, p99, p99.9, mean) is a function of    *)
(* the bin's samples, so a reported row keeps the samples themselves.  The *)
(* six dicts are filled in one loop under the same key, so they are one    *)
(* ordered dict of rows here.  A median size is kept doubled, so the mean  *)
(* of the two middle sizes stays an integer.                               *)
(***************************************************************************)
EXTENDS Naturals, Sequences, SequencesExt, Bags, TLC

CONSTANTS
  SizeChoices,      \* request sizes
  SlowdownChoices,  \* slowdown values
  MaxRows,          \* the most completed requests in the trace
  RowsPerBin,       \* 500 in int(slowdown.shape[0] / 500)
  MaxBinCount       \* 50 in min(..., 50)

ASSUME RowsPerBin \in Nat \ {0} /\ MaxBinCount \in Nat

Samples == [size : SizeChoices, sl : SlowdownChoices]

(* Mutant: the rows are not sorted by size. *)
SortedBySizeNone(s) == {s}

(***************************************************************************)
(* numpy argsort by size (quicksort, not stable): any order of the samples *)
(* that is ascending in size.                                              *)
(***************************************************************************)
SortedBySize(s) ==
  { [i \in DOMAIN s |-> s[p[i]]] : p \in Permutations(DOMAIN s) }
  \cap { t \in [DOMAIN s -> Samples] : IsSorted(t, LAMBDA x, y : x.size <= y.size) }

(* Python's s[a:b] on 0-based indices; past the end it is cut short. *)
Slice(s, a, b) == SubSeq(s, a + 1, IF b < Len(s) THEN b ELSE Len(s))

(* Mutant: bin_end one too far, so neighbouring bins share a sample. *)
BinOverlapping(s, bc, b) ==
  LET vpb == Len(s) \div bc  rem == Len(s) % bc
      hi == (b + 1) * vpb + (IF b = bc - 1 THEN rem ELSE 0)
  IN Slice(s, b * vpb, hi + 1)

(***************************************************************************)
(* Lines 165-181: bin b of bc holds values_per_bin samples from            *)
(* b * values_per_bin; the remainder goes to the last bin.                 *)
(***************************************************************************)
Bin(s, bc, b) ==
  LET vpb == Len(s) \div bc  rem == Len(s) % bc
      hi == (b + 1) * vpb - 1 + (IF b = bc - 1 THEN rem ELSE 0)
  IN Slice(s, b * vpb, hi + 1)

(* np.percentile(sizes, 50) of a size-sorted bin, doubled. *)
MedianKey(bin) == bin[(Len(bin) + 1) \div 2].size + bin[Len(bin) \div 2 + 1].size

(* d[key] = v on a Python dict: a new key is appended, an old one keeps   *)
(* its place and takes the new value.                                     *)
Put(d, key, v) ==
  LET at == SelectInSeq(d, LAMBDA e : e.key = key)
  IN IF at = 0 THEN Append(d, [key |-> key, samples |-> v])
     ELSE [d EXCEPT ![at].samples = v]

(* Lines 176-187: one row per bin, keyed by the bin's median size. *)
SlowdownVsSize(s, bc) ==
  FoldLeft(LAMBDA d, b : Put(d, MedianKey(Bin(s, bc, b)), Bin(s, bc, b)),
           <<>>, [i \in 1..bc |-> i - 1])

(* Line 78, scaled: min(int(n / RowsPerBin), MaxBinCount). *)
BinCount(n) == IF n \div RowsPerBin < MaxBinCount THEN n \div RowsPerBin ELSE MaxBinCount

VARIABLES
  rows,   \* the completed requests of the trace, in trace order
  data,   \* the (ts, req_size, slowdown) rows calculate_slowdown returns
  csv,    \* the rows of slowdown.csv
  pc      \* "load", "bin", "done", "skipped" (an early return) or "crashed"

vars == <<rows, data, csv, pc>>

Init ==
  /\ rows \in SeqOf(Samples, MaxRows)
  /\ data = <<>>
  /\ csv = <<>>
  /\ pc = "load"

(***************************************************************************)
(* Lines 53-76: return on an empty trace, else slowdowns sorted by size.   *)
(* With no completed request in the window but other rows in the trace,   *)
(* calculate_slowdown's apply_along_axis gets zero rows and raises.        *)
(***************************************************************************)
CalculateSlowdown ==
  /\ pc = "load"
  /\ IF rows = <<>>
     THEN pc' \in {"skipped", "crashed"} /\ UNCHANGED data
     ELSE pc' = "bin" /\ data' \in SortedBySize(rows)
  /\ UNCHANGED <<rows, csv>>

(***************************************************************************)
(* Lines 78-94: too few samples for a bin return; otherwise                *)
(* get_slowdown_vs_size sorts again (line 162) and bins, and the rows are  *)
(* written.  bin_count <= the number of samples, so the clamp at line 163  *)
(* never applies.                                                          *)
(***************************************************************************)
WriteSlowdown ==
  LET bc == BinCount(Len(data)) IN
  /\ pc = "bin"
  /\ IF bc = 0
     THEN pc' = "skipped" /\ UNCHANGED csv
     ELSE pc' = "done" /\ \E s \in SortedBySize(data) : csv' = SlowdownVsSize(s, bc)
  /\ UNCHANGED <<rows, data>>

Ended ==
  /\ pc \in {"done", "skipped", "crashed"}
  /\ UNCHANGED vars

Next == CalculateSlowdown \/ WriteSlowdown \/ Ended

Spec == Init /\ [][Next]_vars /\ WF_vars(CalculateSlowdown \/ WriteSlowdown)

-----------------------------------------------------------------------------
Reported == FoldLeft(LAMBDA acc, e : acc (+) ToBag(e.samples), EmptyBag, csv)

(***************************************************************************)
(* slowdown.csv lists sizes in increasing order, and every request of a    *)
(* row is no larger than any request of a later row.                       *)
(***************************************************************************)
SizesAscending ==
  pc = "done" =>
    \A i, j \in DOMAIN csv : i < j =>
      /\ csv[i].key < csv[j].key
      /\ \A x \in ToSet(csv[i].samples), y \in ToSet(csv[j].samples) : x.size <= y.size

(* No request is counted in two rows of slowdown.csv. *)
NoSampleCountedTwice ==
  pc = "done" => Reported \sqsubseteq ToBag(rows)

(***************************************************************************)
(* Every completed request is counted in some row of slowdown.csv: the     *)
(* bins "such that each bin has the same number of req-resp pairs" cover   *)
(* the trace.                                                              *)
(***************************************************************************)
EverySampleReported ==
  pc = "done" => Reported = ToBag(rows)

====
