--------------------------- MODULE MC_SlowdownBins ---------------------------
(* Three sizes and two slowdowns; one request per bin (500 in the code). *)
EXTENDS SlowdownBins

====
