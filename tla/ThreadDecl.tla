------------------------------ MODULE ThreadDecl ------------------------------
(***************************************************************************)
(* run_many.py's job descriptor extractor, get_required_threads (lines     *)
(* 13-25), and the check main() makes of its result (lines 96-107).       *)
(*                                                                         *)
(* A line of a .sh file is a sequence of tokens: the identifier            *)
(* "max_threads", a blank " ", "=", the quotes "'" and "\"", digits, and a *)
(* few stand-ins for other text ("#", "my_", "$n", "x").  The regex        *)
(*      max_threads\s*=\s*['"](\d+)['"]                                    *)
(* is searched (re.search) in each line; its classes are disjoint, so the  *)
(* greedy match below is the only one.                                     *)
(***************************************************************************)
EXTENDS Naturals, Sequences, SequencesExt

CONSTANTS
  LineChoices,    \* the lines a file may contain
  MaxLines,       \* the longest file
  total_threads,  \* --threads
  Missing         \* get_required_threads raised "max_threads not set"

Key == "max_threads"
Quotes == {"'", "\""}
DigitValue == "0" :> 0 @@ "2" :> 2 @@ "4" :> 4 @@ "8" :> 8
IsDigit(t) == t \in DOMAIN DigitValue

ASSUME Missing \notin Nat /\ total_threads \in Nat

(* The first index at or after i whose token is not a blank. *)
SkipBlanks(l, i) ==
  LET j == SelectInSubSeq(l, i, Len(l), LAMBDA t : t # " ")
  IN IF j = 0 THEN Len(l) + 1 ELSE j

(***************************************************************************)
(* The pattern anchored at index i: group 1 (the digits), or <<>> if it    *)
(* does not match there.  The closing quote may differ from the opening.   *)
(***************************************************************************)
MatchAt(l, i) ==
  LET eq    == SkipBlanks(l, i + 1)
      open  == SkipBlanks(l, eq + 1)
      nd    == SelectInSubSeq(l, open + 1, Len(l), LAMBDA t : ~IsDigit(t))
      close == IF nd = 0 THEN Len(l) + 1 ELSE nd
  IN IF /\ l[i] = Key
        /\ eq <= Len(l) /\ l[eq] = "="
        /\ open <= Len(l) /\ l[open] \in Quotes
        /\ close > open + 1
        /\ close <= Len(l) /\ l[close] \in Quotes
     THEN SubSeq(l, open + 1, close - 1)
     ELSE <<>>

(* thread_pattern.search(line): the leftmost match. *)
Search(l) ==
  LET I == {i \in DOMAIN l : MatchAt(l, i) # <<>>}
  IN IF I = {} THEN <<>> ELSE MatchAt(l, Min(I))

(* int(m.group(1)); leading zeros are allowed. *)
ToInt(ds) == FoldLeft(LAMBDA acc, t : 10 * acc + DigitValue[t], 0, ds)

(* Mutant: the loop keeps reading and the last matching line wins. *)
GetRequiredThreadsLast(text) ==
  LET k == SelectLastInSeq(text, LAMBDA l : Search(l) # <<>>)
  IN IF k = 0 THEN Missing ELSE ToInt(Search(text[k]))

(* Lines 20-25: the first line that matches, else the exception. *)
GetRequiredThreads(text) ==
  LET k == SelectInSeq(text, LAMBDA l : Search(l) # <<>>)
  IN IF k = 0 THEN Missing ELSE ToInt(Search(text[k]))

Files == SeqOf(LineChoices, MaxLines)

VARIABLES
  text,     \* the lines of the .sh file
  req,      \* what get_required_threads returned, or Missing
  verdict   \* "unread", "accepted" (appended to pending_jobs) or "rejected"

vars == <<text, req, verdict>>

Init ==
  /\ text \in Files
  /\ req = Missing
  /\ verdict = "unread"

(***************************************************************************)
(* Lines 96-107 for one file: extract, reject a job above the budget; the  *)
(* exception of either ends main() with sys.exit(1).                       *)
(***************************************************************************)
Extract ==
  LET r == GetRequiredThreads(text) IN
  /\ verdict = "unread"
  /\ req' = r
  /\ verdict' = IF r = Missing \/ r > total_threads THEN "rejected" ELSE "accepted"
  /\ UNCHANGED text

Ended ==
  /\ verdict # "unread"
  /\ UNCHANGED vars

Next == Extract \/ Ended

Spec == Init /\ [][Next]_vars /\ WF_vars(Extract)

-----------------------------------------------------------------------------
(***************************************************************************)
(* The reference of spec 4.1: a declaration is an assignment of a quoted   *)
(* thread count to the key, single- or double-quoted alike, blanks aside.  *)
(***************************************************************************)
Unblanked(l) == SelectSeq(l, LAMBDA t : t # " ")
IsDeclaration(l) ==
  LET u == Unblanked(l) IN
  /\ Len(u) >= 5
  /\ u[1] = Key /\ u[2] = "=" /\ u[3] \in Quotes /\ u[Len(u)] = u[3]
  /\ \A k \in 4..(Len(u) - 1) : IsDigit(u[k])
Declared(l) == SelectSeq(Unblanked(l), IsDigit)
SpecRequiredThreads(lines) ==
  LET k == SelectInSeq(lines, IsDeclaration)
  IN IF k = 0 THEN Missing ELSE ToInt(Declared(lines[k]))

(***************************************************************************)
(* get_required_threads returns the count of the file's first declaration, *)
(* and raises exactly when the file has none (spec 4.1).                   *)
(***************************************************************************)
ExtractsFirstDeclaration ==
  verdict # "unread" => req = SpecRequiredThreads(text)

(***************************************************************************)
(* A job main() accepts needs at least one thread and at most the budget   *)
(* (spec 3: requiredThreads > 0).                                          *)
(***************************************************************************)
AcceptedJobIsValid ==
  verdict = "accepted" => 0 < req /\ req <= total_threads

====
