---------------------------- MODULE MC_ThreadDecl ----------------------------
(***************************************************************************)
(* Lines of a .sh file, as token sequences.                                *)
(***************************************************************************)
EXTENDS ThreadDecl

CONSTANTS NoDeclaration

(* Declarations as spec 4.1 describes them, and lines that are not. *)
MC_WellFormed ==
  { <<"max_threads", "=", "'", "2", "'">>,
    <<"max_threads", " ", "=", " ", "\"", "4", "\"">>,
    <<"max_threads", "=", "\"", "0", "8", "\"">>,
    <<"x", "=", "'", "2", "'">>,
    <<"max_threads", "=", "$n">>,
    <<"max_threads", "=", "'", "'">> }

(* Lines the regex also accepts: a comment, another key, mixed quotes. *)
MC_Loose ==
  { <<"max_threads", "=", "'", "2", "'">>,
    <<"#", "max_threads", "=", "'", "4", "'">>,
    <<"my_", "max_threads", "=", "'", "4", "'">>,
    <<"max_threads", "=", "'", "2", "\"">> }

(* A declaration of zero threads. *)
MC_Zero ==
  { <<"max_threads", "=", "'", "2", "'">>,
    <<"max_threads", "=", "'", "0", "'">>,
    <<"x", "=", "'", "2", "'">> }

====
