---------------------------- MODULE MC_MacTables ----------------------------
(* MACs of 6 hex digits; BASE_MAC 0x0AAA000000A3 scaled to 0x0AA0A3. *)
EXTENDS MacTables

(* One leading zero nibble (as every BASE_MAC of the code), or none. *)
MC_Bases == {696483, 11182243}

(* Two leading zero nibbles, and a base whose hosts run past the width. *)
MC_EdgeBases == {41123, 16777214}
====
