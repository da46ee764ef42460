--------------------------- MODULE MCMemoryIndex ---------------------------
(* MemoryIndex for TLC: two providers in one server, or one in each of two. *)
EXTENDS MemoryIndex

CONSTANTS s, t, ada, hashing

Pair == [x \in {s, t} |-> {ada}]

OneSetting == {[x \in {s, t} |-> IF x = s THEN {ada, hashing} ELSE {}], Pair}
=============================================================================
