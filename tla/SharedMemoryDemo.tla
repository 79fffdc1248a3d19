-------------------------- MODULE SharedMemoryDemo --------------------------
(***************************************************************************)
(* SharedMemory's property under the name that MCUnits checks for a few    *)
(* lines and UnitProofs proves for any number of them.                     *)
(***************************************************************************)
EXTENDS Integers

CONSTANTS Lines, Letters
VARIABLES written_by_you, some_text, copying, writer, reader, printed, wiped

Sh == INSTANCE SharedMemory

(* "end" is the last line, and no other begins with it: shm2 stops there.  *)
ASSUME ShAssumption ==
  /\ Lines \in Nat \ {0}
  /\ Letters \in [1..Lines -> SUBSET (1..3)]
  /\ \A line \in 1..Lines : Letters[line] = 1..3 <=> line = Lines

(* shm1 prints whole lines, each once and in order, misses none before its *)
(* last but those its own start wiped, and stops only after a line that    *)
(* spells "end" alone or together with the next (shm1.c, shm2.c).          *)
ShInOrder == Sh!InOrder
=============================================================================
