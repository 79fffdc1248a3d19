---------------------------- MODULE SharedMemory ----------------------------
(***************************************************************************)
(* shm2 hands lines of text to shm1 through a flag and a buffer in shared  *)
(* memory; the flag is all they have to keep apart.  Either may be started *)
(* first.  Lines are numbered, the last one is "end".  A buffer read while *)
(* it is being copied to may give the old line, the new one or a mixture.  *)
(***************************************************************************)
EXTENDS Integers, Sequences

CONSTANTS
  Lines,     \* number of lines the user enters, "end" being the last
  Letters    \* the places, of three, where a line has the letter of "end"

Places == 1..3
Torn == -1   \* a mixture of two lines

VARIABLES
  written_by_you,
  some_text,   \* number of the line in the buffer, 0 before the first
  copying,     \* the line strncpy is at, or 0
  writer,      \* shm2: "test", "copy", "raise" or "done"
  reader,      \* shm1: "start", "test", "print", "lower", "compare" or "done"
  printed,     \* the lines shm1 has printed
  wiped        \* lines whose flag shm1's start has lowered

vars == <<written_by_you, some_text, copying, writer, reader, printed, wiped>>

Init ==
  /\ written_by_you = 0 /\ some_text = 0 /\ copying = 0
  /\ writer = "test" /\ reader = "start" /\ printed = <<>> /\ wiped = {}

(* What a reader of the buffer may see.                                    *)
Seen == {some_text} \cup (IF copying = 0 THEN {} ELSE {copying, Torn})

-----------------------------------------------------------------------------
(* shm2's loop.                                                            *)
Free_Always == TRUE
Free == written_by_you = 0

Enter ==
  /\ writer = "test" /\ Free
  /\ copying' = some_text + 1 /\ writer' = "copy"
  /\ UNCHANGED <<written_by_you, some_text, reader, printed, wiped>>

Copied ==
  /\ writer = "copy"
  /\ some_text' = copying /\ copying' = 0 /\ writer' = "raise"
  /\ UNCHANGED <<written_by_you, reader, printed, wiped>>

Raise ==
  /\ writer = "raise"
  /\ written_by_you' = 1
  /\ writer' = IF some_text = Lines THEN "done" ELSE "test"
  /\ UNCHANGED <<some_text, copying, reader, printed, wiped>>

-----------------------------------------------------------------------------
(* shm1: the flag is lowered once before the loop, and then after printing.*)
Start ==
  /\ reader = "start" /\ reader' = "test"
  /\ written_by_you' = 0
  /\ wiped' = IF written_by_you = 1 THEN wiped \cup {some_text} ELSE wiped
  /\ UNCHANGED <<some_text, copying, writer, printed>>

Test ==
  /\ reader = "test" /\ written_by_you = 1
  /\ reader' = "print"
  /\ UNCHANGED <<written_by_you, some_text, copying, writer, printed, wiped>>

PrintLine ==
  /\ reader = "print" /\ reader' = "lower"
  /\ \E line \in Seen : printed' = Append(printed, line)
  /\ UNCHANGED <<written_by_you, some_text, copying, writer, wiped>>

Lower ==
  /\ reader = "lower" /\ reader' = "compare"
  /\ written_by_you' = 0
  /\ UNCHANGED <<some_text, copying, writer, printed, wiped>>

(* The comparison comes after the flag is down, so shm2 may be copying: in *)
(* each place strncmp meets the old letter or the new one.  One that lasts *)
(* from before the copy to after it finds nothing else.                    *)
Found ==
  LET old == Letters[some_text]
      new == IF copying = 0 THEN old ELSE Letters[copying]
  IN  {places \in SUBSET Places : old \cap new \subseteq places /\ places \subseteq old \cup new}

Compare ==
  /\ reader = "compare"
  /\ \E places \in Found : reader' = IF places = Places THEN "done" ELSE "test"
  /\ UNCHANGED <<written_by_you, some_text, copying, writer, printed, wiped>>

Writer == Enter \/ Copied \/ Raise
Reader == Start \/ Test \/ PrintLine \/ Lower \/ Compare

Next == Writer \/ Reader

Spec == Init /\ [][Next]_vars

-----------------------------------------------------------------------------
(* The line, or it and the one copied over it between them, spell "end".   *)
SpellEnd(line) ==
  line = Lines \/ (line < Lines /\ Letters[line] \cup Letters[line + 1] = Places)

(* shm1 prints whole lines, each once and in order, misses none before its *)
(* last but those its own start wiped, and stops only after a line that    *)
(* spells "end" alone or together with the next.                           *)
InOrder ==
  /\ \A i \in 1..Len(printed) : printed[i] \in 1..Lines
  /\ \A i \in 1..Len(printed)-1 : printed[i + 1] = printed[i] + 1
  /\ printed # <<>> => \A line \in 1..printed[1]-1 : line \in wiped
  /\ reader = "done" => printed # <<>> /\ SpellEnd(printed[Len(printed)])

=============================================================================
