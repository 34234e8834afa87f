-------------------------------- MODULE Repl --------------------------------
(***************************************************************************)
(* What the monitor promises about `.`: "Repeat last command."  The last   *)
(* command is the last line that does not start with a dot; it is the      *)
(* empty line, and then there is none, if that is what was entered.        *)
(***************************************************************************)
EXTENDS Sequences

CONSTANTS Line, Dot

VARIABLES last,     \* the line that `.` repeats
          now       \* the command that is being obeyed, a set of one or none

StartsWithDot(l) == l # <<>> /\ l[1] = Dot

Init == last = <<>> /\ now = {}

Enter == /\ now = {}
         /\ \E l \in Line : /\ now' = {l}
                            /\ last' = IF StartsWithDot(l) THEN last ELSE l

Repeat == /\ now = {<<Dot>>} /\ last # <<>>
          /\ now' = {last}
          /\ UNCHANGED last

Finish == now' = {} /\ UNCHANGED last

Next == Enter \/ Repeat \/ Finish

Spec == Init /\ [][Next]_<<last, now>>
=============================================================================
