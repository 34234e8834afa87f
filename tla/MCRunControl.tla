---------------------------- MODULE MCRunControl ----------------------------
(***************************************************************************)
(* A RAM of four words with a program in it: a straight run into a         *)
(* conditional branch back, and after it an instruction that fails.        *)
(***************************************************************************)
EXTENDS RunControl, Integers

MCAddr == 0 .. 3
MCInsn == {"next", "branch", "bad"}
MCProg == [a \in MCAddr |-> CASE a \in {0, 1} -> "next"
                              [] a = 2 -> "branch"
                              [] OTHER -> "bad"]
MCFails == -1
MCOutcome ==
    [w \in MCAddr \X MCInsn |->
        CASE w[2] = "next"   -> {IF w[1] = 3 THEN MCFails ELSE w[1] + 1}
          [] w[2] = "branch" -> {0, IF w[1] = 3 THEN MCFails ELSE w[1] + 1}
          [] OTHER           -> {MCFails}]
=============================================================================
