---------------------------- MODULE MCBreakPoints ----------------------------
(* Three addresses in RAM, one outside it, and the sentinel. *)
EXTENDS BreakPoints

MCAddr == 0 .. 2
MCWord == 0 .. 4
MCInvalid == 4
=============================================================================
