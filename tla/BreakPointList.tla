--------------------------- MODULE BreakPointList ---------------------------
(***************************************************************************)
(* What the break-point calls of cpu.h promise: a list of addresses in the *)
(* order in which they were added, with room for MaxBreakPoints of them.   *)
(* An address may be listed more than once.                                *)
(***************************************************************************)
EXTENDS Integers, Sequences

CONSTANTS Word,            \* every argument a caller can pass
          Addr,            \* those that are addresses in RAM
          MaxBreakPoints

VARIABLES list, ok      \* ok: what the last call returned

bvars == <<list, ok>>

Init == list = <<>> /\ ok = TRUE

Refuse == ok' = FALSE /\ UNCHANGED list

\* s without its k-th element.
Without(s, k) ==
    [i \in 1 .. Len(s) - 1 |-> IF i < k THEN s[i] ELSE s[i + 1]]

Add(a) ==
    /\ a \in Addr
    /\ Len(list) < MaxBreakPoints
    /\ list' = Append(list, a)
    /\ ok' = TRUE

RefuseAdd(a) ==
    /\ a \notin Addr \/ Len(list) = MaxBreakPoints
    /\ Refuse

\* The first listing of the address goes.
Remove(a) ==
    \E k \in 1 .. Len(list) :
        /\ list[k] = a
        /\ \A j \in 1 .. k - 1 : list[j] # a
        /\ list' = Without(list, k)
        /\ ok' = TRUE

RefuseRemove(a) ==
    /\ \A k \in 1 .. Len(list) : list[k] # a
    /\ Refuse

Next == \E a \in Word : Add(a) \/ RefuseAdd(a) \/ Remove(a) \/ RefuseRemove(a)

Spec == Init /\ [][Next]_bvars
=============================================================================
