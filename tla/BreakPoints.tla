----------------------------- MODULE BreakPoints -----------------------------
(***************************************************************************)
(* The break-point table of cpu.c: an array of rows of which the first     *)
(* num_break_points hold an address and the others the sentinel            *)
(* INVALID_BREAK_POINT, kept compact by CuRemoveBreakPoint so that         *)
(* IsBreakPoint may stop at num_break_points.                              *)
(*                                                                         *)
(* CuAddBreakPoint is called once, for the command line's break-point;     *)
(* CuRemoveBreakPoint is exported but not called yet.  A caller is taken   *)
(* never to ask for the removal of the sentinel itself.                    *)
(***************************************************************************)
EXTENDS Integers, Sequences

CONSTANTS
    Word,               \* the values of a uint32_t
    Addr,               \* those that CuIsValidPhyMemAddr accepts
    InvalidBreakPoint,  \* 0xFFFFFFFF
    MaxBreakPoints

ASSUME AddrAssumption == Addr \subseteq Word
ASSUME InvalidAssumption == InvalidBreakPoint \in Word \ Addr
ASSUME MaxAssumption == MaxBreakPoints \in Nat \ {0}

VARIABLES
    cup_break_points,
    num_break_points,
    ok                  \* what the last call returned

vars == <<cup_break_points, num_break_points, ok>>

Row == 0 .. MaxBreakPoints - 1
Free(i) == cup_break_points[i] = InvalidBreakPoint

Init ==
    /\ cup_break_points = [i \in Row |-> InvalidBreakPoint]
    /\ num_break_points = 0
    /\ ok = TRUE

\* The search stops at the first of num_break_points rows that matches.
IsBreakPoint(a) == \E i \in 0 .. num_break_points - 1 : cup_break_points[i] = a

Fail == ok' = FALSE /\ UNCHANGED <<cup_break_points, num_break_points>>
-----------------------------------------------------------------------------
\* Mutant: CuAddBreakPoint takes addresses outside RAM, the sentinel too.
AddUnchecked(a) ==
    \/ (\A i \in Row : ~Free(i)) /\ Fail
    \/ /\ \E i \in Row :
            /\ Free(i)
            /\ \A j \in 0 .. i - 1 : ~Free(j)
            /\ cup_break_points' = [cup_break_points EXCEPT ![i] = a]
       /\ num_break_points' = num_break_points + 1
       /\ ok' = TRUE

\* CuAddBreakPoint: the address goes to the first free row.
Add(a) ==
    \/ a \notin Addr /\ Fail
    \/ a \in Addr /\ (\A i \in Row : ~Free(i)) /\ Fail
    \/ /\ a \in Addr
       /\ \E i \in Row :
            /\ Free(i)
            /\ \A j \in 0 .. i - 1 : ~Free(j)
            /\ cup_break_points' = [cup_break_points EXCEPT ![i] = a]
       /\ num_break_points' = num_break_points + 1
       /\ ok' = TRUE

\* Where the compaction that starts at row i ends: at the last row, or before
\* a free one.
LastShifted(i, e) ==
    /\ e < MaxBreakPoints - 1 => Free(e + 1)
    /\ \A j \in i .. e - 1 : ~Free(j + 1)

\* Mutant: the last row is put in the place of the removed one.
RemoveSwapping(a) ==
    \/ (\A i \in Row : cup_break_points[i] # a) /\ Fail
    \/ /\ \E i \in Row :
            /\ cup_break_points[i] = a
            /\ \A j \in 0 .. i - 1 : cup_break_points[j] # a
            /\ \E e \in i .. MaxBreakPoints - 1 :
                 /\ LastShifted(i, e)
                 /\ cup_break_points' = [cup_break_points EXCEPT
                                           ![i] = cup_break_points[e],
                                           ![e] = InvalidBreakPoint]
       /\ num_break_points' = num_break_points - 1
       /\ ok' = TRUE

\* Mutant: the compaction is left out.
RemoveInPlace(a) ==
    \/ (\A i \in Row : cup_break_points[i] # a) /\ Fail
    \/ /\ \E i \in Row :
            /\ cup_break_points[i] = a
            /\ \A j \in 0 .. i - 1 : cup_break_points[j] # a
            /\ cup_break_points' = [cup_break_points EXCEPT ![i] = InvalidBreakPoint]
       /\ num_break_points' = num_break_points - 1
       /\ ok' = TRUE

\* CuRemoveBreakPoint: the rows after the first match move up by one.
Remove(a) ==
    \/ (\A i \in Row : cup_break_points[i] # a) /\ Fail
    \/ /\ \E i \in Row :
            /\ cup_break_points[i] = a
            /\ \A j \in 0 .. i - 1 : cup_break_points[j] # a
            /\ \E e \in i .. MaxBreakPoints - 1 :
                 /\ LastShifted(i, e)
                 /\ cup_break_points' =
                      [j \in Row |->
                         IF j \in i .. e - 1 THEN cup_break_points[j + 1]
                         ELSE IF j = e THEN InvalidBreakPoint
                         ELSE cup_break_points[j]]
       /\ num_break_points' = num_break_points - 1
       /\ ok' = TRUE

Next == \E a \in Word : Add(a) \/ (a # InvalidBreakPoint /\ Remove(a))

Spec == Init /\ [][Next]_vars
-----------------------------------------------------------------------------
TypeOK ==
    /\ cup_break_points \in [Row -> Addr \cup {InvalidBreakPoint}]
    /\ num_break_points \in 0 .. MaxBreakPoints
    /\ ok \in BOOLEAN

\* The table is compact: the rows in use are the first num_break_points.
Compact == \A i \in Row : Free(i) <=> i >= num_break_points

\* The shortened search of IsBreakPoint misses no row of the table, and never
\* takes an unused row for a break-point.
SearchIsExact ==
    \A a \in Word :
        IsBreakPoint(a) <=> /\ a # InvalidBreakPoint
                            /\ \E i \in Row : cup_break_points[i] = a

\* The table implements the list: the calls keep the order, drop nothing, and
\* fail only where the list has no room or does not hold the address.
List == INSTANCE BreakPointList WITH
    list <- [k \in 1 .. num_break_points |-> cup_break_points[k - 1]]

KeepsList == List!Spec
=============================================================================
