-------------------------- MODULE BreakPointsProofs --------------------------
(***************************************************************************)
(* Proofs about the break-point table, for any number of rows and any set  *)
(* of addresses.                                                           *)
(***************************************************************************)
EXTENDS BreakPoints, SequenceTheorems, TLAPS

Inv == TypeOK /\ Compact

AddTo(a, i) ==
    /\ a \in Addr /\ i \in Row
    /\ cup_break_points' = [cup_break_points EXCEPT ![i] = a]
    /\ num_break_points' = num_break_points + 1
    /\ ok' = TRUE

RemoveFrom(a, i) ==
    /\ i \in Row
    /\ cup_break_points[i] = a
    /\ \A j \in 0 .. i - 1 : cup_break_points[j] # a
    /\ cup_break_points' =
         [j \in Row |->
            IF j \in i .. num_break_points - 2 THEN cup_break_points[j + 1]
            ELSE IF j = num_break_points - 1 THEN InvalidBreakPoint
            ELSE cup_break_points[j]]
    /\ num_break_points' = num_break_points - 1
    /\ ok' = TRUE

LEMMA InitInv == Init => Inv
BY MaxAssumption DEF Init, Inv, TypeOK, Compact, Row, Free

\* The first free row is the one after the rows in use.
LEMMA AddCases ==
    ASSUME Inv, NEW a \in Word, Add(a)
    PROVE  \/ (a \notin Addr \/ num_break_points = MaxBreakPoints) /\ Fail
           \/ num_break_points < MaxBreakPoints /\ AddTo(a, num_break_points)
<1> USE MaxAssumption DEF Inv, TypeOK, Compact, Row
<1>1. CASE a \notin Addr /\ Fail
  BY <1>1
<1>2. CASE a \in Addr /\ (\A i \in Row : ~Free(i)) /\ Fail
  <2>1. num_break_points = MaxBreakPoints
    <3>1. SUFFICES ASSUME num_break_points < MaxBreakPoints PROVE FALSE
      OBVIOUS
    <3>2. num_break_points \in Row
      BY <3>1
    <3> QED BY <1>2, <3>2
  <2> QED BY <1>2, <2>1
<1>3. CASE \E i \in Row : /\ a \in Addr
                          /\ Free(i)
                          /\ \A j \in 0 .. i - 1 : ~Free(j)
                          /\ AddTo(a, i)
  <2>1. PICK i \in Row : /\ Free(i)
                         /\ \A j \in 0 .. i - 1 : ~Free(j)
                         /\ AddTo(a, i)
    BY <1>3
  <2>2. i >= num_break_points
    BY <2>1
  <2>3. ~(num_break_points \in 0 .. i - 1)
    BY <2>1
  <2>4. i = num_break_points
    BY <2>2, <2>3
  <2> QED BY <2>1, <2>4
<1> QED BY <1>1, <1>2, <1>3 DEF Add, AddTo

\* The rows that move up are those in use after the first match, and the
\* last of them becomes free.
LEMMA RemoveCases ==
    ASSUME Inv, NEW a \in Word \ {InvalidBreakPoint}, Remove(a)
    PROVE  \/ (\A i \in Row : cup_break_points[i] # a) /\ Fail
           \/ \E i \in 0 .. num_break_points - 1 : RemoveFrom(a, i)
<1> USE MaxAssumption DEF Inv, TypeOK, Compact, Row
<1>1. CASE (\A i \in Row : cup_break_points[i] # a) /\ Fail
  BY <1>1
<1>2. ASSUME NEW i \in Row, NEW e \in i .. MaxBreakPoints - 1,
             cup_break_points[i] = a,
             \A j \in 0 .. i - 1 : cup_break_points[j] # a,
             LastShifted(i, e),
             cup_break_points' =
               [j \in Row |->
                  IF j \in i .. e - 1 THEN cup_break_points[j + 1]
                  ELSE IF j = e THEN InvalidBreakPoint
                  ELSE cup_break_points[j]],
             num_break_points' = num_break_points - 1,
             ok' = TRUE
      PROVE  i \in 0 .. num_break_points - 1 /\ RemoveFrom(a, i)
  <2>1. ~Free(i) /\ i < num_break_points
    BY <1>2 DEF Free
  <2>2. e >= num_break_points - 1
    BY <1>2, <2>1 DEF LastShifted
  <2>3. ~(e >= num_break_points)
    <3>1. SUFFICES ASSUME e >= num_break_points PROVE FALSE
      OBVIOUS
    <3>2. num_break_points - 1 \in i .. e - 1 /\ num_break_points \in Row
      BY <2>1, <3>1
    <3>3. ~Free((num_break_points - 1) + 1)
      BY <1>2, <3>2 DEF LastShifted
    <3> QED BY <3>2, <3>3
  <2>4. e = num_break_points - 1 /\ e - 1 = num_break_points - 2
    BY <2>2, <2>3
  <2> QED BY <1>2, <2>1, <2>4 DEF RemoveFrom
<1> QED BY <1>1, <1>2 DEF Remove

LEMMA StepInv == Inv /\ [Next]_vars => Inv'
<1> SUFFICES ASSUME Inv, [Next]_vars PROVE Inv'
  OBVIOUS
<1> USE MaxAssumption, InvalidAssumption DEF Inv, TypeOK, Compact, Row, Free
<1>1. CASE Fail
  BY <1>1 DEF Fail
<1>2. ASSUME NEW a, num_break_points < MaxBreakPoints, AddTo(a, num_break_points)
      PROVE  Inv'
  BY <1>2 DEF AddTo
<1>3. ASSUME NEW a, NEW i \in 0 .. num_break_points - 1, RemoveFrom(a, i)
      PROVE  Inv'
  <2>1. /\ cup_break_points' \in [Row -> Addr \cup {InvalidBreakPoint}]
        /\ num_break_points' \in 0 .. MaxBreakPoints
    BY <1>3 DEF RemoveFrom
  <2>2. Compact'
    BY <1>3 DEF RemoveFrom
  <2> QED BY <1>3, <2>1, <2>2 DEF RemoveFrom
<1>4. CASE UNCHANGED vars
  BY <1>4 DEF vars
<1> QED BY <1>1, <1>2, <1>3, <1>4, AddCases, RemoveCases DEF Next

\* The table stays compact, whatever is added and removed.
THEOREM StaysCompact == Spec => []Inv
BY InitInv, StepInv, PTL DEF Spec

\* Whatever is added and removed, the table holds addresses of RAM and sentinels,
\* and num_break_points never leaves the table.
THEOREM TypeCorrect == Spec => []TypeOK
BY StaysCompact, PTL DEF Inv

\* Looking only at the first num_break_points rows, IsBreakPoint finds every
\* address in the table and nothing else.
THEOREM SearchIsAlwaysExact == Spec => []SearchIsExact
<1>1. Inv => SearchIsExact
  BY MaxAssumption, InvalidAssumption
  DEF Inv, TypeOK, Compact, Row, Free, SearchIsExact, IsBreakPoint
<1> QED BY <1>1, StaysCompact, PTL
-----------------------------------------------------------------------------
Listed == [k \in 1 .. num_break_points |-> cup_break_points[k - 1]]

LEMMA ListedType ==
    ASSUME Inv
    PROVE  /\ Listed \in Seq(Addr)
           /\ Len(Listed) = num_break_points
           /\ \A k \in 1 .. num_break_points : Listed[k] = cup_break_points[k - 1]
<1>1. Listed \in [1 .. num_break_points -> Addr]
  BY MaxAssumption, InvalidAssumption DEF Inv, TypeOK, Compact, Row, Free, Listed
<1>2. num_break_points \in Nat
  BY DEF Inv, TypeOK
<1> QED BY <1>1, <1>2 DEF Listed

LEMMA AddLists ==
    ASSUME Inv, NEW a \in Addr, num_break_points < MaxBreakPoints,
           AddTo(a, num_break_points)
    PROVE  Listed' = Append(Listed, a)
<1> DEFINE n == num_break_points
<1>1. n \in Nat /\ n' = n + 1 /\ n \in Row
  BY MaxAssumption DEF Inv, TypeOK, AddTo, Row
<1>2. \A k \in 1 .. n : cup_break_points'[k - 1] = Listed[k]
  BY <1>1 DEF Inv, TypeOK, AddTo, Listed, Row
<1>3. cup_break_points'[n] = a
  BY <1>1 DEF Inv, TypeOK, AddTo
<1>4. Listed' = [k \in 1 .. n + 1 |-> cup_break_points'[k - 1]]
  BY <1>1 DEF Listed
<1>5. Append(Listed, a) = [k \in 1 .. n + 1 |-> IF k = n + 1 THEN a ELSE Listed[k]]
  <2>1. ASSUME NEW s \in Seq(Addr), Len(s) = n + 1,
               \A k \in 1 .. n : s[k] = Listed[k],
               s[n + 1] = a
        PROVE  s = [k \in 1 .. n + 1 |-> IF k = n + 1 THEN a ELSE Listed[k]]
    BY <1>1, <2>1
  <2>2. /\ Append(Listed, a) \in Seq(Addr)
        /\ Len(Append(Listed, a)) = n + 1
        /\ \A k \in 1 .. n : Append(Listed, a)[k] = Listed[k]
        /\ Append(Listed, a)[n + 1] = a
    BY ListedType, AppendProperties
  <2> HIDE DEF n
  <2> QED BY <2>1, <2>2, Zenon
<1> QED BY <1>1, <1>2, <1>3, <1>4, <1>5

LEMMA RemoveLists ==
    ASSUME Inv, NEW a, NEW i \in 0 .. num_break_points - 1, RemoveFrom(a, i)
    PROVE  Listed' = List!Without(Listed, i + 1)
<1> DEFINE n == num_break_points
<1>1. n \in Nat \ {0} /\ n' = n - 1 /\ n <= MaxBreakPoints
  BY MaxAssumption DEF Inv, TypeOK, RemoveFrom
<1>2. Listed' = [k \in 1 .. n - 1 |-> cup_break_points'[k - 1]]
  BY <1>1 DEF Listed
<1>3. List!Without(Listed, i + 1) =
        [k \in 1 .. n - 1 |-> IF k < i + 1 THEN Listed[k] ELSE Listed[k + 1]]
  BY ListedType DEF List!Without
<1>4. ASSUME NEW k \in 1 .. n - 1
      PROVE  cup_break_points'[k - 1] =
                 IF k < i + 1 THEN Listed[k] ELSE Listed[k + 1]
  <2>1. k - 1 \in Row /\ k \in Row /\ k - 1 # n - 1
    BY <1>1, MaxAssumption DEF Row
  <2>2. CASE k < i + 1
    BY <1>1, <2>1, <2>2 DEF RemoveFrom, Listed
  <2>3. CASE ~(k < i + 1)
    <3>1. k - 1 \in i .. n - 2 /\ (k - 1) + 1 = k
      BY <1>1, <2>3
    <3>2. cup_break_points'[k - 1] = cup_break_points[k]
      BY <2>1, <3>1 DEF RemoveFrom
    <3>3. Listed[k + 1] = cup_break_points[k]
      BY <1>1 DEF Listed
    <3> QED BY <2>3, <3>2, <3>3
  <2> QED BY <2>2, <2>3
<1> QED BY <1>2, <1>3, <1>4

\* The table implements the list of break-points: an address that is added
\* goes to the end, the first of equal addresses is removed, the others keep
\* their order, and a call fails only when the list is full or does not hold
\* the address.
THEOREM ImplementsList == Spec => KeepsList
<1>1. Init => List!Init
  BY DEF Init, List!Init
<1>2. Inv /\ [Next]_vars => [List!Next]_(List!bvars)
  <2> SUFFICES ASSUME Inv, [Next]_vars PROVE [List!Next]_(List!bvars)
    OBVIOUS
  <2>1. CASE UNCHANGED vars
    BY <2>1 DEF vars, List!bvars
  <2>2. ASSUME Fail PROVE List!Refuse
    BY <2>2 DEF Fail, List!Refuse
  <2>3. ASSUME NEW a \in Word, Add(a) PROVE List!Add(a) \/ List!RefuseAdd(a)
    <3>1. CASE (a \notin Addr \/ num_break_points = MaxBreakPoints) /\ Fail
      BY <2>2, <3>1, ListedType DEF List!RefuseAdd, Listed
    <3>2. CASE num_break_points < MaxBreakPoints /\ AddTo(a, num_break_points)
      <4>1. a \in Addr /\ ok' = TRUE
        BY <3>2 DEF AddTo
      <4> QED BY <3>2, <4>1, AddLists, ListedType DEF List!Add, Listed
    <3> QED BY <2>3, <3>1, <3>2, AddCases
  <2>4. ASSUME NEW a \in Word \ {InvalidBreakPoint}, Remove(a)
        PROVE  List!Remove(a) \/ List!RefuseRemove(a)
    <3>1. CASE (\A i \in Row : cup_break_points[i] # a) /\ Fail
      <4>1. \A k \in 1 .. num_break_points : Listed[k] # a
        BY <3>1, ListedType, MaxAssumption DEF Inv, TypeOK, Row
      <4> QED BY <2>2, <3>1, <4>1, ListedType DEF List!RefuseRemove, Listed
    <3>2. CASE \E i \in 0 .. num_break_points - 1 : RemoveFrom(a, i)
      <4>1. PICK i \in 0 .. num_break_points - 1 : RemoveFrom(a, i)
        BY <3>2
      <4>2. /\ i + 1 \in 1 .. Len(Listed)
            /\ Listed[i + 1] = a
            /\ \A j \in 1 .. (i + 1) - 1 : Listed[j] # a
        <5>1. i \in Int /\ num_break_points \in Int
          BY DEF Inv, TypeOK
        <5>2. \A j \in 1 .. i : j \in 1 .. num_break_points /\ j - 1 \in 0 .. i - 1
          BY <5>1
        <5>3. i + 1 \in 1 .. num_break_points /\ (i + 1) - 1 = i
          BY <5>1
        <5>4. Listed[i + 1] = a
          BY <4>1, <5>3, ListedType DEF RemoveFrom
        <5>5. \A j \in 1 .. i : Listed[j] # a
          BY <4>1, <5>2, ListedType DEF RemoveFrom
        <5> QED BY <5>3, <5>4, <5>5, ListedType
      <4>3. Listed' = List!Without(Listed, i + 1) /\ ok' = TRUE
        BY <4>1, RemoveLists DEF RemoveFrom
      <4> QED BY <4>2, <4>3 DEF List!Remove, Listed
    <3> QED BY <2>4, <3>1, <3>2, RemoveCases
  <2> QED BY <2>1, <2>3, <2>4 DEF Next, List!Next
<1> QED BY <1>1, <1>2, StaysCompact, PTL DEF Spec, KeepsList, List!Spec
=============================================================================
