----------------------------- MODULE Sums_proofs -----------------------------
(***************************************************************************)
(* Proofs about the sums of Library, for amounts of any number and size.   *)
(* A sum is a function that is defined by itself: it is first shown to     *)
(* exist, as the shortest sum that does not would be one turn longer than  *)
(* one that does.  Everything else about sums has the same form of proof,  *)
(* the shortest beginning for which it fails.                              *)
(***************************************************************************)
EXTENDS Library_proofs, WellFoundedInduction

\* What every argument below rests on.
LEMMA Least ==
    ASSUME NEW T, T \subseteq Nat, T # {}
    PROVE  \E m \in T : \A k \in T : m <= k
<1>1. IsWellFoundedOn(OpToRel(<, Nat), Nat)
  BY NatLessThanWellFounded
<1>2. PICK m \in T : \A k \in T : <<k, m>> \notin OpToRel(<, Nat)
  BY <1>1, WFMin, Zenon
<1>3. \A k \in T : k \in Nat /\ m \in Nat /\ ~(k < m)
  BY <1>2 DEF OpToRel
<1>. QED
  BY <1>3

-----------------------------------------------------------------------------
(* The two sums, turn by turn.                                             *)

Amounts == Seq(Int)
Sums == Int \cup {Refused}

LEMMA PlusType ==
    ASSUME NEW total \in Sums, NEW amount \in Int
    PROVE  Plus(total, amount) \in Sums
  BY DEF Plus, Sums

AddedUp(s, n, g) ==
    g = [i \in 0 .. n |-> IF i = 0 THEN 0 ELSE Plus(g[i - 1], s[i])]
Totalled(s, n, g) ==
    g = [i \in 0 .. n |-> IF i = 0 THEN 0 ELSE g[i - 1] + s[i]]

LEMMA AddedUpExists ==
    ASSUME NEW s
    PROVE  \A n \in Nat : \E g : AddedUp(s, n, g)
<1>. DEFINE T == {n \in Nat : ~\E g : AddedUp(s, n, g)}
<1>. SUFFICES ASSUME T # {} PROVE FALSE
  OBVIOUS
<1>1. PICK n \in T : \A k \in T : n <= k
  <2>1. T \subseteq Nat
    OBVIOUS
  <2>. HIDE DEF T
  <2>. QED
    BY <2>1, Least
<1>2. CASE n = 0
  <2>1. AddedUp(s, 0, [i \in 0 .. 0 |-> 0])
    BY DEF AddedUp
  <2>. QED
    BY <1>1, <1>2, <2>1
<1>3. CASE n # 0
  <2>1. n - 1 \in Nat /\ n - 1 \notin T
    BY <1>1, <1>3
  <2>2. PICK g : AddedUp(s, n - 1, g)
    BY <2>1
  <2>. DEFINE h == [i \in 0 .. n |-> IF i = n THEN Plus(g[n - 1], s[n]) ELSE g[i]]
  <2>3. \A i \in 0 .. n : h[i] = IF i = 0 THEN 0 ELSE Plus(h[i - 1], s[i])
    <3>1. \A i \in 0 .. n - 1 : g[i] = IF i = 0 THEN 0 ELSE Plus(g[i - 1], s[i])
      BY <2>2 DEF AddedUp
    <3>2. \A i \in 0 .. n - 1 : h[i] = g[i]
      BY <2>1
    <3>3. h[n] = Plus(g[n - 1], s[n]) /\ h[n - 1] = g[n - 1]
      BY <2>1
    <3>. HIDE DEF h
    <3>. QED
      BY <1>3, <2>1, <3>1, <3>2, <3>3
  <2>4. AddedUp(s, n, h)
    <3>1. h = [i \in 0 .. n |-> h[i]]
      OBVIOUS
    <3>. HIDE DEF h
    <3>. QED
      BY <2>3, <3>1 DEF AddedUp
  <2>. QED
    BY <1>1, <2>4
<1>. QED
  BY <1>2, <1>3

LEMMA AddedUpAlike ==
    ASSUME NEW s, NEW n \in Nat, NEW g, AddedUp(s, n, g),
           NEW t, NEW m \in Nat, NEW h, AddedUp(t, m, h),
           NEW k \in Nat, k <= n, k <= m, \A i \in 1 .. k : s[i] = t[i]
    PROVE  g[k] = h[k]
<1>. DEFINE T == {i \in 0 .. k : g[i] # h[i]}
<1>. SUFFICES ASSUME T # {} PROVE FALSE
  OBVIOUS
<1>1. PICK i \in T : \A j \in T : i <= j
  <2>1. T \subseteq Nat
    OBVIOUS
  <2>. HIDE DEF T
  <2>. QED
    BY <2>1, Least
<1>2. /\ i \in 0 .. k /\ g[i] # h[i]
      /\ g[i] = IF i = 0 THEN 0 ELSE Plus(g[i - 1], s[i])
      /\ h[i] = IF i = 0 THEN 0 ELSE Plus(h[i - 1], t[i])
  BY <1>1 DEF AddedUp
<1>3. i # 0 => i - 1 \in 0 .. k /\ i - 1 \notin T
  BY <1>1
<1>. QED
  BY <1>2, <1>3

\* The function addMinorUnits runs through.
LEMMA AddMinorUnitsRuns ==
    ASSUME NEW s \in Amounts
    PROVE  \E g : AddedUp(s, Len(s), g) /\ AddMinorUnits(s) = g[Len(s)]
<1>. DEFINE g == CHOOSE g : AddedUp(s, Len(s), g)
<1>1. AddedUp(s, Len(s), g)
  <2>1. Len(s) \in Nat
    BY DEF Amounts
  <2>2. \E f : AddedUp(s, Len(s), f)
    BY <2>1, AddedUpExists, Zenon
  <2>. QED
    BY <2>2, Zenon
<1>2. AddMinorUnits(s) = g[Len(s)]
  BY Zenon DEF AddMinorUnits, AddedUp
<1>. QED
  BY <1>1, <1>2

-----------------------------------------------------------------------------
(* The same for the exact sum.                                             *)

LEMMA TotalledExists ==
    ASSUME NEW s
    PROVE  \A n \in Nat : \E g : Totalled(s, n, g)
<1>. DEFINE T == {n \in Nat : ~\E g : Totalled(s, n, g)}
<1>. SUFFICES ASSUME T # {} PROVE FALSE
  OBVIOUS
<1>1. PICK n \in T : \A k \in T : n <= k
  <2>1. T \subseteq Nat
    OBVIOUS
  <2>. HIDE DEF T
  <2>. QED
    BY <2>1, Least
<1>2. CASE n = 0
  <2>1. Totalled(s, 0, [i \in 0 .. 0 |-> 0])
    BY DEF Totalled
  <2>. QED
    BY <1>1, <1>2, <2>1
<1>3. CASE n # 0
  <2>1. n - 1 \in Nat /\ n - 1 \notin T
    BY <1>1, <1>3
  <2>2. PICK g : Totalled(s, n - 1, g)
    BY <2>1
  <2>. DEFINE h == [i \in 0 .. n |-> IF i = n THEN g[n - 1] + s[n] ELSE g[i]]
  <2>3. \A i \in 0 .. n : h[i] = IF i = 0 THEN 0 ELSE h[i - 1] + s[i]
    <3>1. \A i \in 0 .. n - 1 : g[i] = IF i = 0 THEN 0 ELSE g[i - 1] + s[i]
      BY <2>2 DEF Totalled
    <3>2. \A i \in 0 .. n - 1 : h[i] = g[i]
      BY <2>1
    <3>3. h[n] = g[n - 1] + s[n] /\ h[n - 1] = g[n - 1]
      BY <2>1
    <3>. HIDE DEF h
    <3>. QED
      BY <1>3, <2>1, <3>1, <3>2, <3>3
  <2>4. Totalled(s, n, h)
    <3>1. h = [i \in 0 .. n |-> h[i]]
      OBVIOUS
    <3>. HIDE DEF h
    <3>. QED
      BY <2>3, <3>1 DEF Totalled
  <2>. QED
    BY <1>1, <2>4
<1>. QED
  BY <1>2, <1>3

LEMMA TotalledAlike ==
    ASSUME NEW s, NEW n \in Nat, NEW g, Totalled(s, n, g),
           NEW t, NEW m \in Nat, NEW h, Totalled(t, m, h),
           NEW k \in Nat, k <= n, k <= m, \A i \in 1 .. k : s[i] = t[i]
    PROVE  g[k] = h[k]
<1>. DEFINE T == {i \in 0 .. k : g[i] # h[i]}
<1>. SUFFICES ASSUME T # {} PROVE FALSE
  OBVIOUS
<1>1. PICK i \in T : \A j \in T : i <= j
  <2>1. T \subseteq Nat
    OBVIOUS
  <2>. HIDE DEF T
  <2>. QED
    BY <2>1, Least
<1>2. /\ i \in 0 .. k /\ g[i] # h[i]
      /\ g[i] = IF i = 0 THEN 0 ELSE g[i - 1] + s[i]
      /\ h[i] = IF i = 0 THEN 0 ELSE h[i - 1] + t[i]
  BY <1>1 DEF Totalled
<1>3. i # 0 => i - 1 \in 0 .. k /\ i - 1 \notin T
  BY <1>1
<1>. QED
  BY <1>2, <1>3

LEMMA TotalRuns ==
    ASSUME NEW s \in Amounts
    PROVE  \E g : Totalled(s, Len(s), g) /\ Total(s) = g[Len(s)]
<1>. DEFINE g == CHOOSE g : Totalled(s, Len(s), g)
<1>1. Totalled(s, Len(s), g)
  <2>1. Len(s) \in Nat
    BY DEF Amounts
  <2>2. \E f : Totalled(s, Len(s), f)
    BY <2>1, TotalledExists, Zenon
  <2>. QED
    BY <2>2, Zenon
<1>2. Total(s) = g[Len(s)]
  BY Zenon DEF Total, Totalled
<1>. QED
  BY <1>1, <1>2

-----------------------------------------------------------------------------
(* What the sums of the beginnings of a sequence have to do with each other. *)

Beginning(s, i) == SubSeq(s, 1, i)

LEMMA Beginnings ==
    ASSUME NEW s \in Amounts, NEW i \in 0 .. Len(s)
    PROVE  /\ Beginning(s, i) \in Amounts
           /\ Len(Beginning(s, i)) = i
           /\ \A j \in 1 .. i : Beginning(s, i)[j] = s[j]
  BY DEF Beginning, Amounts

LEMMA WholeIsBeginning ==
    ASSUME NEW s \in Amounts
    PROVE  Beginning(s, Len(s)) = s
  BY DEF Beginning, Amounts

LEMMA AddMinorUnitsTurn ==
    ASSUME NEW s \in Amounts
    PROVE  /\ AddMinorUnits(Beginning(s, 0)) = 0
           /\ \A i \in 1 .. Len(s) :
                AddMinorUnits(Beginning(s, i)) =
                  Plus(AddMinorUnits(Beginning(s, i - 1)), s[i])
<1>1. AddMinorUnits(Beginning(s, 0)) = 0
  <2>1. PICK g : AddedUp(Beginning(s, 0), 0, g) /\ AddMinorUnits(Beginning(s, 0)) = g[0]
    <3>1. 0 \in 0 .. Len(s)
      BY DEF Amounts
    <3>. QED
      BY <3>1, Beginnings, AddMinorUnitsRuns
  <2>. QED
    BY <2>1 DEF AddedUp
<1>2. ASSUME NEW i \in 1 .. Len(s)
      PROVE  AddMinorUnits(Beginning(s, i)) =
               Plus(AddMinorUnits(Beginning(s, i - 1)), s[i])
  <2>0. i \in 0 .. Len(s) /\ i - 1 \in 0 .. Len(s) /\ i \in Nat /\ i - 1 \in Nat
    BY DEF Amounts
  <2>1. PICK g : AddedUp(Beginning(s, i), i, g) /\ AddMinorUnits(Beginning(s, i)) = g[i]
    BY <2>0, Beginnings, AddMinorUnitsRuns
  <2>2. PICK h : /\ AddedUp(Beginning(s, i - 1), i - 1, h)
                 /\ AddMinorUnits(Beginning(s, i - 1)) = h[i - 1]
    <3>1. /\ Beginning(s, i - 1) \in Amounts
          /\ Len(Beginning(s, i - 1)) = i - 1
      BY <2>0, Beginnings
    <3>. QED
      BY <3>1, AddMinorUnitsRuns
  <2>3. \A j \in 1 .. i - 1 : Beginning(s, i)[j] = Beginning(s, i - 1)[j]
    BY <2>0, Beginnings
  <2>4. g[i - 1] = h[i - 1]
    BY <2>0, <2>1, <2>2, <2>3, AddedUpAlike
  <2>5. g[i] = Plus(g[i - 1], Beginning(s, i)[i])
    BY <2>0, <2>1 DEF AddedUp
  <2>. QED
    BY <2>0, <2>1, <2>2, <2>4, <2>5, Beginnings
<1>. QED
  BY <1>1, <1>2

LEMMA TotalTurn ==
    ASSUME NEW s \in Amounts
    PROVE  /\ Total(Beginning(s, 0)) = 0
           /\ \A i \in 1 .. Len(s) :
                Total(Beginning(s, i)) =
                  Total(Beginning(s, i - 1)) + s[i]
<1>1. Total(Beginning(s, 0)) = 0
  <2>1. PICK g : Totalled(Beginning(s, 0), 0, g) /\ Total(Beginning(s, 0)) = g[0]
    <3>1. 0 \in 0 .. Len(s)
      BY DEF Amounts
    <3>. QED
      BY <3>1, Beginnings, TotalRuns
  <2>. QED
    BY <2>1 DEF Totalled
<1>2. ASSUME NEW i \in 1 .. Len(s)
      PROVE  Total(Beginning(s, i)) =
               Total(Beginning(s, i - 1)) + s[i]
  <2>0. i \in 0 .. Len(s) /\ i - 1 \in 0 .. Len(s) /\ i \in Nat /\ i - 1 \in Nat
    BY DEF Amounts
  <2>1. PICK g : Totalled(Beginning(s, i), i, g) /\ Total(Beginning(s, i)) = g[i]
    BY <2>0, Beginnings, TotalRuns
  <2>2. PICK h : /\ Totalled(Beginning(s, i - 1), i - 1, h)
                 /\ Total(Beginning(s, i - 1)) = h[i - 1]
    <3>1. /\ Beginning(s, i - 1) \in Amounts
          /\ Len(Beginning(s, i - 1)) = i - 1
      BY <2>0, Beginnings
    <3>. QED
      BY <3>1, TotalRuns
  <2>3. \A j \in 1 .. i - 1 : Beginning(s, i)[j] = Beginning(s, i - 1)[j]
    BY <2>0, Beginnings
  <2>4. g[i - 1] = h[i - 1]
    BY <2>0, <2>1, <2>2, <2>3, TotalledAlike
  <2>5. g[i] = g[i - 1] + Beginning(s, i)[i]
    BY <2>0, <2>1 DEF Totalled
  <2>. QED
    BY <2>0, <2>1, <2>2, <2>4, <2>5, Beginnings
<1>. QED
  BY <1>1, <1>2

-----------------------------------------------------------------------------
(* What is true of every beginning.                                        *)

\* Two amounts: the only sum subtractMinorUnits does.
LEMMA AddTwo ==
    ASSUME NEW m \in Int, NEW n \in Int
    PROVE  AddMinorUnits(<<m, n>>) = Plus(Plus(0, m), n)
<1>. DEFINE s == <<m, n>>
<1>1. s \in Amounts /\ Len(s) = 2 /\ s[1] = m /\ s[2] = n
  BY DEF Amounts
<1>. HIDE DEF s
<1>2. AddMinorUnits(Beginning(s, 1)) = Plus(AddMinorUnits(Beginning(s, 1 - 1)), s[1])
  BY <1>1, AddMinorUnitsTurn
<1>3. AddMinorUnits(Beginning(s, 2)) = Plus(AddMinorUnits(Beginning(s, 2 - 1)), s[2])
  BY <1>1, AddMinorUnitsTurn
<1>4. AddMinorUnits(Beginning(s, 0)) = 0 /\ Beginning(s, 2) = s
  BY <1>1, AddMinorUnitsTurn, WholeIsBeginning
<1>. QED
  BY <1>1, <1>2, <1>3, <1>4 DEF s

LEMMA TotalType ==
    ASSUME NEW s \in Amounts
    PROVE  \A i \in 0 .. Len(s) : Total(Beginning(s, i)) \in Int
<1>. DEFINE T == {i \in 0 .. Len(s) : Total(Beginning(s, i)) \notin Int}
<1>. SUFFICES ASSUME T # {} PROVE FALSE
  OBVIOUS
<1>1. PICK i \in T : \A j \in T : i <= j
  <2>1. T \subseteq Nat
    OBVIOUS
  <2>. HIDE DEF T
  <2>. QED
    BY <2>1, Least
<1>2. i # 0
  BY <1>1, TotalTurn
<1>3. i \in 1 .. Len(s) /\ s[i] \in Int
  BY <1>1, <1>2 DEF Amounts
<1>4. Total(Beginning(s, i - 1)) \in Int
  BY <1>1, <1>3
<1>5. Total(Beginning(s, i)) = Total(Beginning(s, i - 1)) + s[i]
  BY <1>3, TotalTurn
<1>. QED
  BY <1>1, <1>3, <1>4, <1>5

\* Until it is refused a sum is exact and in the range; it stays refused.
LEMMA ExactOrRefused ==
    ASSUME NEW s \in Amounts
    PROVE  \A i \in 0 .. Len(s) :
             LET sum == AddMinorUnits(Beginning(s, i))
             IN  IF \A j \in 1 .. i : IsSafe(s[j]) /\ IsSafe(Total(Beginning(s, j)))
                 THEN sum = Total(Beginning(s, i)) /\ sum \in Int /\ IsSafe(sum)
                 ELSE sum = Refused
<1>. DEFINE Sound(i) == \A j \in 1 .. i : IsSafe(s[j]) /\ IsSafe(Total(Beginning(s, j)))
            Sum(i) == AddMinorUnits(Beginning(s, i))
            Right(i) == IF Sound(i)
                        THEN Sum(i) = Total(Beginning(s, i)) /\ Sum(i) \in Int
                             /\ IsSafe(Sum(i))
                        ELSE Sum(i) = Refused
            T == {i \in 0 .. Len(s) : ~Right(i)}
<1>. SUFFICES ASSUME T # {} PROVE FALSE
  OBVIOUS
<1>1. PICK i \in T : \A j \in T : i <= j
  <2>1. T \subseteq Nat
    OBVIOUS
  <2>. HIDE DEF T
  <2>. QED
    BY <2>1, Least
<1>2. i # 0
  <2>1. Right(0)
    BY AddMinorUnitsTurn, TotalTurn, MoneyAssumption DEF IsSafe
  <2>. QED
    BY <1>1, <2>1
<1>3. i \in 1 .. Len(s) /\ s[i] \in Int /\ i - 1 \in 0 .. Len(s)
  BY <1>1, <1>2 DEF Amounts
<1>4. Right(i - 1) /\ ~Right(i)
  BY <1>1, <1>3
<1>5. /\ Sum(i) = Plus(Sum(i - 1), s[i])
      /\ Total(Beginning(s, i)) = Total(Beginning(s, i - 1)) + s[i]
      /\ Total(Beginning(s, i)) \in Int
  BY <1>3, AddMinorUnitsTurn, TotalTurn, TotalType
<1>6. Sound(i) <=> /\ Sound(i - 1) /\ IsSafe(s[i])
                   /\ IsSafe(Total(Beginning(s, i)))
  <2>1. 1 .. i = (1 .. i - 1) \cup {i}
    BY <1>3
  <2>. QED
    BY <2>1
<1>. HIDE DEF Sound, Sum
<1>7. Right(i)
  BY <1>3, <1>4, <1>5, <1>6, MoneyAssumption DEF Plus
<1>. QED
  BY <1>4, <1>7

LEMMA Grows ==
    ASSUME NEW n \in Nat, NEW f \in [0 .. n -> Int],
           \A i \in 1 .. n : f[i - 1] <= f[i]
    PROVE  \A j \in 0 .. n : \A i \in 0 .. j : f[i] <= f[j]
<1>. DEFINE T == {j \in 0 .. n : \E i \in 0 .. j : f[i] > f[j]}
<1>0. T = {}
  <2>. SUFFICES ASSUME T # {} PROVE FALSE
    OBVIOUS
  <2>1. PICK j \in T : \A k \in T : j <= k
    <3>1. T \subseteq Nat
      OBVIOUS
    <3>. HIDE DEF T
    <3>. QED
      BY <3>1, Least
  <2>2. PICK i \in 0 .. j : f[i] > f[j]
    BY <2>1
  <2>3. /\ j \in 1 .. n /\ j - 1 \in 0 .. n /\ i \in 0 .. j - 1
    BY <2>1, <2>2
  <2>4. f[i] <= f[j - 1]
    <3>1. j - 1 \notin T
      BY <2>1, <2>3
    <3>. QED
      BY <2>3, <3>1
  <2>5. f[j - 1] <= f[j]
    BY <2>3
  <2>6. f[i] \in Int /\ f[j - 1] \in Int /\ f[j] \in Int
    BY <2>1, <2>2, <2>3
  <2>. QED
    BY <2>2, <2>4, <2>5, <2>6
<1>1. ASSUME NEW j \in 0 .. n, NEW i \in 0 .. j PROVE f[i] <= f[j]
  <2>1. j \notin T
    <3>. HIDE DEF T
    <3>. QED
      BY <1>0
  <2>2. ~(f[i] > f[j])
    BY <2>1
  <2>3. f[i] \in Int /\ f[j] \in Int
    OBVIOUS
  <2>. QED
    BY <2>2, <2>3
<1>. QED
  BY <1>1

\* Amounts of one sign: no beginning is further from zero than the whole.
LEMMA OneSign ==
    ASSUME NEW s \in Amounts,
           (\A i \in DOMAIN s : s[i] >= 0) \/ (\A i \in DOMAIN s : s[i] <= 0),
           IsSafe(Total(s))
    PROVE  \A i \in 0 .. Len(s) : IsSafe(Total(Beginning(s, i)))
<1>. DEFINE D(i) == Total(Beginning(s, i))
<1>1. \A i \in 1 .. Len(s) : D(i) = D(i - 1) + s[i] /\ s[i] \in Int /\ i \in DOMAIN s
  BY TotalTurn DEF Amounts
<1>2. \A i \in 0 .. Len(s) : D(i) \in Int
  BY TotalType
<1>3. D(0) = 0 /\ D(Len(s)) = Total(s) /\ Len(s) \in Nat
  BY TotalTurn, WholeIsBeginning DEF Amounts
<1>. SUFFICES ASSUME NEW i \in 0 .. Len(s) PROVE IsSafe(D(i))
  OBVIOUS
<1>. HIDE DEF D
<1>4. CASE \A k \in DOMAIN s : s[k] >= 0
  <2>. DEFINE f == [k \in 0 .. Len(s) |-> D(k)]
  <2>1. f \in [0 .. Len(s) -> Int]
    BY <1>2
  <2>2. ASSUME NEW k \in 1 .. Len(s) PROVE f[k - 1] <= f[k]
    <3>1. k - 1 \in 0 .. Len(s) /\ k \in 0 .. Len(s)
      BY <1>3
    <3>2. D(k) = D(k - 1) + s[k] /\ s[k] \in Int /\ s[k] >= 0 /\ D(k - 1) \in Int
      BY <1>1, <1>2, <1>4, <3>1
    <3>. QED
      BY <3>1, <3>2
  <2>3. f[0] <= f[i] /\ f[i] <= f[Len(s)]
    <3>1. 0 \in 0 .. i /\ i \in 0 .. Len(s) /\ Len(s) \in 0 .. Len(s)
      BY <1>3
    <3>. HIDE DEF f
    <3>. QED
      BY <1>3, <2>1, <2>2, <3>1, Grows
  <2>4. D(0) <= D(i) /\ D(i) <= D(Len(s))
    BY <1>3, <2>3
  <2>. QED
    BY <1>2, <1>3, <2>4, MoneyAssumption DEF IsSafe
<1>5. CASE \A k \in DOMAIN s : s[k] <= 0
  <2>. DEFINE f == [k \in 0 .. Len(s) |-> -D(k)]
  <2>1. f \in [0 .. Len(s) -> Int]
    BY <1>2
  <2>2. ASSUME NEW k \in 1 .. Len(s) PROVE f[k - 1] <= f[k]
    <3>1. k - 1 \in 0 .. Len(s) /\ k \in 0 .. Len(s)
      BY <1>3
    <3>2. D(k) = D(k - 1) + s[k] /\ s[k] \in Int /\ s[k] <= 0 /\ D(k - 1) \in Int
      BY <1>1, <1>2, <1>5, <3>1
    <3>. QED
      BY <3>1, <3>2
  <2>3. f[0] <= f[i] /\ f[i] <= f[Len(s)]
    <3>1. 0 \in 0 .. i /\ i \in 0 .. Len(s) /\ Len(s) \in 0 .. Len(s)
      BY <1>3
    <3>. HIDE DEF f
    <3>. QED
      BY <1>3, <2>1, <2>2, <3>1, Grows
  <2>4. D(i) <= D(0) /\ D(Len(s)) <= D(i)
    <3>1. 0 \in 0 .. Len(s) /\ Len(s) \in 0 .. Len(s)
      BY <1>3
    <3>. QED
      BY <1>2, <2>3, <3>1
  <2>. QED
    BY <1>2, <1>3, <2>4, MoneyAssumption DEF IsSafe
<1>. QED
  BY <1>4, <1>5

-----------------------------------------------------------------------------
(* The properties.                                                         *)

LEMMA SumFacts ==
    ASSUME TypeOK
    PROVE  /\ amounts \in Amounts
           /\ \A i \in DOMAIN amounts : IsSafe(amounts[i])
           /\ DOMAIN amounts = 1 .. Len(amounts) /\ Len(amounts) \in Nat
           /\ amounts = Beginning(amounts, Len(amounts))
  BY WholeIsBeginning DEF TypeOK, Amounts

\* What a sum comes to, and every amount in it, is printed as a string that
\* reads back as the same amount (money.ts: formatMinorUnitsToMoney,
\* addMinorUnits).
THEOREM SumsReadBack == Spec => []RoundTrip
<1>1. TypeOK => RoundTrip
  <2>. SUFFICES ASSUME TypeOK,
                       NEW n \in {amounts[i] : i \in DOMAIN amounts}
                                   \cup {AddMinorUnits(amounts)},
                       n # Refused
                PROVE  ParseMoneyToMinorUnits(FormatMinorUnitsToMoney(n)) = n
    BY DEF RoundTrip
  <2>1. ASSUME NEW i \in DOMAIN amounts
        PROVE  amounts[i] \in Int /\ IsSafe(amounts[i])
    BY SumFacts DEF Amounts
  <2>2. AddMinorUnits(amounts) # Refused =>
          AddMinorUnits(amounts) \in Int /\ IsSafe(AddMinorUnits(amounts))
    BY SumFacts, ExactOrRefused
  <2>. QED
    BY <2>1, <2>2, FormatReadsBack
<1>. QED
  BY <1>1, LibraryTypeCorrect, PTL

\* However many amounts are added up, their sum is exact or refused, and what
\* was added last can be taken away again (money.ts: addMinorUnits,
\* subtractMinorUnits, negateMinorUnits).
THEOREM SumsExact == Spec => []SumsAreExact
<1>1. TypeOK => SumsAreExact
  <2>. SUFFICES ASSUME TypeOK PROVE SumsAreExact
    OBVIOUS
  <2>. DEFINE s == amounts
              A(i) == AddMinorUnits(Beginning(s, i))
              D(i) == Total(Beginning(s, i))
              N == Len(s)
  <2>1. /\ s \in Amounts /\ N \in Nat /\ DOMAIN s = 1 .. N
        /\ \A i \in 1 .. N : s[i] \in Int /\ IsSafe(s[i])
        /\ A(N) = AddMinorUnits(s) /\ D(N) = Total(s)
    BY SumFacts DEF Amounts
  <2>2. \A i \in 0 .. N :
          IF \A j \in 1 .. i : IsSafe(D(j))
          THEN A(i) = D(i) /\ A(i) \in Int /\ IsSafe(A(i))
          ELSE A(i) = Refused
    <3>1. ASSUME NEW i \in 0 .. N
          PROVE  (\A j \in 1 .. i : IsSafe(s[j]) /\ IsSafe(D(j)))
                   <=> \A j \in 1 .. i : IsSafe(D(j))
      BY <2>1
    <3>. QED
      BY <2>1, <3>1, ExactOrRefused
  <2>3. N \in 0 .. N
    BY <2>1
  <2>4. AddMinorUnits(s) # Refused =>
          AddMinorUnits(s) = Total(s) /\ IsSafe(Total(s))
    BY <2>1, <2>2, <2>3
  <2>5. AddMinorUnits(s) = Refused =>
          /\ \E i \in DOMAIN s : ~IsSafe(Total(SubSeq(s, 1, i)))
          /\ \/ ~IsSafe(Total(s))
             \/ \E i, j \in DOMAIN s : s[i] < 0 /\ s[j] > 0
    <3>. SUFFICES ASSUME A(N) = Refused
                  PROVE  /\ \E i \in DOMAIN s : ~IsSafe(D(i))
                         /\ \/ ~IsSafe(Total(s))
                            \/ \E i, j \in DOMAIN s : s[i] < 0 /\ s[j] > 0
      BY <2>1 DEF Beginning
    <3>1. PICK k \in 1 .. N : ~IsSafe(D(k))
      BY <2>2, <2>3, MoneyAssumption
    <3>2. k \in 0 .. Len(s)
      BY <2>1
    <3>3. ASSUME IsSafe(Total(s)), ~\E i, j \in DOMAIN s : s[i] < 0 /\ s[j] > 0
          PROVE  FALSE
      <4>1. (\A i \in DOMAIN s : s[i] >= 0) \/ (\A i \in DOMAIN s : s[i] <= 0)
        BY <2>1, <3>3
      <4>2. IsSafe(D(k))
        <5>. HIDE DEF s
        <5>. QED
          BY <2>1, <3>2, <3>3, <4>1, OneSign
      <4>. QED
        BY <3>1, <4>2
    <3>. QED
      BY <2>1, <3>1, <3>3
  <2>6. ASSUME NEW i \in DOMAIN s, A(i - 1) # Refused
        PROVE  /\ A(i) # Refused => SubtractMinorUnits(A(i), s[i]) = A(i - 1)
               /\ SubtractMinorUnits(A(i - 1), NegateMinorUnits(s[i])) = A(i)
    <3>1. i \in 1 .. N /\ i - 1 \in 0 .. N /\ i \in 0 .. N
      BY <2>1
    <3>2. A(i) = Plus(A(i - 1), s[i]) /\ s[i] \in Int /\ IsSafe(s[i])
      BY <2>1, <3>1, AddMinorUnitsTurn
    <3>3. A(i - 1) \in Int /\ IsSafe(A(i - 1))
      BY <2>2, <2>6, <3>1
    <3>. HIDE DEF A, s
    <3>4. Plus(0, A(i - 1)) = A(i - 1)
      BY <3>3, MoneyAssumption DEF Plus
    <3>5. -s[i] \in Int /\ IsSafe(-s[i]) /\ -(-s[i]) = s[i]
      BY <3>2, MoneyAssumption DEF IsSafe
    <3>6. SubtractMinorUnits(A(i - 1), NegateMinorUnits(s[i])) = A(i)
      BY <3>2, <3>3, <3>4, <3>5, AddTwo DEF SubtractMinorUnits, NegateMinorUnits
    <3>7. ASSUME A(i) # Refused
          PROVE  SubtractMinorUnits(A(i), s[i]) = A(i - 1)
      <4>1. A(i) = A(i - 1) + s[i] /\ A(i) \in Int /\ IsSafe(A(i))
        BY <3>2, <3>3, <3>7, MoneyAssumption DEF Plus
      <4>2. AddMinorUnits(<<A(i), -s[i]>>) = Plus(Plus(0, A(i)), -s[i])
        BY <3>5, <4>1, AddTwo
      <4>3. Plus(Plus(0, A(i)), -s[i]) = A(i - 1)
        BY <3>2, <3>3, <3>5, <4>1, MoneyAssumption DEF Plus
      <4>. QED
        BY <3>2, <4>2, <4>3 DEF SubtractMinorUnits
    <3>. QED
      BY <3>6, <3>7
  <2>7. ASSUME NEW i \in DOMAIN s
        PROVE  LET before == AddMinorUnits(SubSeq(s, 1, i - 1))
                   after == AddMinorUnits(SubSeq(s, 1, i))
               IN  before # Refused =>
                     /\ after # Refused =>
                          SubtractMinorUnits(after, s[i]) = before
                     /\ SubtractMinorUnits(before, NegateMinorUnits(s[i])) = after
    BY <2>6 DEF Beginning
  <2>. QED
    BY <2>4, <2>5, <2>7 DEF SumsAreExact
<1>. QED
  BY <1>1, LibraryTypeCorrect, PTL
=============================================================================
