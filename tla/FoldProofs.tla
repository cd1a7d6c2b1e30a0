------------------------------ MODULE FoldProofs ------------------------------
(***************************************************************************)
(* What FoldLeft of the community modules computes, for every operation    *)
(* and every sequence: the last of the values the code's loop goes         *)
(* through.  The other proof modules instantiate it with the body of a     *)
(* loop of theirs.                                                         *)
(***************************************************************************)
EXTENDS Integers, SequencesExt, WellFoundedInduction, TLAPS

CONSTANTS
  turn(_, _),  \* one turn of the loop: the value so far, the next entry
  base         \* the value before the loop

-----------------------------------------------------------------------------
(* Numbers *)

\* A set of numbers that has a member has a least one: the form in which
\* these proofs use induction.
LEMMA LeastNumber ==
  ASSUME NEW T \in SUBSET Nat, T # {}
  PROVE  \E n \in T : \A m \in T : n <= m
<1>1. IsWellFoundedOn({r \in Nat \X Nat : r[1] < r[2]}, Nat)
  BY NatLessThanWellFounded DEF OpToRel
<1>2. PICK n \in T : \A m \in T : <<m, n>> \notin {r \in Nat \X Nat : r[1] < r[2]}
  BY <1>1, WFMin
<1>3. \A m \in T : n <= m
  <2> SUFFICES ASSUME NEW m \in T, m < n PROVE FALSE
    OBVIOUS
  <2>1. <<m, n>> \in Nat \X Nat /\ <<m, n>>[1] < <<m, n>>[2]
    OBVIOUS
  <2> QED
    BY <1>2, <2>1
<1> QED
  BY <1>3

\* The greatest of a set of numbers one of which is above the others.
LEMMA GreatestIsMax ==
  ASSUME NEW s \in SUBSET Int, NEW m \in s, \A k \in s : k <= m
  PROVE  Max(s) = m
<1>1. Max(s) \in s /\ \A k \in s : Max(s) >= k
  <2>1. \E x \in s : \A y \in s : x >= y
    OBVIOUS
  <2> QED
    BY <2>1, Zenon DEF Max
<1>2. Max(s) \in Int /\ m \in Int /\ Max(s) >= m /\ Max(s) <= m
  BY <1>1
<1> QED
  BY <1>2

-----------------------------------------------------------------------------
(* Folds *)

\* f is the fold of w over every set of positions, the greatest one last.
FoldsUp(f, w, n) ==
  f = [s \in SUBSET (1..n) |->
         IF s = {} THEN base ELSE turn(f[s \ {Max(s)}], w[Max(s)])]

\* Such a function exists, however many entries there are.
LEMMA FoldingUp == ASSUME NEW w PROVE \A n \in Nat : \E f : FoldsUp(f, w, n)
<1> DEFINE T == {n \in Nat : ~ \E f : FoldsUp(f, w, n)}
<1> SUFFICES ASSUME T # {} PROVE FALSE
  OBVIOUS
<1>1. PICK n \in T : \A m \in T : n <= m
  BY LeastNumber
<1>2. n # 0
  <2> DEFINE f == [s \in SUBSET (1..0) |-> base]
  <2>1. \A s \in SUBSET (1..0) : s = {}
    OBVIOUS
  <2>2. FoldsUp(f, w, 0)
    BY <2>1 DEF FoldsUp
  <2> QED
    BY <2>2
<1>3. PICK f : FoldsUp(f, w, n - 1)
  BY <1>1, <1>2
<1> DEFINE g == [s \in SUBSET (1..n) |-> IF n \in s THEN turn(f[s \ {n}], w[n]) ELSE f[s]]
<1>4. ASSUME NEW s \in SUBSET (1..n)
      PROVE  g[s] = IF s = {} THEN base ELSE turn(g[s \ {Max(s)}], w[Max(s)])
  <2>1. CASE n \in s
    <3>1. Max(s) = n
      BY <2>1, GreatestIsMax
    <3>2. s \ {n} \in SUBSET (1..n) /\ n \notin s \ {n}
      OBVIOUS
    <3> QED
      BY <2>1, <3>1, <3>2
  <2>2. CASE n \notin s
    <3>1. s \in SUBSET (1..(n - 1)) /\ s \ {Max(s)} \in SUBSET (1..n) /\ n \notin s \ {Max(s)}
      <4>1. \A k \in s : k \in 1..n /\ k # n
        BY <2>2
      <4>2. \A k \in 1..n : k # n => k \in 1..(n - 1)
        OBVIOUS
      <4> QED
        BY <4>1, <4>2
    <3>2. g[s] = f[s] /\ g[s \ {Max(s)}] = f[s \ {Max(s)}]
      BY <2>2, <3>1
    <3>3. f[s] = IF s = {} THEN base ELSE turn(f[s \ {Max(s)}], w[Max(s)])
      BY <1>3, <3>1 DEF FoldsUp
    <3> QED
      BY <3>2, <3>3
  <2> QED
    BY <2>1, <2>2
<1>5. FoldsUp(g, w, n)
  BY <1>4 DEF FoldsUp
<1> QED
  BY <1>1, <1>5

\* A fold is the last of the values a loop over the sequence goes through.
LEMMA FoldIsALoop ==
  ASSUME NEW n \in Nat, NEW w, DOMAIN w = 1..n
  PROVE  \E p : /\ p = [k \in 0..n |-> p[k]]
                /\ p[0] = base
                /\ \A k \in 1..n : p[k] = turn(p[k - 1], w[k])
                /\ FoldLeft(turn, base, w) = p[n]
<1> DEFINE F == CHOOSE f : FoldsUp(f, w, n)
           p == [k \in 0..n |-> F[1..k]]
<1>1. FoldsUp(F, w, n)
  BY FoldingUp
<1>2. FoldLeft(turn, base, w) = F[1..n]
  BY DEF FoldLeft, MapThenFoldSet, FoldsUp
<1> HIDE DEF F
<1>3. p[0] = base
  BY <1>1 DEF FoldsUp
<1>4. ASSUME NEW k \in 1..n
      PROVE  p[k] = turn(p[k - 1], w[k])
  <2>1. 1..k \in SUBSET Int /\ k \in 1..k /\ \A j \in 1..k : j <= k
    OBVIOUS
  <2>2. Max(1..k) = k
    BY <2>1, GreatestIsMax
  <2>3. \A j \in Int : j \in 1..(k - 1) <=> j \in 1..k /\ j # k
    OBVIOUS
  <2>4. 1..k \in SUBSET (1..n) /\ (1..k) \ {k} = 1..(k - 1)
    BY <2>1, <2>3
  <2>5. F[1..k] = turn(F[(1..k) \ {k}], w[k])
    BY <1>1, <2>1, <2>2, <2>4 DEF FoldsUp
  <2>6. k \in 0..n /\ k - 1 \in 0..n
    OBVIOUS
  <2>7. p[k] = F[1..k] /\ p[k - 1] = F[1..(k - 1)]
    BY <2>6
  <2> QED
    BY <2>4, <2>5, <2>7
<1>5. p = [k \in 0..n |-> p[k]] /\ FoldLeft(turn, base, w) = p[n]
  BY <1>2
<1> HIDE DEF p
<1> QED
  BY <1>3, <1>4, <1>5
=============================================================================
