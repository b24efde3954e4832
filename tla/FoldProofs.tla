----------------------------- MODULE FoldProofs -----------------------------
(***************************************************************************)
(* Facts about the folds of the community modules over finite sets, which  *)
(* the proofs about sums of money and about lists of languages cite.       *)
(*                                                                         *)
(* The induction is over the parts of a finite set: strict inclusion is    *)
(* well founded there, so that a set of parts that holds each part with    *)
(* the smaller ones in it holds them all.  What is proved by induction is  *)
(* such a set, no operator is substituted.                                 *)
(***************************************************************************)
EXTENDS Functions, FiniteSets, FiniteSetTheorems, WellFoundedInduction, TLAPS

LEMMA PartsInduction ==
  ASSUME NEW D, IsFiniteSet(D), NEW P,
         \A S \in SUBSET D : (\A T \in SUBSET S : T # S => T \in P) => S \in P
  PROVE  SUBSET D \subseteq P
<1> SUFFICES ASSUME NEW S0 \in SUBSET D, S0 \notin P
             PROVE  FALSE
  OBVIOUS
<1> DEFINE Bad == {S \in SUBSET D : S \notin P}
<1>1. FiniteSubsetsOf(D) = SUBSET D
  BY FS_FiniteSubsetsOfFinite
<1>2. IsWellFoundedOn(StrictSubsetOrdering(D), FiniteSubsetsOf(D))
  BY FS_StrictSubsetOrderingWellFounded
<1>3. \E S \in Bad : \A T \in Bad : ~(<<T, S>> \in StrictSubsetOrdering(D))
  <2>1. Bad \subseteq FiniteSubsetsOf(D) /\ Bad # {}
    BY <1>1
  <2> HIDE DEF Bad
  <2> QED
    BY <2>1, <1>2, WFMin
<1>4. PICK S \in Bad : \A T \in Bad : ~(<<T, S>> \in StrictSubsetOrdering(D))
  BY <1>3
<1>5. \A T \in SUBSET S : T # S => T \in P
  BY <1>4 DEF StrictSubsetOrdering
<1> QED
  BY <1>4, <1>5

-----------------------------------------------------------------------------
(* A fold takes the element pick[s] of s first and combines it by step     *)
(* with what the others come to.                                           *)

Combined(h, base, pick, step, s) ==
  IF s = {} THEN base ELSE step[<<pick[s], h[s \ {pick[s]}]>>]

IsFold(h, D, base, pick, step) ==
  h = [s \in SUBSET D |-> Combined(h, base, pick, step, s)]

FoldsUpto(h, S, base, pick, step) ==
  \A s \in SUBSET S : h[s] = Combined(h, base, pick, step, s)

Picks(pick, D) == \A s \in (SUBSET D) \ {{}} : pick[s] \in s

(* Two functions that combine alike up to S agree on S. *)
LEMMA FoldsAgree ==
  ASSUME NEW D, IsFiniteSet(D), NEW base, NEW pick, Picks(pick, D), NEW step,
         NEW g, NEW h, NEW S0 \in SUBSET D,
         FoldsUpto(g, S0, base, pick, step), FoldsUpto(h, S0, base, pick, step)
  PROVE  g[S0] = h[S0]
<1> DEFINE P == {s \in SUBSET S0 : g[s] = h[s]}
<1>1. ASSUME NEW S \in SUBSET S0, \A T \in SUBSET S : T # S => T \in P
      PROVE  S \in P
  <2>1. CASE S = {}
    BY <2>1 DEF Combined, FoldsUpto
  <2>2. CASE S # {}
    <3>1. pick[S] \in S
      BY <2>2 DEF Picks
    <3>2. g[S \ {pick[S]}] = h[S \ {pick[S]}]
      BY <1>1, <3>1
    <3> QED
      BY <2>2, <3>2 DEF Combined, FoldsUpto
  <2> QED
    BY <2>1, <2>2
<1>2. IsFiniteSet(S0)
  BY FS_Subset
<1> HIDE DEF P
<1>3. SUBSET S0 \subseteq P
  BY <1>1, <1>2, PartsInduction
<1> QED
  BY <1>3 DEF P

(* A fold over a finite set has a value: the recursive function exists. *)
LEMMA FoldExists ==
  ASSUME NEW D, IsFiniteSet(D), NEW R, NEW base \in R, NEW pick, Picks(pick, D),
         NEW step \in [D \X R -> R]
  PROVE  \E h \in [SUBSET D -> R] : IsFold(h, D, base, pick, step)
<1> DEFINE Upto(S) == {h \in [SUBSET D -> R] :
                        FoldsUpto(h, S, base, pick, step)}
           P == {S \in SUBSET D : Upto(S) # {}}
           part(S) == CHOOSE h \in Upto(S) : TRUE
<1>1. ASSUME NEW S \in SUBSET D, \A T \in SUBSET S : T # S => T \in P
      PROVE  S \in P
  <2> DEFINE below(s) == IF s = {} THEN base
                         ELSE IF s = S THEN step[<<pick[s], part(s \ {pick[s]})[s \ {pick[s]}]>>]
                         ELSE part(s)[s]
             h == [s \in SUBSET D |-> IF s \in SUBSET S THEN below(s) ELSE base]
  <2>1. ASSUME NEW T \in SUBSET S, T # S
        PROVE  /\ part(T) \in [SUBSET D -> R]
               /\ \A s \in SUBSET T : part(T)[s] = Combined(part(T), base, pick, step, s)
    <3>1. Upto(T) # {}
      BY <1>1, <2>1
    <3>2. part(T) \in Upto(T)
      BY <3>1
    <3> QED
      BY <3>2 DEF FoldsUpto
  <2> HIDE DEF part
  <2>2. ASSUME NEW s \in SUBSET S, s # {}
        PROVE  /\ pick[s] \in s /\ pick[s] \in D
               /\ s \ {pick[s]} \in SUBSET S /\ s \ {pick[s]} # S
               /\ s \ {pick[s]} \in SUBSET D
    BY <2>2 DEF Picks
  <2>3. ASSUME NEW s \in SUBSET S
        PROVE  h[s] = below(s) /\ h[s] \in R
    <3>1. below(s) \in R
      <4>1. CASE s = {}
        BY <4>1
      <4>2. CASE s # {} /\ s = S
        BY <4>2, <2>1, <2>2
      <4>3. CASE s # {} /\ s # S
        BY <4>3, <2>1
      <4> QED
        BY <4>1, <4>2, <4>3
    <3> QED
      BY <3>1
  <2>4. ASSUME NEW s \in SUBSET S, s # {}
        PROVE  h[s] = step[<<pick[s], h[s \ {pick[s]}]>>]
    <3> DEFINE t == s \ {pick[s]}
    <3>1. t \in SUBSET S /\ t # S /\ t \in SUBSET D /\ t \in SUBSET s
      BY <2>2, <2>4
    <3>2. h[t] = part(t)[t]
      <4>1. CASE t = {}
        <5>1. part(t)[t] = base
          BY <2>1, <3>1, <4>1 DEF Combined
        <5>2. h[t] = base
          BY <2>3, <3>1, <4>1
        <5> QED
          BY <5>1, <5>2
      <4>2. CASE t # {}
        BY <2>3, <3>1, <4>2
      <4> QED
        BY <4>1, <4>2
    <3>3. CASE s = S
      BY <2>3, <2>4, <3>2, <3>3
    <3>4. CASE s # S
      <4>1. h[s] = part(s)[s]
        BY <2>3, <2>4, <3>4
      <4>2. part(s)[s] = step[<<pick[s], part(s)[t]>>]
        BY <2>1, <2>4, <3>4 DEF Combined
      <4>3. part(s)[t] = part(t)[t]
        <5> DEFINE g == part(s)
                   k == part(t)
        <5>1. FoldsUpto(g, t, base, pick, step)
          BY <2>1, <3>1, <3>4 DEF FoldsUpto
        <5>2. FoldsUpto(k, t, base, pick, step)
          BY <2>1, <3>1 DEF FoldsUpto
        <5>3. t \in SUBSET D
          BY <3>1
        <5> HIDE DEF g, k, t
        <5>4. g[t] = k[t]
          BY <5>1, <5>2, <5>3, FoldsAgree
        <5> QED
          BY <5>4 DEF g, k
      <4> QED
        BY <4>1, <4>2, <4>3, <3>2
    <3> QED
      BY <3>3, <3>4
  <2>5. h \in [SUBSET D -> R]
    BY <2>3
  <2>6. \A s \in SUBSET S : h[s] = Combined(h, base, pick, step, s)
    <3> TAKE s \in SUBSET S
    <3>1. CASE s = {}
      BY <2>3, <3>1 DEF Combined
    <3>2. CASE s # {}
      BY <2>4, <3>2 DEF Combined
    <3> QED
      BY <3>1, <3>2
  <2> HIDE DEF h
  <2> QED
    BY <2>5, <2>6 DEF FoldsUpto
<1> HIDE DEF P
<1>2. SUBSET D \subseteq P
  BY <1>1, PartsInduction
<1>3. Upto(D) # {}
  BY <1>2 DEF P
<1> QED
  BY <1>3 DEF IsFold, FoldsUpto

-----------------------------------------------------------------------------
(* Sums. *)

AnyOf(D) == [s \in SUBSET D |-> CHOOSE x \in s : TRUE]

Adds(f, D) == [p \in D \X Int |-> f[p[1]] + p[2]]

(* The recursive function behind SumFunction(f). *)
SumLoop(f, h) ==
  [s \in SUBSET DOMAIN f |-> IF s = {} THEN 0
                             ELSE f[CHOOSE x \in s : TRUE] + h[s \ {CHOOSE x \in s : TRUE}]]

PartialSums(f) == CHOOSE h : h = SumLoop(f, h)

LEMMA AnyOfPicks == ASSUME NEW D PROVE Picks(AnyOf(D), D)
  BY DEF Picks, AnyOf

LEMMA PartialSumsExist ==
  ASSUME NEW D, IsFiniteSet(D), NEW f \in [D -> Int]
  PROVE  /\ PartialSums(f) = SumLoop(f, PartialSums(f))
         /\ PartialSums(f) \in [SUBSET D -> Int]
<1>1. PICK h \in [SUBSET D -> Int] : IsFold(h, D, 0, AnyOf(D), Adds(f, D))
  <2>1. Adds(f, D) \in [D \X Int -> Int]
    BY DEF Adds
  <2>2. Picks(AnyOf(D), D) /\ 0 \in Int
    BY AnyOfPicks
  <2> QED
    BY <2>1, <2>2, FoldExists, Zenon
<1>2. h = SumLoop(f, h)
  <2>1. ASSUME NEW s \in SUBSET D
        PROVE  Combined(h, 0, AnyOf(D), Adds(f, D), s) = SumLoop(f, h)[s]
    BY DEF Combined, AnyOf, Adds, SumLoop
  <2>2. h = [s \in SUBSET D |-> SumLoop(f, h)[s]]
    BY <1>1, <2>1 DEF IsFold
  <2> QED
    BY <2>2 DEF SumLoop
<1>3. PartialSums(f) = SumLoop(f, PartialSums(f))
  BY <1>2 DEF PartialSums
<1> DEFINE p == PartialSums(f)
           P == {s \in SUBSET D : p[s] = h[s]}
<1>4. p = SumLoop(f, p)
  BY <1>3
<1> HIDE DEF p
<1>5. ASSUME NEW S \in SUBSET D, \A T \in SUBSET S : T # S => T \in P
      PROVE  S \in P
  <2>1. CASE S = {}
    <3>1. SumLoop(f, p)[S] = 0 /\ SumLoop(f, h)[S] = 0
      BY <2>1 DEF SumLoop
    <3> QED
      BY <1>2, <1>4, <3>1
  <2>2. CASE S # {}
    <3> DEFINE x == CHOOSE y \in S : TRUE
    <3>1. x \in S
      BY <2>2
    <3>2. p[S \ {x}] = h[S \ {x}]
      BY <1>5, <3>1
    <3>3. SumLoop(f, p)[S] = f[x] + p[S \ {x}] /\ SumLoop(f, h)[S] = f[x] + h[S \ {x}]
      BY <2>2 DEF SumLoop
    <3> QED
      BY <1>2, <1>4, <3>2, <3>3
  <2> QED
    BY <2>1, <2>2
<1> HIDE DEF P
<1>6. SUBSET D \subseteq P
  BY <1>5, PartsInduction
<1>7. \A s \in SUBSET D : p[s] = h[s]
  BY <1>6 DEF P
<1>8. p = [s \in SUBSET D |-> p[s]]
  <2>1. SumLoop(f, p) = [s \in SUBSET D |-> SumLoop(f, p)[s]]
    BY DEF SumLoop
  <2> QED
    BY <1>4, <2>1
<1> QED
  BY <1>3, <1>7, <1>8 DEF p

(* A sum is the sum of its partial sums ... *)
LEMMA SumIsPartialSum ==
  ASSUME NEW f
  PROVE  SumFunction(f) = PartialSums(f)[DOMAIN f]
  BY DEF SumFunction, SumFunctionOnSet, FoldFunctionOnSet, MapThenFoldSet, PartialSums, SumLoop

(* ... from which any element may be taken first. *)
LEMMA PartialSumsStep ==
  ASSUME NEW D, IsFiniteSet(D), NEW f \in [D -> Int], NEW S0 \in SUBSET D, NEW x0 \in S0
  PROVE  PartialSums(f)[S0] = f[x0] + PartialSums(f)[S0 \ {x0}]
<1> DEFINE p == PartialSums(f)
           P == {s \in SUBSET D : \A x \in s : p[s] = f[x] + p[s \ {x}]}
<1>1. p = SumLoop(f, p) /\ p \in [SUBSET D -> Int]
  BY PartialSumsExist
<1> HIDE DEF p
<1>2. ASSUME NEW S \in SUBSET D, \A T \in SUBSET S : T # S => T \in P
      PROVE  S \in P
  <2> SUFFICES ASSUME NEW x \in S
               PROVE  p[S] = f[x] + p[S \ {x}]
    OBVIOUS
  <2> DEFINE y == CHOOSE z \in S : TRUE
  <2>1. y \in S
    OBVIOUS
  <2>2. p[S] = f[y] + p[S \ {y}]
    <3>1. SumLoop(f, p)[S] = f[y] + p[S \ {y}]
      BY DEF SumLoop
    <3> QED
      BY <1>1, <3>1
  <2>3. CASE x = y
    BY <2>2, <2>3
  <2>4. CASE x # y
    <3>1. p[S \ {y}] = f[x] + p[(S \ {y}) \ {x}]
      BY <1>2, <2>1, <2>4
    <3>2. p[S \ {x}] = f[y] + p[(S \ {x}) \ {y}]
      BY <1>2, <2>1, <2>4
    <3>3. (S \ {y}) \ {x} = (S \ {x}) \ {y}
      OBVIOUS
    <3>4. f[x] \in Int /\ f[y] \in Int /\ p[(S \ {x}) \ {y}] \in Int
      BY <1>1, <2>1
    <3> DEFINE rest == p[(S \ {x}) \ {y}]
    <3>5. p[S] = f[y] + (f[x] + rest)
      BY <2>2, <3>1, <3>3
    <3>6. f[x] + p[S \ {x}] = f[x] + (f[y] + rest)
      BY <3>2
    <3> HIDE DEF y, rest
    <3>7. f[y] + (f[x] + rest) = f[x] + (f[y] + rest)
      BY <3>4 DEF rest
    <3> QED
      BY <3>5, <3>6, <3>7
  <2> QED
    BY <2>3, <2>4
<1> HIDE DEF P
<1>3. SUBSET D \subseteq P
  BY <1>2, PartsInduction
<1> QED
  BY <1>3 DEF P, p

LEMMA SumIsInteger ==
  ASSUME NEW D, IsFiniteSet(D), NEW f \in [D -> Int]
  PROVE  SumFunction(f) \in Int
<1>1. PartialSums(f) \in [SUBSET D -> Int]
  BY PartialSumsExist
<1> QED
  BY <1>1, SumIsPartialSum

LEMMA PartialSumsAgree ==
  ASSUME NEW D, IsFiniteSet(D), NEW f \in [D -> Int], NEW g \in [D -> Int],
         NEW S0 \in SUBSET D, \A x \in S0 : f[x] = g[x]
  PROVE  PartialSums(f)[S0] = PartialSums(g)[S0]
<1> DEFINE p == PartialSums(f)
           q == PartialSums(g)
           P == {s \in SUBSET S0 : p[s] = q[s]}
<1>1. p = SumLoop(f, p) /\ q = SumLoop(g, q)
  BY PartialSumsExist
<1> HIDE DEF p, q
<1>2. ASSUME NEW S \in SUBSET S0, \A T \in SUBSET S : T # S => T \in P
      PROVE  S \in P
  <2>1. CASE S = {}
    <3>1. SumLoop(f, p)[S] = 0 /\ SumLoop(g, q)[S] = 0
      BY <2>1 DEF SumLoop
    <3> QED
      BY <1>1, <3>1
  <2>2. CASE S # {}
    <3> DEFINE x == CHOOSE y \in S : TRUE
    <3>1. x \in S
      BY <2>2
    <3>2. p[S \ {x}] = q[S \ {x}] /\ f[x] = g[x]
      BY <1>2, <3>1
    <3>3. SumLoop(f, p)[S] = f[x] + p[S \ {x}] /\ SumLoop(g, q)[S] = g[x] + q[S \ {x}]
      BY <2>2 DEF SumLoop
    <3> QED
      BY <1>1, <3>2, <3>3
  <2> QED
    BY <2>1, <2>2
<1>3. IsFiniteSet(S0)
  BY FS_Subset
<1> HIDE DEF P
<1>4. SUBSET S0 \subseteq P
  BY <1>2, <1>3, PartsInduction
<1> QED
  BY <1>4 DEF P, p, q

(* Changing one summand changes the sum by as much. *)
LEMMA SumChange ==
  ASSUME NEW D, IsFiniteSet(D), NEW f \in [D -> Int], NEW g \in [D -> Int],
         NEW x \in D, \A y \in D \ {x} : g[y] = f[y]
  PROVE  SumFunction(g) = SumFunction(f) + (g[x] - f[x])
<1> DEFINE p == PartialSums(f)
           q == PartialSums(g)
<1>1. SumFunction(f) = p[D] /\ SumFunction(g) = q[D]
  BY SumIsPartialSum
<1>2. p[D] = f[x] + p[D \ {x}] /\ q[D] = g[x] + q[D \ {x}]
  BY PartialSumsStep
<1>3. p[D \ {x}] = q[D \ {x}]
  BY PartialSumsAgree
<1>5. p \in [SUBSET D -> Int]
  BY PartialSumsExist
<1>4. p[D \ {x}] \in Int /\ f[x] \in Int /\ g[x] \in Int
  BY <1>5
<1> HIDE DEF p, q
<1> QED
  BY <1>1, <1>2, <1>3, <1>4

LEMMA SumOfZeros ==
  ASSUME NEW D, IsFiniteSet(D)
  PROVE  SumFunction([x \in D |-> 0]) = 0
<1> DEFINE z == [x \in D |-> 0]
           p == PartialSums(z)
           P == {s \in SUBSET D : p[s] = 0}
<1>1. z \in [D -> Int] /\ DOMAIN z = D
  OBVIOUS
<1> HIDE DEF z
<1>2. p = SumLoop(z, p)
  BY <1>1, PartialSumsExist
<1> HIDE DEF p
<1>3. ASSUME NEW S \in SUBSET D, \A T \in SUBSET S : T # S => T \in P
      PROVE  S \in P
  <2>1. CASE S = {}
    <3>1. SumLoop(z, p)[S] = 0
      BY <1>1, <2>1 DEF SumLoop
    <3> QED
      BY <1>2, <3>1
  <2>2. CASE S # {}
    <3> DEFINE x == CHOOSE y \in S : TRUE
    <3>1. x \in S
      BY <2>2
    <3>2. p[S \ {x}] = 0 /\ z[x] = 0
      BY <1>3, <3>1 DEF z
    <3>3. SumLoop(z, p)[S] = z[x] + p[S \ {x}]
      BY <1>1, <2>2 DEF SumLoop
    <3> QED
      BY <1>2, <3>2, <3>3
  <2> QED
    BY <2>1, <2>2
<1> HIDE DEF P
<1>4. SUBSET D \subseteq P
  BY <1>3, PartsInduction
<1> QED
  BY <1>1, <1>4, SumIsPartialSum DEF P, p, z
=============================================================================
