------------------------------ MODULE FoldLemmas ------------------------------
(***************************************************************************)
(* What the sums and folds of the models compute, for every finite set:    *)
(* SumFunctionOnSet (the quote deployed in open positions, the messages    *)
(* sent in a window) and the folds over the entries of a sequence.  They   *)
(* are defined by recursion over the subsets of a set; induction is by a   *)
(* minimal set among those without the property.                           *)
(***************************************************************************)
EXTENDS Integers, Functions, FiniteSetTheorems, WellFoundedInduction, TLAPS

(* Of finite sets, some contain no other one of them.                      *)
LEMMA MinimalSet ==
  ASSUME NEW S, IsFiniteSet(S), NEW F \in SUBSET SUBSET S, F # {}
  PROVE  \E T \in F : \A U \in F : U \subseteq T => U = T
<1>1. F \subseteq FiniteSubsetsOf(S)
  BY FS_Subset DEF FiniteSubsetsOf
<1>2. PICK T \in F : \A U \in F : <<U, T>> \notin StrictSubsetOrdering(S)
  BY <1>1, FS_StrictSubsetOrderingWellFounded, WFMin
<1>3. ASSUME NEW U \in F, U \subseteq T, U # T PROVE <<U, T>> \in StrictSubsetOrdering(S)
  <2>1. U \in FiniteSubsetsOf(S) /\ T \in FiniteSubsetsOf(S)
    BY <1>1
  <2> QED
    BY <1>3, <2>1 DEF StrictSubsetOrdering
<1>4. \A U \in F : U \subseteq T => U = T
  BY <1>2, <1>3
<1> QED
  BY <1>4

(* Of a finite set some element comes before all, in an order that relates *)
(* any two and is transitive.                                              *)
LEMMA FirstExists ==
  ASSUME NEW S, IsFiniteSet(S), S # {}, NEW R,
         \A x, y \in S : <<x, y>> \in R \/ <<y, x>> \in R,
         \A x, y, z \in S : <<x, y>> \in R /\ <<y, z>> \in R => <<x, z>> \in R
  PROVE  \E x \in S : \A y \in S : <<x, y>> \in R
<1> DEFINE Before(x) == {y \in S : <<y, x>> \in R}
           F == {Before(x) : x \in S}
<1>1. F \in SUBSET SUBSET S
  OBVIOUS
<1>2. F # {}
  <2>1. PICK x \in S : TRUE
    OBVIOUS
  <2>2. Before(x) \in F
    OBVIOUS
  <2> QED
    BY <2>2
<1> HIDE DEF F
<1>3. PICK T \in F : \A U \in F : U \subseteq T => U = T
  BY <1>1, <1>2, MinimalSet
<1>4. PICK x \in S : T = Before(x)
  BY DEF F
<1>5. ASSUME NEW y \in S PROVE <<x, y>> \in R
  <2>1. CASE <<y, x>> \in R
    <3>1. Before(y) \in F
      BY DEF F
    <3>2. Before(y) \subseteq Before(x)
      BY <2>1
    <3>3. Before(y) = Before(x)
      BY <1>3, <1>4, <3>1, <3>2
    <3>4. x \in Before(x)
      OBVIOUS
    <3> QED
      BY <3>3, <3>4
  <2> QED
    BY <2>1
<1> QED
  BY <1>5

(* A finite set of integers has a largest element.                         *)
LEMMA LargestExists ==
  ASSUME NEW S \in SUBSET Int, IsFiniteSet(S), S # {}
  PROVE  \E n \in S : \A m \in S : m <= n
<1> DEFINE R == {q \in Int \X Int : q[2] <= q[1]}
<1>1. \A x, y \in Int : <<x, y>> \in R <=> y <= x
  OBVIOUS
<1> HIDE DEF R
<1>2. /\ \A x, y \in S : <<x, y>> \in R \/ <<y, x>> \in R
      /\ \A x, y, z \in S : <<x, y>> \in R /\ <<y, z>> \in R => <<x, z>> \in R
  BY <1>1
<1>3. \E n \in S : \A m \in S : <<n, m>> \in R
  BY <1>2, FirstExists
<1> QED
  BY <1>1, <1>3

(* Any set of naturals has a smallest one.                                 *)
LEMMA SmallestExists ==
  ASSUME NEW S \in SUBSET Nat, S # {}
  PROVE  \E n \in S : \A m \in S : n <= m
<1>1. PICK k \in S : k \in Nat
  OBVIOUS
<1> DEFINE A == {n \in S : n <= k}
           R == {q \in Int \X Int : q[1] <= q[2]}
<1>2. A \subseteq 0..k
  <2> SUFFICES ASSUME NEW n \in A PROVE n \in 0..k
    OBVIOUS
  <2>1. n \in Nat /\ n <= k
    OBVIOUS
  <2> QED
    BY <1>1, <2>1
<1>3. IsFiniteSet(A) /\ k \in A
  <2>1. IsFiniteSet(0..k)
    BY <1>1, FS_Interval
  <2>2. k \in A
    BY <1>1
  <2> HIDE DEF A
  <2> QED
    BY <1>2, <2>1, <2>2, FS_Subset
<1>4. \A x, y \in Int : <<x, y>> \in R <=> x <= y
  OBVIOUS
<1>5. A \in SUBSET Int
  BY <1>1, <1>2
<1> HIDE DEF R, A
<1>6. /\ \A x, y \in A : <<x, y>> \in R \/ <<y, x>> \in R
      /\ \A x, y, z \in A : <<x, y>> \in R /\ <<y, z>> \in R => <<x, z>> \in R
  BY <1>4, <1>5
<1>7. PICK n \in A : \A m \in A : <<n, m>> \in R
  BY <1>3, <1>5, <1>6, FirstExists
<1>8. n \in S /\ n <= k /\ \A m \in A : n <= m
  BY <1>4, <1>5, <1>7 DEF A
<1>9. ASSUME NEW m \in S PROVE n <= m
  <2>1. CASE m \in A
    BY <1>8, <2>1
  <2>2. CASE m \notin A
    BY <1>8, <2>2 DEF A
  <2> QED
    BY <2>1, <2>2
<1> QED
  BY <1>8, <1>9

(* Recursion over the subsets of S: p says which element of a set is taken *)
(* off it, step what a set makes of the value of the rest.                 *)
Rec(g, S, p, b, step) ==
  g = [s \in SUBSET S |-> IF s = {} THEN b ELSE step[<<s, g[s \ {p[s]}]>>]]

Taker(p, S) == \A s \in SUBSET S : s # {} => p[s] \in s

(* Two such functions agree where both are defined.                        *)
LEMMA RecAgree ==
  ASSUME NEW S, IsFiniteSet(S), NEW p, Taker(p, S), NEW b, NEW step,
         NEW A \in SUBSET S, NEW B \in SUBSET S, NEW g, NEW h,
         Rec(g, A, p, b, step), Rec(h, B, p, b, step)
  PROVE  \A s \in SUBSET A : s \in SUBSET B => g[s] = h[s]
<1> DEFINE F == {s \in SUBSET S : s \subseteq A /\ s \subseteq B /\ g[s] # h[s]}
<1> SUFFICES ASSUME F # {} PROVE FALSE
  OBVIOUS
<1>1. F \in SUBSET SUBSET S
  OBVIOUS
<1> HIDE DEF F
<1>2. PICK T \in F : \A U \in F : U \subseteq T => U = T
  BY <1>1, MinimalSet
<1>3. T \subseteq S /\ T \subseteq A /\ T \subseteq B /\ g[T] # h[T]
  BY DEF F
<1>4. CASE T = {}
  BY <1>3, <1>4 DEF Rec
<1>5. CASE T # {}
  <2>1. p[T] \in T
    BY <1>3, <1>5 DEF Taker
  <2> DEFINE U == T \ {p[T]}
  <2>2. U \subseteq T /\ U # T
    BY <2>1
  <2>3. U \notin F
    BY <1>2, <2>2
  <2>4. g[U] = h[U]
    BY <1>3, <2>2, <2>3 DEF F
  <2>5. g[T] = step[<<T, g[U]>>]
    BY <1>3, <1>5 DEF Rec
  <2>6. h[T] = step[<<T, h[U]>>]
    BY <1>3, <1>5 DEF Rec
  <2> QED
    BY <1>3, <2>4, <2>5, <2>6
<1> QED
  BY <1>4, <1>5

(* There is one.                                                           *)
LEMMA RecExists ==
  ASSUME NEW S, IsFiniteSet(S), NEW p, Taker(p, S), NEW b, NEW step
  PROVE  \E g : Rec(g, S, p, b, step)
<1> DEFINE Has(A) == \E g : Rec(g, A, p, b, step)
           F == {A \in SUBSET S : ~Has(A)}
<1> SUFFICES ASSUME F # {} PROVE FALSE
  OBVIOUS
<1>1. F \in SUBSET SUBSET S
  OBVIOUS
<1> HIDE DEF F
<1>2. PICK T \in F : \A U \in F : U \subseteq T => U = T
  BY <1>1, MinimalSet
<1>3. T \subseteq S /\ ~Has(T)
  BY DEF F
<1> DEFINE G(A) == CHOOSE g : Rec(g, A, p, b, step)
           R(A) == G(A)
           val(s) == IF s = {} THEN b ELSE step[<<s, G(T \ {p[s]})[s \ {p[s]}]>>]
           g0 == [s \in SUBSET T |-> val(s)]
<1>4. \A x \in T : Rec(G(T \ {x}), T \ {x}, p, b, step)
  <2> SUFFICES ASSUME NEW x \in T PROVE Rec(G(T \ {x}), T \ {x}, p, b, step)
    OBVIOUS
  <2>1. T \ {x} \notin F /\ T \ {x} \subseteq S
    BY <1>2, <1>3
  <2>2. Has(T \ {x})
    BY <2>1 DEF F
  <2> QED
    BY <2>2
<1> HIDE DEF G, Has
<1>5. \A r \in SUBSET T, x \in T : x \notin r => G(T \ {x})[r] = g0[r]
  <2> SUFFICES ASSUME NEW r \in SUBSET T, NEW x \in T, x \notin r PROVE G(T \ {x})[r] = g0[r]
    OBVIOUS
  <2>1. r \in SUBSET (T \ {x}) /\ Rec(G(T \ {x}), T \ {x}, p, b, step)
    BY <1>4
  <2>2. CASE r = {}
    <3>1. G(T \ {x})[r] = b
      BY <2>1, <2>2 DEF Rec
    <3> QED
      BY <2>2, <3>1
  <2>3. CASE r # {}
    <3> DEFINE y == p[r]
               q == r \ {y}
    <3>1. y \in r /\ y \in T
      BY <1>3, <2>3 DEF Taker
    <3>2. G(T \ {x})[r] = step[<<r, G(T \ {x})[q]>>]
      BY <2>1, <2>3 DEF Rec
    <3>3. Rec(G(T \ {y}), T \ {y}, p, b, step)
      BY <1>4, <3>1
    <3>4. q \in SUBSET (T \ {x}) /\ q \in SUBSET (T \ {y})
      BY <2>1
    <3>5. T \ {x} \in SUBSET S /\ T \ {y} \in SUBSET S
      BY <1>3
    <3> HIDE DEF q, y
    <3>6. G(T \ {x})[q] = G(T \ {y})[q]
      BY <2>1, <3>3, <3>4, <3>5, RecAgree
    <3>7. g0[r] = step[<<r, G(T \ {y})[q]>>]
      BY <2>3 DEF q, y
    <3> QED
      BY <3>2, <3>6, <3>7
  <2> QED
    BY <2>2, <2>3
<1>6. Rec(g0, T, p, b, step)
  <2>1. ASSUME NEW s \in SUBSET T, s # {} PROVE val(s) = step[<<s, g0[s \ {p[s]}]>>]
    <3>1. p[s] \in s /\ p[s] \in T
      BY <1>3, <2>1 DEF Taker
    <3>2. G(T \ {p[s]})[s \ {p[s]}] = g0[s \ {p[s]}]
      BY <1>5, <3>1
    <3> QED
      BY <2>1, <3>2
  <2>2. \A s \in SUBSET T : val(s) = IF s = {} THEN b ELSE step[<<s, g0[s \ {p[s]}]>>]
    BY <2>1
  <2> QED
    BY <2>2 DEF Rec
<1> QED
  BY <1>3, <1>6 DEF Has

(* It stays within what b is in and step keeps in.                         *)
LEMMA RecTyped ==
  ASSUME NEW S, IsFiniteSet(S), NEW p, Taker(p, S), NEW V, NEW b \in V, NEW step,
         \A s \in SUBSET S, v \in V : s # {} => step[<<s, v>>] \in V,
         NEW g, Rec(g, S, p, b, step)
  PROVE  \A s \in SUBSET S : g[s] \in V
<1> DEFINE F == {s \in SUBSET S : g[s] \notin V}
<1> SUFFICES ASSUME F # {} PROVE FALSE
  OBVIOUS
<1>1. F \in SUBSET SUBSET S
  OBVIOUS
<1> HIDE DEF F
<1>2. PICK T \in F : \A U \in F : U \subseteq T => U = T
  BY <1>1, MinimalSet
<1>3. T \subseteq S /\ g[T] \notin V
  BY DEF F
<1>4. T # {}
  BY <1>3 DEF Rec
<1>5. p[T] \in T
  BY <1>3, <1>4 DEF Taker
<1> DEFINE U == T \ {p[T]}
<1>6. U \subseteq T /\ U # T
  BY <1>5
<1>7. g[U] \in V
  BY <1>2, <1>3, <1>6 DEF F
<1>8. g[T] = step[<<T, g[U]>>]
  BY <1>3, <1>4 DEF Rec
<1> QED
  BY <1>3, <1>4, <1>7, <1>8

-----------------------------------------------------------------------------
(* Sums.  The first step: a sum takes off it whichever element is chosen.  *)
Chosen(s) == CHOOSE x \in s : TRUE
Chooser(S) == [s \in SUBSET S |-> Chosen(s)]
Adding(f, S) == [sv \in (SUBSET S) \X Int |-> f[Chosen(sv[1])] + sv[2]]
Totals(g, f, S) == g = [s \in SUBSET S |-> IF s = {} THEN 0 ELSE f[Chosen(s)] + g[s \ {Chosen(s)}]]

LEMMA ChosenTaken ==
  ASSUME NEW S
  PROVE  \A s \in SUBSET S : s # {} => Chosen(s) \in s /\ Chooser(S)[s] = Chosen(s)
  BY DEF Chosen, Chooser

LEMMA SumUnfolds ==
  ASSUME NEW f, NEW S
  PROVE  SumFunctionOnSet(f, S) = (CHOOSE g : Totals(g, f, S))[S]
  BY DEF SumFunctionOnSet, FoldFunctionOnSet, MapThenFoldSet, Totals, Chosen

(* The sums over the subsets of S, as one function, and what they are.     *)
LEMMA TotalsOfSubsets ==
  ASSUME NEW S, IsFiniteSet(S), NEW f, \A x \in S : f[x] \in Int
  PROVE  \E g : Totals(g, f, S)
<1> DEFINE p == Chooser(S)
           step == Adding(f, S)
<1>1. Taker(p, S)
  BY ChosenTaken DEF Taker
<1>2. \A s \in SUBSET S, v \in Int : s # {} => step[<<s, v>>] = f[Chosen(s)] + v /\ f[Chosen(s)] \in Int
  BY ChosenTaken DEF Adding
<1>3. PICK g : Rec(g, S, p, 0, step)
  BY <1>1, RecExists
<1>4. \A s \in SUBSET S : g[s] \in Int
  <2>1. \A s \in SUBSET S, v \in Int : s # {} => step[<<s, v>>] \in Int
    BY <1>2
  <2> HIDE DEF p, step
  <2> QED
    BY <1>1, <1>3, <2>1, RecTyped
<1>5. ASSUME NEW s \in SUBSET S, s # {}
      PROVE  step[<<s, g[s \ {p[s]}]>>] = f[Chosen(s)] + g[s \ {Chosen(s)}]
  <2>1. p[s] = Chosen(s)
    BY <1>5, ChosenTaken
  <2> HIDE DEF p, step
  <2> QED
    BY <1>2, <1>4, <1>5, <2>1
<1> HIDE DEF p, step
<1>6. Totals(g, f, S)
  BY <1>3, <1>5 DEF Rec, Totals
<1> QED
  BY <1>6

LEMMA TotalsAgree ==
  ASSUME NEW S, IsFiniteSet(S), NEW f, NEW A \in SUBSET S, NEW B \in SUBSET S, NEW g, NEW h,
         Totals(g, f, A), Totals(h, f, B)
  PROVE  \A s \in SUBSET A : s \in SUBSET B => g[s] = h[s]
<1> DEFINE F == {s \in SUBSET S : s \subseteq A /\ s \subseteq B /\ g[s] # h[s]}
<1> SUFFICES ASSUME F # {} PROVE FALSE
  OBVIOUS
<1>1. F \in SUBSET SUBSET S
  OBVIOUS
<1> HIDE DEF F
<1>2. PICK T \in F : \A U \in F : U \subseteq T => U = T
  BY <1>1, MinimalSet
<1>3. T \subseteq S /\ T \subseteq A /\ T \subseteq B /\ g[T] # h[T]
  BY DEF F
<1>4. T # {}
  BY <1>3 DEF Totals
<1>5. Chosen(T) \in T
  BY <1>4 DEF Chosen
<1> DEFINE U == T \ {Chosen(T)}
<1>6. g[U] = h[U]
  BY <1>2, <1>3, <1>5 DEF F
<1>7. g[T] = f[Chosen(T)] + g[U]
  BY <1>3, <1>4 DEF Totals
<1>8. h[T] = f[Chosen(T)] + h[U]
  BY <1>3, <1>4 DEF Totals
<1> QED
  BY <1>3, <1>6, <1>7, <1>8

(* The sums over the subsets of a finite set obey their recursion.         *)
LEMMA SumStep ==
  ASSUME NEW S, IsFiniteSet(S), NEW f, \A x \in S : f[x] \in Int
  PROVE  /\ SumFunctionOnSet(f, {}) = 0
         /\ S # {} => SumFunctionOnSet(f, S)
                        = f[Chosen(S)] + SumFunctionOnSet(f, S \ {Chosen(S)})
<1> DEFINE G(A) == CHOOSE g : Totals(g, f, A)
<1>1. ASSUME NEW A \in SUBSET S PROVE Totals(G(A), f, A) /\ SumFunctionOnSet(f, A) = G(A)[A]
  <2>1. IsFiniteSet(A)
    BY FS_Subset
  <2>2. \E g : Totals(g, f, A)
    BY <2>1, TotalsOfSubsets
  <2> QED
    BY <2>2, SumUnfolds
<1> HIDE DEF G
<1>2. SumFunctionOnSet(f, {}) = 0
  BY <1>1 DEF Totals
<1>3. ASSUME S # {}
      PROVE  SumFunctionOnSet(f, S) = f[Chosen(S)] + SumFunctionOnSet(f, S \ {Chosen(S)})
  <2> DEFINE R == S \ {Chosen(S)}
  <2>1. R \in SUBSET S
    OBVIOUS
  <2>2. G(S)[S] = f[Chosen(S)] + G(S)[R]
    BY <1>1, <1>3 DEF Totals
  <2> HIDE DEF R
  <2>3. G(S)[R] = G(R)[R]
    BY <1>1, <2>1, TotalsAgree
  <2>4. SumFunctionOnSet(f, S) = f[Chosen(S)] + SumFunctionOnSet(f, R)
    BY <1>1, <2>1, <2>2, <2>3
  <2> QED
    BY <2>4 DEF R
<1> QED
  BY <1>2, <1>3

(* A sum of integers is an integer, and one of naturals a natural.         *)
LEMMA SumTyped ==
  ASSUME NEW S, IsFiniteSet(S), NEW f, \A x \in S : f[x] \in Int
  PROVE  /\ SumFunctionOnSet(f, S) \in Int
         /\ (\A x \in S : f[x] >= 0) => SumFunctionOnSet(f, S) \in Nat
<1> DEFINE Good(A) == /\ SumFunctionOnSet(f, A) \in Int
                      /\ (\A x \in A : f[x] >= 0) => SumFunctionOnSet(f, A) \in Nat
           F == {A \in SUBSET S : ~Good(A)}
<1> SUFFICES ASSUME F # {} PROVE FALSE
  OBVIOUS
<1>1. F \in SUBSET SUBSET S
  OBVIOUS
<1> HIDE DEF F
<1>2. PICK T \in F : \A U \in F : U \subseteq T => U = T
  BY <1>1, MinimalSet
<1>3. T \subseteq S /\ ~Good(T)
  BY DEF F
<1>4. IsFiniteSet(T) /\ \A x \in T : f[x] \in Int
  BY <1>3, FS_Subset
<1>5. T # {}
  <2>1. SumFunctionOnSet(f, {}) = 0
    BY SumStep
  <2> QED
    BY <1>3, <2>1
<1>6. Chosen(T) \in T
  BY <1>5 DEF Chosen
<1> DEFINE U == T \ {Chosen(T)}
<1>7. Good(U)
  BY <1>2, <1>3, <1>6 DEF F
<1>8. SumFunctionOnSet(f, T) = f[Chosen(T)] + SumFunctionOnSet(f, U)
  BY <1>4, <1>5, SumStep
<1>9. f[Chosen(T)] \in Int
  BY <1>4, <1>6
<1> QED
  BY <1>3, <1>6, <1>7, <1>8, <1>9

(* Any element may be taken off a sum first.                               *)
LEMMA SumRemove ==
  ASSUME NEW S, IsFiniteSet(S), NEW f, \A x \in S : f[x] \in Int, NEW x \in S
  PROVE  SumFunctionOnSet(f, S) = f[x] + SumFunctionOnSet(f, S \ {x})
<1> DEFINE F == {A \in SUBSET S : \E y \in A : SumFunctionOnSet(f, A) # f[y] + SumFunctionOnSet(f, A \ {y})}
<1> SUFFICES ASSUME F # {} PROVE FALSE
  OBVIOUS
<1>1. F \in SUBSET SUBSET S
  OBVIOUS
<1>2. \A A \in SUBSET S : IsFiniteSet(A) /\ (\A y \in A : f[y] \in Int) /\ SumFunctionOnSet(f, A) \in Int
  <2> SUFFICES ASSUME NEW A \in SUBSET S
               PROVE  IsFiniteSet(A) /\ (\A y \in A : f[y] \in Int) /\ SumFunctionOnSet(f, A) \in Int
    OBVIOUS
  <2> QED
    BY FS_Subset, SumTyped
<1> HIDE DEF F
<1>3. PICK T \in F : \A U \in F : U \subseteq T => U = T
  BY <1>1, MinimalSet
<1>4. T \subseteq S /\ \E y \in T : SumFunctionOnSet(f, T) # f[y] + SumFunctionOnSet(f, T \ {y})
  BY DEF F
<1>5. PICK y \in T : SumFunctionOnSet(f, T) # f[y] + SumFunctionOnSet(f, T \ {y})
  BY <1>4
<1> DEFINE c == Chosen(T)
           A == T \ {c}
           B == T \ {y}
           C == T \ {c, y}
<1>6. c \in T
  BY <1>4 DEF Chosen
<1>7. SumFunctionOnSet(f, T) = f[c] + SumFunctionOnSet(f, A)
  BY <1>2, <1>4, SumStep
<1>8. y # c
  BY <1>5, <1>7
<1>9. A \notin F /\ B \notin F /\ A \subseteq S /\ B \subseteq S /\ C \subseteq S
  BY <1>3, <1>4, <1>5, <1>6
<1>10. A \ {y} = C /\ B \ {c} = C /\ y \in A /\ c \in B
  BY <1>6, <1>8
<1>11. SumFunctionOnSet(f, A) = f[y] + SumFunctionOnSet(f, C)
  BY <1>9, <1>10 DEF F
<1>12. SumFunctionOnSet(f, B) = f[c] + SumFunctionOnSet(f, C)
  BY <1>9, <1>10 DEF F
<1>13. f[c] \in Int /\ f[y] \in Int /\ SumFunctionOnSet(f, C) \in Int
  BY <1>2, <1>4, <1>6, <1>9
<1> QED
  BY <1>5, <1>7, <1>11, <1>12, <1>13

LEMMA SumAdd ==
  ASSUME NEW S, IsFiniteSet(S), NEW x, x \notin S, NEW f, \A y \in S \cup {x} : f[y] \in Int
  PROVE  SumFunctionOnSet(f, S \cup {x}) = f[x] + SumFunctionOnSet(f, S)
<1>1. IsFiniteSet(S \cup {x})
  BY FS_AddElement
<1>2. (S \cup {x}) \ {x} = S
  OBVIOUS
<1>3. SumFunctionOnSet(f, S \cup {x}) = f[x] + SumFunctionOnSet(f, (S \cup {x}) \ {x})
  BY <1>1, SumRemove
<1> QED
  BY <1>2, <1>3

(* A sum depends on the values it adds, and grows with them.               *)
LEMMA SumGrows ==
  ASSUME NEW S, IsFiniteSet(S), NEW f, NEW g,
         \A x \in S : f[x] \in Int /\ g[x] \in Int /\ f[x] <= g[x]
  PROVE  SumFunctionOnSet(f, S) <= SumFunctionOnSet(g, S)
<1> DEFINE F == {A \in SUBSET S : ~(SumFunctionOnSet(f, A) <= SumFunctionOnSet(g, A))}
<1> SUFFICES ASSUME F # {} PROVE FALSE
  OBVIOUS
<1>1. F \in SUBSET SUBSET S
  OBVIOUS
<1> HIDE DEF F
<1>2. PICK T \in F : \A U \in F : U \subseteq T => U = T
  BY <1>1, MinimalSet
<1>3. T \subseteq S /\ IsFiniteSet(T) /\ ~(SumFunctionOnSet(f, T) <= SumFunctionOnSet(g, T))
  BY <1>1, FS_Subset DEF F
<1>4. SumFunctionOnSet(f, {}) = 0 /\ SumFunctionOnSet(g, {}) = 0
  BY SumStep
<1>5. PICK x \in T : TRUE
  BY <1>3, <1>4
<1> DEFINE U == T \ {x}
<1>6. U \subseteq T /\ U # T /\ IsFiniteSet(U)
  BY <1>3, <1>5, FS_RemoveElement
<1>7. SumFunctionOnSet(f, U) <= SumFunctionOnSet(g, U)
  BY <1>2, <1>3, <1>6 DEF F
<1>8. SumFunctionOnSet(f, U) \in Int /\ SumFunctionOnSet(g, U) \in Int
  <2>1. \A y \in U : f[y] \in Int /\ g[y] \in Int
    BY <1>3
  <2> HIDE DEF U
  <2> QED
    BY <1>6, <2>1, SumTyped
<1>9. SumFunctionOnSet(f, T) = f[x] + SumFunctionOnSet(f, U)
  BY <1>3, <1>5, SumRemove
<1>10. SumFunctionOnSet(g, T) = g[x] + SumFunctionOnSet(g, U)
  BY <1>3, <1>5, SumRemove
<1>11. f[x] \in Int /\ g[x] \in Int /\ f[x] <= g[x]
  BY <1>3, <1>5
<1> HIDE DEF U
<1> QED
  BY <1>3, <1>7, <1>8, <1>9, <1>10, <1>11

LEMMA SumSame ==
  ASSUME NEW S, IsFiniteSet(S), NEW f, NEW g, \A x \in S : f[x] \in Int /\ g[x] = f[x]
  PROVE  SumFunctionOnSet(f, S) = SumFunctionOnSet(g, S)
<1>1. SumFunctionOnSet(f, S) \in Int /\ SumFunctionOnSet(g, S) \in Int
  BY SumTyped
<1>2. SumFunctionOnSet(f, S) <= SumFunctionOnSet(g, S)
  BY SumGrows
<1>3. SumFunctionOnSet(g, S) <= SumFunctionOnSet(f, S)
  BY SumGrows
<1> QED
  BY <1>1, <1>2, <1>3

(* A part of a sum of naturals is no larger than the sum.                  *)
LEMMA SumSubset ==
  ASSUME NEW S, IsFiniteSet(S), NEW T \in SUBSET S, NEW f, \A x \in S : f[x] \in Nat
  PROVE  SumFunctionOnSet(f, T) <= SumFunctionOnSet(f, S)
<1> DEFINE F == {A \in SUBSET S : T \subseteq A /\ ~(SumFunctionOnSet(f, T) <= SumFunctionOnSet(f, A))}
<1> SUFFICES ASSUME F # {} PROVE FALSE
  OBVIOUS
<1>1. F \in SUBSET SUBSET S
  OBVIOUS
<1>2. \A A \in SUBSET S : IsFiniteSet(A) /\ (\A y \in A : f[y] \in Int) /\ SumFunctionOnSet(f, A) \in Nat
  <2> SUFFICES ASSUME NEW A \in SUBSET S
               PROVE  IsFiniteSet(A) /\ (\A y \in A : f[y] \in Int) /\ SumFunctionOnSet(f, A) \in Nat
    OBVIOUS
  <2>1. IsFiniteSet(A)
    BY FS_Subset
  <2>2. \A y \in A : f[y] \in Nat
    OBVIOUS
  <2> QED
    BY <2>1, <2>2, SumTyped
<1> HIDE DEF F
<1>3. PICK A \in F : \A U \in F : U \subseteq A => U = A
  BY <1>1, MinimalSet
<1>4. A \subseteq S /\ T \subseteq A /\ ~(SumFunctionOnSet(f, T) <= SumFunctionOnSet(f, A))
  BY DEF F
<1>5. A # T
  BY <1>2, <1>4
<1>6. PICK x \in A : x \notin T
  BY <1>4, <1>5
<1> DEFINE U == A \ {x}
<1>7. U \subseteq S /\ T \subseteq U /\ U \subseteq A /\ U # A
  BY <1>4, <1>6
<1>8. SumFunctionOnSet(f, T) <= SumFunctionOnSet(f, U)
  BY <1>3, <1>7 DEF F
<1>9. SumFunctionOnSet(f, A) = f[x] + SumFunctionOnSet(f, U)
  BY <1>2, <1>4, <1>6, SumRemove
<1>10. f[x] \in Nat /\ SumFunctionOnSet(f, U) \in Nat /\ SumFunctionOnSet(f, T) \in Nat
  BY <1>2, <1>4, <1>6, <1>7
<1> QED
  BY <1>4, <1>8, <1>9, <1>10

(* What is left out of a sum may be left out if it is zero.                *)
LEMMA SumIgnoresZeros ==
  ASSUME NEW S, IsFiniteSet(S), NEW f, \A x \in S : f[x] \in Int /\ f[x] >= 0,
         NEW T \in SUBSET S, \A x \in S : x \notin T => f[x] = 0
  PROVE  SumFunctionOnSet(f, T) = SumFunctionOnSet(f, S)
<1> DEFINE F == {A \in SUBSET S : T \subseteq A /\ SumFunctionOnSet(f, A) # SumFunctionOnSet(f, T)}
<1> SUFFICES ASSUME F # {} PROVE FALSE
  OBVIOUS
<1>1. F \in SUBSET SUBSET S
  OBVIOUS
<1> HIDE DEF F
<1>2. PICK A \in F : \A U \in F : U \subseteq A => U = A
  BY <1>1, MinimalSet
<1>3. A \subseteq S /\ T \subseteq A /\ SumFunctionOnSet(f, A) # SumFunctionOnSet(f, T)
  BY DEF F
<1>4. PICK x \in A : x \notin T
  BY <1>3
<1>5. A \ {x} \notin F
  BY <1>2, <1>4
<1>6. SumFunctionOnSet(f, A \ {x}) = SumFunctionOnSet(f, T)
  BY <1>3, <1>4, <1>5 DEF F
<1>7. IsFiniteSet(A) /\ IsFiniteSet(A \ {x}) /\ \A y \in A : f[y] \in Int
  BY <1>3, FS_Subset
<1>8. SumFunctionOnSet(f, A) = f[x] + SumFunctionOnSet(f, A \ {x})
  BY <1>7, SumRemove
<1>9. f[x] = 0
  BY <1>3, <1>4
<1>10. SumFunctionOnSet(f, A \ {x}) \in Int
  BY <1>7, SumTyped
<1> QED
  BY <1>3, <1>6, <1>8, <1>9, <1>10

(* The sum over two parts is that of the parts.                            *)
LEMMA SumSplits ==
  ASSUME NEW A, IsFiniteSet(A), NEW B, IsFiniteSet(B), A \cap B = {},
         NEW f, \A x \in A \cup B : f[x] \in Int
  PROVE  SumFunctionOnSet(f, A \cup B) = SumFunctionOnSet(f, A) + SumFunctionOnSet(f, B)
<1> DEFINE F == {C \in SUBSET B : SumFunctionOnSet(f, A \cup C) # SumFunctionOnSet(f, A) + SumFunctionOnSet(f, C)}
<1> SUFFICES ASSUME F # {} PROVE FALSE
  OBVIOUS
<1>1. F \in SUBSET SUBSET B
  OBVIOUS
<1>2. \A C \in SUBSET B : IsFiniteSet(C) /\ (\A x \in C : f[x] \in Int) /\ IsFiniteSet(A \cup C)
  BY FS_Subset, FS_Union
<1> HIDE DEF F
<1>3. PICK C \in F : \A D \in F : D \subseteq C => D = C
  BY <1>1, MinimalSet
<1>4. C \subseteq B /\ SumFunctionOnSet(f, A \cup C) # SumFunctionOnSet(f, A) + SumFunctionOnSet(f, C)
  BY DEF F
<1>5. SumFunctionOnSet(f, {}) = 0
  BY <1>2, SumStep
<1>6. SumFunctionOnSet(f, A) \in Int
  BY SumTyped
<1>7. C # {}
  <2> SUFFICES ASSUME C = {} PROVE FALSE
    OBVIOUS
  <2>1. A \cup C = A
    OBVIOUS
  <2> QED
    BY <1>4, <1>5, <1>6, <2>1
<1>8. PICK x \in C : TRUE
  BY <1>7
<1> DEFINE D == C \ {x}
<1>9. D \subseteq B /\ D \subseteq C /\ D # C
  BY <1>4, <1>8
<1>10. SumFunctionOnSet(f, A \cup D) = SumFunctionOnSet(f, A) + SumFunctionOnSet(f, D)
  BY <1>3, <1>9 DEF F
<1>11. SumFunctionOnSet(f, C) = f[x] + SumFunctionOnSet(f, D)
  BY <1>2, <1>4, SumRemove
<1>12. (A \cup C) \ {x} = A \cup D /\ x \in A \cup C /\ \A y \in A \cup C : f[y] \in Int
  BY <1>4, <1>8
<1>13. SumFunctionOnSet(f, A \cup C) = f[x] + SumFunctionOnSet(f, A \cup D)
  <2> DEFINE E == A \cup C
  <2>1. IsFiniteSet(E) /\ x \in E /\ \A y \in E : f[y] \in Int
    BY <1>2, <1>4, <1>12
  <2> HIDE DEF E
  <2>2. SumFunctionOnSet(f, E) = f[x] + SumFunctionOnSet(f, E \ {x})
    BY <2>1, SumRemove
  <2> QED
    BY <1>12, <2>2 DEF E
<1>14. SumFunctionOnSet(f, D) \in Int /\ f[x] \in Int
  BY <1>2, <1>9, <1>12, SumTyped
<1> QED
  BY <1>4, <1>6, <1>10, <1>11, <1>13, <1>14

(* Changing one term changes the sum by as much.                           *)
LEMMA SumChanges ==
  ASSUME NEW S, IsFiniteSet(S), NEW f, NEW g, NEW t \in S,
         \A x \in S : f[x] \in Int /\ g[x] \in Int /\ (x # t => g[x] = f[x])
  PROVE  SumFunctionOnSet(g, S) = SumFunctionOnSet(f, S) - f[t] + g[t]
<1> DEFINE R == S \ {t}
<1>1. IsFiniteSet(R) /\ R \subseteq S
  BY FS_Subset
<1>2. \A x \in S : f[x] \in Int
  OBVIOUS
<1>3. \A x \in S : g[x] \in Int
  OBVIOUS
<1>4. SumFunctionOnSet(f, S) = f[t] + SumFunctionOnSet(f, R)
  BY <1>2, SumRemove
<1>5. SumFunctionOnSet(g, S) = g[t] + SumFunctionOnSet(g, R)
  BY <1>3, SumRemove
<1>6. \A x \in R : f[x] \in Int /\ f[x] = g[x]
  OBVIOUS
<1>7. \A x \in R : f[x] \in Int
  BY <1>6
<1> HIDE DEF R
<1>8. SumFunctionOnSet(f, R) = SumFunctionOnSet(g, R)
  BY <1>1, <1>6, SumSame
<1>9. SumFunctionOnSet(f, R) \in Int
  BY <1>1, <1>7, SumTyped
<1> QED
  BY <1>2, <1>3, <1>4, <1>5, <1>8, <1>9

-----------------------------------------------------------------------------
(* Sets of small sets: a union has at most as many elements as its parts   *)
(* together, so a union that has more tells of a part that is larger.      *)
LEMMA UnionSize ==
  ASSUME NEW S, IsFiniteSet(S), NEW part, NEW k \in Nat,
         \A x \in S : IsFiniteSet(part[x]) /\ Cardinality(part[x]) <= k
  PROVE  LET U == UNION {part[x] : x \in S}
         IN  IsFiniteSet(U) /\ Cardinality(U) <= Cardinality(S) * k
<1> DEFINE U(A) == UNION {part[x] : x \in A}
           Good(A) == IsFiniteSet(U(A)) /\ Cardinality(U(A)) <= Cardinality(A) * k
           F == {A \in SUBSET S : ~Good(A)}
<1> SUFFICES ASSUME F # {} PROVE FALSE
  OBVIOUS
<1>1. F \in SUBSET SUBSET S
  OBVIOUS
<1> HIDE DEF F
<1>2. PICK A \in F : \A B \in F : B \subseteq A => B = A
  BY <1>1, MinimalSet
<1>3. A \subseteq S /\ ~Good(A) /\ IsFiniteSet(A)
  BY <1>1, FS_Subset DEF F
<1>4. A # {}
  <2>1. U({}) = {}
    OBVIOUS
  <2>2. IsFiniteSet({}) /\ Cardinality({}) = 0
    BY FS_EmptySet
  <2>3. Good({})
    BY <2>1, <2>2
  <2> QED
    BY <1>3, <2>3
<1>5. PICK x \in A : TRUE
  BY <1>4
<1> DEFINE R == A \ {x}
<1>6. R \subseteq S /\ R \subseteq A /\ R # A
  BY <1>3, <1>5
<1>7. IsFiniteSet(R) /\ Cardinality(R) = Cardinality(A) - 1
  BY <1>3, <1>5, FS_RemoveElement
<1>8. Good(R)
  BY <1>2, <1>6 DEF F
<1>9. U(A) = U(R) \cup part[x]
  BY <1>5
<1>10. IsFiniteSet(part[x]) /\ Cardinality(part[x]) <= k
  BY <1>3, <1>5
<1> DEFINE V == U(R)
<1>11. IsFiniteSet(V) /\ Cardinality(V) <= Cardinality(R) * k
  BY <1>8
<1> HIDE DEF V, R
<1>12. /\ IsFiniteSet(V \cup part[x])
       /\ Cardinality(V \cup part[x]) = Cardinality(V) + Cardinality(part[x]) - Cardinality(V \cap part[x])
       /\ Cardinality(V \cap part[x]) \in Nat
  BY <1>10, <1>11, FS_Union, FS_Intersection, FS_CardinalityType
<1>13. Cardinality(V) \in Nat /\ Cardinality(part[x]) \in Nat /\ Cardinality(A) \in Nat
  BY <1>3, <1>10, <1>11, FS_CardinalityType
<1>14. (Cardinality(A) - 1) * k = Cardinality(A) * k - k /\ Cardinality(A) * k \in Int
  BY <1>13
<1>15. Cardinality(V \cup part[x]) <= Cardinality(A) * k
  BY <1>7, <1>10, <1>11, <1>12, <1>13, <1>14
<1>16. U(A) = V \cup part[x]
  BY <1>9 DEF V
<1> QED
  BY <1>3, <1>12, <1>15, <1>16
=============================================================================
