----------------------------- MODULE SumTheorems -----------------------------
(***************************************************************************)
(* Sums over finite sets: what quotas add up to, and what windows let in.  *)
(* A sum is a fold, the value of a function defined by recursion over the  *)
(* subsets of its set.  The function exists, and the sum does not depend   *)
(* on the order of its terms: both are shown by looking at a smallest set  *)
(* for which they would fail.                                              *)
(***************************************************************************)
EXTENDS FiniteSetsExt, FiniteSetTheorems, TLAPS

\* The sum of f[x] over the elements x of S.
SumOver(f, S) == MapThenSumSet(LAMBDA x : f[x], S)

\* The element a fold takes next.
Taken(S) == CHOOSE x \in S : TRUE

\* g gives the sums over the subsets of S.
Sums(g, f, S) ==
    g = [s \in SUBSET S |->
            IF s = {} THEN 0 ELSE f[Taken(s)] + g[s \ {Taken(s)}]]

-----------------------------------------------------------------------------
(* The fold. *)

\* Among subsets of a finite set, one contains no other.
LEMMA SmallestSubset ==
    ASSUME NEW S, IsFiniteSet(S), NEW Bad, Bad \subseteq SUBSET S, Bad # {}
    PROVE  \E T \in Bad : \A U \in Bad : U \subseteq T => U = T
<1>1. IsWellFoundedOn(StrictSubsetOrdering(S), SUBSET S)
  BY FS_StrictSubsetOrderingWellFounded, FS_FiniteSubsetsOfFinite
<1>2. PICK T \in Bad : \A U \in Bad : ~(<<U, T>> \in StrictSubsetOrdering(S))
  BY <1>1, WFMin
<1> QED
  BY <1>2 DEF StrictSubsetOrdering

\* A nonempty set gives an element, and has fewer without it.
LEMMA TakenIn ==
    ASSUME NEW S, S # {}
    PROVE  Taken(S) \in S /\ S \ {Taken(S)} \subseteq S /\ S \ {Taken(S)} # S
  BY DEF Taken

\* One function gives the sums over the subsets of a finite set.
LEMMA SumsUnique ==
    ASSUME NEW f, NEW S, IsFiniteSet(S), NEW g, NEW h, Sums(g, f, S), Sums(h, f, S)
    PROVE  g = h
<1> DEFINE Bad == {s \in SUBSET S : g[s] # h[s]}
<1>1. SUFFICES ASSUME Bad # {} PROVE FALSE
  BY DEF Sums
<1>2. PICK T \in Bad : \A U \in Bad : U \subseteq T => U = T
  <2> HIDE DEF Bad
  <2>1. Bad \subseteq SUBSET S
    BY DEF Bad
  <2> QED
    BY <1>1, <2>1, SmallestSubset
<1>3. T # {}
  BY <1>2 DEF Sums
<1>4. g[T \ {Taken(T)}] = h[T \ {Taken(T)}]
  BY <1>2, <1>3, TakenIn
<1> QED
  BY <1>2, <1>3, <1>4 DEF Sums

\* Its restriction gives the sums over the subsets of a part.
LEMMA SumsRestrict ==
    ASSUME NEW f, NEW S, NEW U \in SUBSET S, NEW g, Sums(g, f, S)
    PROVE  Sums([s \in SUBSET U |-> g[s]], f, U)
<1> DEFINE h == [s \in SUBSET U |-> g[s]]
<1>1. ASSUME NEW s \in SUBSET U
      PROVE  h[s] = IF s = {} THEN 0 ELSE f[Taken(s)] + h[s \ {Taken(s)}]
  <2>1. s \in SUBSET S /\ s \ {Taken(s)} \in SUBSET U
    OBVIOUS
  <2>2. g[s] = IF s = {} THEN 0 ELSE f[Taken(s)] + g[s \ {Taken(s)}]
    BY <2>1 DEF Sums
  <2> QED
    BY <2>1, <2>2
<1>2. h = [s \in SUBSET U |-> h[s]]
  OBVIOUS
<1> HIDE DEF h
<1>3. h = [s \in SUBSET U |-> IF s = {} THEN 0 ELSE f[Taken(s)] + h[s \ {Taken(s)}]]
  BY <1>1, <1>2
<1> QED
  BY <1>3 DEF Sums, h

\* What it gives for the whole set.
LEMMA SumsTop ==
    ASSUME NEW f, NEW S, S # {}, NEW g, Sums(g, f, S)
    PROVE  g[S] = f[Taken(S)] + g[S \ {Taken(S)}]
  BY DEF Sums

\* There is such a function.
LEMMA SumsExist ==
    ASSUME NEW f, NEW S, IsFiniteSet(S)
    PROVE  \E g : Sums(g, f, S)
<1> DEFINE Bad == {T \in SUBSET S : ~ \E g : Sums(g, f, T)}
<1>1. SUFFICES ASSUME Bad # {} PROVE FALSE
  OBVIOUS
<1>2. PICK T \in Bad : \A U \in Bad : U \subseteq T => U = T
  <2>1. Bad \subseteq SUBSET S
    OBVIOUS
  <2> HIDE DEF Bad
  <2> QED
    BY <1>1, <2>1, SmallestSubset
<1> DEFINE G(U) == CHOOSE g : Sums(g, f, U)
           At(s) == IF s # T THEN G(s)[s]
                    ELSE IF s = {} THEN 0
                    ELSE f[Taken(s)] + G(s \ {Taken(s)})[s \ {Taken(s)}]
           g == [s \in SUBSET T |-> At(s)]
<1>3. \A U \in SUBSET T : U # T => Sums(G(U), f, U) /\ IsFiniteSet(U)
  BY <1>2, FS_Subset
<1>4. ASSUME NEW s \in SUBSET T, s # {}
      PROVE  g[s] = f[Taken(s)] + g[s \ {Taken(s)}]
  <2> DEFINE r == s \ {Taken(s)}
  <2>1. r \in SUBSET s /\ r \in SUBSET T /\ r # T /\ r # s
    BY <1>4, TakenIn
  <2>2. g[r] = G(r)[r]
    BY <2>1
  <2>3. CASE s = T
    BY <1>4, <2>2, <2>3
  <2>4. CASE s # T
    <3>1. g[s] = G(s)[s] /\ Sums(G(s), f, s) /\ IsFiniteSet(r) /\ Sums(G(r), f, r)
      BY <1>3, <2>1, <2>4
    <3>2. Sums([u \in SUBSET r |-> G(s)[u]], f, r)
      BY <2>1, <3>1, SumsRestrict
    <3>3. [u \in SUBSET r |-> G(s)[u]] = G(r)
      BY <3>1, <3>2, SumsUnique
    <3>4. G(s)[r] = G(r)[r]
      BY <3>3
    <3>5. G(s)[s] = f[Taken(s)] + G(s)[r]
      BY <1>4, <3>1, SumsTop
    <3> QED
      BY <2>2, <3>1, <3>4, <3>5
  <2> QED
    BY <2>3, <2>4
<1>5. g[{}] = 0
  <2>1. CASE T = {}
    BY <2>1
  <2>2. CASE T # {}
    <3>1. g[{}] = G({})[{}] /\ Sums(G({}), f, {})
      BY <1>3, <2>2
    <3> QED
      BY <3>1 DEF Sums
  <2> QED
    BY <2>1, <2>2
<1>6. g = [s \in SUBSET T |-> g[s]]
  OBVIOUS
<1> HIDE DEF g
<1>7. Sums(g, f, T)
  BY <1>4, <1>5, <1>6 DEF Sums
<1> QED
  BY <1>2, <1>7

\* The fold is the value of that function.
LEMMA SumIs ==
    ASSUME NEW f, NEW S, IsFiniteSet(S), NEW g, Sums(g, f, S)
    PROVE  SumOver(f, S) = g[S]
<1> DEFINE h == CHOOSE iter : iter = [s \in SUBSET S |->
                   IF s = {} THEN 0
                   ELSE f[CHOOSE x \in s : TRUE] + iter[s \ {CHOOSE x \in s : TRUE}]]
<1>1. SumOver(f, S) = h[S]
  BY DEF SumOver, MapThenSumSet, MapThenFoldSet
<1>2. Sums(h, f, S)
  BY DEF Sums, Taken
<1> HIDE DEF h
<1>3. g = h
  BY <1>2, SumsUnique
<1> QED
  BY <1>1, <1>3

-----------------------------------------------------------------------------
(* Sums. *)

\* The sum of nothing.
LEMMA SumEmpty ==
    ASSUME NEW f
    PROVE  SumOver(f, {}) = 0
<1>1. IsFiniteSet({})
  BY FS_EmptySet
<1>2. PICK g : Sums(g, f, {})
  BY <1>1, SumsExist
<1>3. g[{}] = 0
  BY <1>2 DEF Sums
<1> QED
  BY <1>1, <1>2, <1>3, SumIs

\* The fold takes one element, and goes on with the others.
LEMMA SumTaken ==
    ASSUME NEW f, NEW S, IsFiniteSet(S), S # {}
    PROVE  SumOver(f, S) = f[Taken(S)] + SumOver(f, S \ {Taken(S)})
<1>1. PICK g : Sums(g, f, S)
  BY SumsExist
<1> DEFINE U == S \ {Taken(S)}
<1>2. IsFiniteSet(U) /\ U \in SUBSET S
  BY FS_Subset
<1>3. Sums([s \in SUBSET U |-> g[s]], f, U)
  BY <1>1, <1>2, SumsRestrict
<1>4. SumOver(f, U) = g[U]
  BY <1>2, <1>3, SumIs
<1>5. g[S] = f[Taken(S)] + g[U]
  BY <1>1, SumsTop
<1> QED
  BY <1>1, <1>4, <1>5, SumIs

\* f[x] is a natural number for every x of S.
Counts(f, S) == \A x \in S : f[x] \in Nat

\* A sum of natural numbers is one.
LEMMA SumType ==
    ASSUME NEW f, NEW S, IsFiniteSet(S), Counts(f, S)
    PROVE  SumOver(f, S) \in Nat
<1> DEFINE Bad == {T \in SUBSET S : SumOver(f, T) \notin Nat}
<1>1. SUFFICES ASSUME Bad # {} PROVE FALSE
  OBVIOUS
<1>2. PICK T \in Bad : \A U \in Bad : U \subseteq T => U = T
  <2>1. Bad \subseteq SUBSET S
    OBVIOUS
  <2> HIDE DEF Bad
  <2> QED
    BY <1>1, <2>1, SmallestSubset
<1>3. T # {}
  <2>1. SumOver(f, {}) \in Nat
    BY SumEmpty
  <2> QED
    BY <1>2, <2>1
<1>4. IsFiniteSet(T)
  BY <1>2, FS_Subset
<1>5. SumOver(f, T \ {Taken(T)}) \in Nat
  BY <1>2, <1>3, TakenIn
<1>6. f[Taken(T)] \in Nat
  BY <1>2, <1>3, TakenIn DEF Counts
<1>7. SumOver(f, T) = f[Taken(T)] + SumOver(f, T \ {Taken(T)})
  BY <1>3, <1>4, SumTaken
<1> QED
  BY <1>2, <1>5, <1>6, <1>7

\* Nothing but zeros.
LEMMA SumZero ==
    ASSUME NEW f, NEW S, IsFiniteSet(S), \A x \in S : f[x] = 0
    PROVE  SumOver(f, S) = 0
<1> DEFINE Bad == {T \in SUBSET S : SumOver(f, T) # 0}
<1>1. SUFFICES ASSUME Bad # {} PROVE FALSE
  OBVIOUS
<1>2. PICK T \in Bad : \A U \in Bad : U \subseteq T => U = T
  <2>1. Bad \subseteq SUBSET S
    OBVIOUS
  <2> HIDE DEF Bad
  <2> QED
    BY <1>1, <2>1, SmallestSubset
<1>3. T # {}
  BY <1>2, SumEmpty
<1>4. IsFiniteSet(T)
  BY <1>2, FS_Subset
<1>5. SumOver(f, T \ {Taken(T)}) = 0 /\ f[Taken(T)] = 0
  BY <1>2, <1>3, TakenIn
<1>6. SumOver(f, T) = f[Taken(T)] + SumOver(f, T \ {Taken(T)})
  BY <1>3, <1>4, SumTaken
<1> QED
  BY <1>2, <1>5, <1>6

\* Any element may be taken first.
LEMMA SumRemove ==
    ASSUME NEW f, NEW S, IsFiniteSet(S), Counts(f, S), NEW x \in S
    PROVE  SumOver(f, S) = f[x] + SumOver(f, S \ {x})
<1> DEFINE Good(T, y) == SumOver(f, T) = f[y] + SumOver(f, T \ {y})
           Bad == {T \in SUBSET S : \E y \in T : ~Good(T, y)}
<1>1. SUFFICES ASSUME Bad # {} PROVE FALSE
  OBVIOUS
<1>2. PICK T \in Bad : \A U \in Bad : U \subseteq T => U = T
  <2>1. Bad \subseteq SUBSET S
    OBVIOUS
  <2> HIDE DEF Bad
  <2> QED
    BY <1>1, <2>1, SmallestSubset
<1>3. PICK y \in T : ~Good(T, y)
  BY <1>2
<1> DEFINE t == Taken(T)
<1>4. t \in T /\ Good(T, t)
  <2>1. IsFiniteSet(T)
    BY <1>2, FS_Subset
  <2> QED
    BY <1>3, <2>1, TakenIn, SumTaken
<1>5. t # y
  BY <1>3, <1>4
<1>6. Good(T \ {t}, y) /\ Good(T \ {y}, t)
  <2>1. /\ T \ {t} \in SUBSET S /\ T \ {t} # T /\ y \in T \ {t}
        /\ T \ {y} \in SUBSET S /\ T \ {y} # T /\ t \in T \ {y}
    BY <1>2, <1>3, <1>4, <1>5
  <2> HIDE DEF Good, t
  <2> QED
    BY <1>2, <2>1
<1>7. (T \ {t}) \ {y} = (T \ {y}) \ {t}
  OBVIOUS
<1>8. f[t] \in Nat /\ f[y] \in Nat /\ SumOver(f, (T \ {t}) \ {y}) \in Nat
  <2>1. T \in SUBSET S /\ (T \ {t}) \ {y} \in SUBSET S
    BY <1>2
  <2>2. IsFiniteSet((T \ {t}) \ {y}) /\ Counts(f, (T \ {t}) \ {y})
    BY <2>1, FS_Subset DEF Counts
  <2> QED
    BY <1>3, <1>4, <2>1, <2>2, SumType DEF Counts
<1> DEFINE rest == SumOver(f, (T \ {t}) \ {y})
<1>9. /\ SumOver(f, T) = f[t] + SumOver(f, T \ {t})
      /\ SumOver(f, T \ {t}) = f[y] + rest
      /\ SumOver(f, T \ {y}) = f[t] + rest
      /\ f[t] \in Nat /\ f[y] \in Nat /\ rest \in Nat
  BY <1>4, <1>6, <1>7, <1>8
<1> HIDE DEF rest, Bad, t
<1>10. SumOver(f, T) = f[y] + SumOver(f, T \ {y})
  BY <1>9
<1> QED
  BY <1>3, <1>10

\* One more element.
LEMMA SumAdd ==
    ASSUME NEW f, NEW S, IsFiniteSet(S), NEW x, x \notin S, Counts(f, S \cup {x})
    PROVE  /\ IsFiniteSet(S \cup {x})
           /\ SumOver(f, S \cup {x}) = SumOver(f, S) + f[x]
<1>1. IsFiniteSet(S \cup {x})
  BY FS_AddElement
<1>2. (S \cup {x}) \ {x} = S
  OBVIOUS
<1>3. SumOver(f, S \cup {x}) = f[x] + SumOver(f, S)
  BY <1>1, <1>2, SumRemove
<1>4. f[x] \in Nat /\ SumOver(f, S) \in Nat
  BY SumType DEF Counts
<1> QED
  BY <1>1, <1>3, <1>4

\* A part does not sum to more than the whole.
LEMMA SumSubset ==
    ASSUME NEW f, NEW S, IsFiniteSet(S), Counts(f, S), NEW U \in SUBSET S
    PROVE  SumOver(f, U) <= SumOver(f, S)
<1> DEFINE Bad == {T \in SUBSET S : \E W \in SUBSET T : ~(SumOver(f, W) <= SumOver(f, T))}
<1>1. SUFFICES ASSUME Bad # {} PROVE FALSE
  OBVIOUS
<1>2. PICK T \in Bad : \A W \in Bad : W \subseteq T => W = T
  <2>1. Bad \subseteq SUBSET S
    OBVIOUS
  <2> HIDE DEF Bad
  <2> QED
    BY <1>1, <2>1, SmallestSubset
<1>3. PICK W \in SUBSET T : ~(SumOver(f, W) <= SumOver(f, T))
  BY <1>2
<1>4. \A V \in SUBSET S : IsFiniteSet(V) /\ Counts(f, V) /\ SumOver(f, V) \in Nat
  BY FS_Subset, SumType DEF Counts
<1>5. PICK x \in T : x \notin W
  <2>1. W # T
    BY <1>2, <1>3, <1>4
  <2> QED
    BY <2>1
<1>6. SumOver(f, T) = f[x] + SumOver(f, T \ {x})
  BY <1>2, <1>4, SumRemove
<1>7. SumOver(f, W) <= SumOver(f, T \ {x})
  BY <1>2, <1>5
<1>8. f[x] \in Nat /\ SumOver(f, W) \in Nat /\ SumOver(f, T \ {x}) \in Nat
  BY <1>2, <1>4 DEF Counts
<1> QED
  BY <1>3, <1>6, <1>7, <1>8

\* f and g give every element of S the same.
Alike(f, g, S) == \A x \in S : f[x] = g[x]

\* Equal terms, equal sums.
LEMMA SumSame ==
    ASSUME NEW f, NEW g, NEW S, IsFiniteSet(S), Alike(f, g, S)
    PROVE  SumOver(f, S) = SumOver(g, S)
<1> DEFINE Bad == {T \in SUBSET S : SumOver(f, T) # SumOver(g, T)}
<1>1. SUFFICES ASSUME Bad # {} PROVE FALSE
  OBVIOUS
<1>2. PICK T \in Bad : \A U \in Bad : U \subseteq T => U = T
  <2>1. Bad \subseteq SUBSET S
    OBVIOUS
  <2> HIDE DEF Bad
  <2> QED
    BY <1>1, <2>1, SmallestSubset
<1>3. T # {}
  BY <1>2, SumEmpty
<1>4. IsFiniteSet(T)
  BY <1>2, FS_Subset
<1>5. SumOver(f, T \ {Taken(T)}) = SumOver(g, T \ {Taken(T)}) /\ f[Taken(T)] = g[Taken(T)]
  BY <1>2, <1>3, TakenIn DEF Alike
<1> QED
  BY <1>2, <1>3, <1>4, <1>5, SumTaken

\* One term that changes.
LEMMA SumChanged ==
    ASSUME NEW f, NEW g, NEW S, IsFiniteSet(S), Counts(f, S), Counts(g, S), NEW x \in S,
           Alike(f, g, S \ {x})
    PROVE  SumOver(g, S) = SumOver(f, S) - f[x] + g[x]
<1> DEFINE R == S \ {x}
<1>1. SumOver(f, S) = f[x] + SumOver(f, R) /\ SumOver(g, S) = g[x] + SumOver(g, R)
  BY SumRemove
<1>2. IsFiniteSet(R) /\ Counts(f, R) /\ Alike(f, g, R)
  BY FS_Subset DEF Counts
<1> HIDE DEF R
<1>3. SumOver(f, R) = SumOver(g, R) /\ SumOver(f, R) \in Nat
  BY <1>2, SumSame, SumType
<1>4. f[x] \in Nat /\ g[x] \in Nat
  BY DEF Counts
<1> QED
  BY <1>1, <1>3, <1>4

\* The sum of two parts that share nothing.
LEMMA SumDisjoint ==
    ASSUME NEW f, NEW S, IsFiniteSet(S), Counts(f, S), NEW U \in SUBSET S
    PROVE  SumOver(f, S) = SumOver(f, U) + SumOver(f, S \ U)
<1> DEFINE Bad == {T \in SUBSET S : SumOver(f, U \cup T) # SumOver(f, U) + SumOver(f, T \ U)}
<1>0. U \cup S = S
  OBVIOUS
<1>1. SUFFICES ASSUME Bad # {} PROVE FALSE
  BY <1>0
<1>2. PICK T \in Bad : \A W \in Bad : W \subseteq T => W = T
  <2>1. Bad \subseteq SUBSET S
    OBVIOUS
  <2> HIDE DEF Bad
  <2> QED
    BY <1>1, <2>1, SmallestSubset
<1>3. \A V \in SUBSET S : IsFiniteSet(V) /\ Counts(f, V) /\ SumOver(f, V) \in Nat
  BY FS_Subset, SumType DEF Counts
<1>4. PICK x \in T : x \notin U
  <2>1. ~(T \subseteq U)
    <3> SUFFICES ASSUME T \subseteq U PROVE FALSE
      OBVIOUS
    <3>1. U \cup T = U /\ T \ U = {}
      OBVIOUS
    <3>2. SumOver(f, U) \in Nat
      BY <1>3
    <3>3. SumOver(f, {}) = 0
      BY SumEmpty
    <3>4. SumOver(f, U) = SumOver(f, U) + 0
      BY <3>2
    <3>5. SumOver(f, U \cup T) = SumOver(f, U) + SumOver(f, T \ U)
      BY <3>1, <3>3, <3>4
    <3> QED
      BY <1>2, <3>5
  <2> QED
    BY <2>1
<1> DEFINE W == T \ {x}
<1>5. /\ x \in U \cup T /\ (U \cup T) \ {x} = U \cup W
      /\ x \in T \ U /\ (T \ U) \ {x} = W \ U
      /\ W \in SUBSET S /\ W \subseteq T /\ W # T
  BY <1>2, <1>4
<1>6. SumOver(f, U \cup W) = SumOver(f, U) + SumOver(f, W \ U)
  <2> HIDE DEF W
  <2> QED
    BY <1>2, <1>5
<1>7. SumOver(f, U \cup T) = f[x] + SumOver(f, U \cup W)
  BY <1>2, <1>3, <1>5, SumRemove
<1>8. SumOver(f, T \ U) = f[x] + SumOver(f, W \ U)
  BY <1>2, <1>3, <1>5, SumRemove
<1>9. f[x] \in Nat /\ SumOver(f, U) \in Nat /\ SumOver(f, W \ U) \in Nat
  BY <1>2, <1>3, <1>5 DEF Counts
<1> QED
  BY <1>2, <1>6, <1>7, <1>8, <1>9

\* Terms that are given other names, one to one.
LEMMA SumRenamed ==
    ASSUME NEW f, NEW g, NEW S, IsFiniteSet(S), Counts(f, S), NEW h,
           \A x \in S : g[h[x]] = f[x],
           \A x, y \in S : h[x] = h[y] => x = y
    PROVE  SumOver(g, {h[x] : x \in S}) = SumOver(f, S)
<1> DEFINE Names(T) == {h[x] : x \in T}
           Bad == {T \in SUBSET S : SumOver(g, Names(T)) # SumOver(f, T)}
<1>1. SUFFICES ASSUME Bad # {} PROVE FALSE
  OBVIOUS
<1>2. PICK T \in Bad : \A U \in Bad : U \subseteq T => U = T
  <2>1. Bad \subseteq SUBSET S
    OBVIOUS
  <2> HIDE DEF Bad
  <2> QED
    BY <1>1, <2>1, SmallestSubset
<1>3. PICK x : x \in T
  <2>1. Names({}) = {}
    OBVIOUS
  <2>2. T # {}
    BY <1>2, <2>1, SumEmpty
  <2> QED
    BY <2>2
<1>4. IsFiniteSet(T) /\ Counts(f, T) /\ T \subseteq S
  BY <1>2, FS_Subset DEF Counts
<1>5. IsFiniteSet(Names(T)) /\ Counts(g, Names(T))
  <2>1. IsFiniteSet(Names(T))
    <3> DEFINE rename == [y \in T |-> h[y]]
    <3>1. rename \in Surjection(T, Names(T))
      <4>1. rename \in [T -> Names(T)]
        OBVIOUS
      <4>2. \A v \in Names(T) : \E y \in T : rename[y] = v
        OBVIOUS
      <4> QED
        BY <4>1, <4>2 DEF Surjection
    <3> QED
      BY <1>4, <3>1, FS_Surjection
  <2> QED
    BY <1>4, <2>1 DEF Counts
<1>6. h[x] \in Names(T) /\ Names(T) \ {h[x]} = Names(T \ {x})
  BY <1>3, <1>4
<1>7. SumOver(g, Names(T \ {x})) = SumOver(f, T \ {x})
  BY <1>2, <1>3
<1>8. SumOver(g, Names(T)) = g[h[x]] + SumOver(g, Names(T) \ {h[x]})
  <2> HIDE DEF Names
  <2> QED
    BY <1>5, <1>6, SumRemove
<1>9. SumOver(f, T) = f[x] + SumOver(f, T \ {x})
  BY <1>3, <1>4, SumRemove
<1> QED
  BY <1>2, <1>3, <1>4, <1>6, <1>7, <1>8, <1>9

=============================================================================
