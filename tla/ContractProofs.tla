--------------------------- MODULE ContractProofs ---------------------------
(***************************************************************************)
(* What the contract owes, for any set of providers, any capacity and any  *)
(* number of ticks: no call and no END_TICK loses or invents money, the    *)
(* walk visits every place once, and the flags that entropy is sold on say *)
(* what happened in the last tick.                                         *)
(*                                                                         *)
(* Sums are folds over functions: the first part is their algebra.  The    *)
(* walk is a recursive function whose steps are followed backwards.        *)
(***************************************************************************)
EXTENDS RandomContract, SequenceTheorems, FiniteSetTheorems, WellFoundedInduction, TLAPS

(* A set of numbers that is not empty has a least one.                     *)
LEMMA LeastNumber ==
    ASSUME NEW T \in SUBSET Nat, T # {}
    PROVE  \E x \in T : \A y \in T : x <= y
<1>. DEFINE R == OpToRel(<, Nat)
<1>1. \A x, y \in Nat : y < x => <<y, x>> \in R  BY DEF OpToRel
<1>2. IsWellFoundedOn(R, Nat)  BY NatLessThanWellFounded
<1>. HIDE DEF R
<1>3. PICK x \in T : \A y \in T : ~ (<<y, x>> \in R)  BY <1>2, WFMin
<1>4. \A y \in T : ~(y < x)  BY <1>1, <1>3
<1>5. \A y \in T : x <= y  BY <1>4
<1>. QED  BY <1>5

(* Induction, for a set of numbers instead of a predicate.                 *)
LEMMA AllNumbers ==
    ASSUME NEW T \in SUBSET Nat, 0 \in T, \A k \in T : k + 1 \in T
    PROVE  T = Nat
<1>. DEFINE missed == Nat \ T
<1>. SUFFICES ASSUME missed # {} PROVE FALSE  OBVIOUS
<1>1. PICK x \in missed : \A y \in missed : x <= y
    <2>1. missed \in SUBSET Nat  OBVIOUS
    <2>. HIDE DEF missed
    <2>. QED  BY <2>1, LeastNumber
<1>2. x \in Nat /\ x # 0 /\ x \notin T /\ x - 1 \in Nat /\ ~(x <= x - 1)  OBVIOUS
<1>3. x - 1 \notin missed  BY <1>1, <1>2
<1>4. (x - 1) + 1 \in T  BY <1>2, <1>3
<1>. QED  BY <1>2, <1>4

-----------------------------------------------------------------------------
(* Sums *)

Sum(f, S) == SumFunctionOnSet(f, S)

Chosen(T) == CHOOSE x \in T : TRUE

(* g is a table of the sums of f over the subsets of S, as the fold makes it. *)
Sums(g, f, S) ==
    g = [T \in SUBSET S |-> IF T = {} THEN 0 ELSE f[Chosen(T)] + g[T \ {Chosen(T)}]]

(* The chosen element belongs to its set, and leaves a smaller set.        *)
LEMMA ChosenOne ==
    ASSUME NEW T, T # {}
    PROVE  /\ Chosen(T) \in T
           /\ IsFiniteSet(T) => /\ IsFiniteSet(T \ {Chosen(T)})
                                /\ Cardinality(T) \in Nat
                                /\ Cardinality(T) # 0
                                /\ Cardinality(T \ {Chosen(T)}) = Cardinality(T) - 1
<1>1. Chosen(T) \in T  BY DEF Chosen
<1>2. IsFiniteSet(T) => /\ IsFiniteSet(T \ {Chosen(T)})
                        /\ Cardinality(T) \in Nat
                        /\ Cardinality(T) # 0
                        /\ Cardinality(T \ {Chosen(T)}) = Cardinality(T) - 1
    BY <1>1, FS_RemoveElement, FS_CardinalityType, FS_EmptySet
<1>. QED  BY <1>1, <1>2

(* The table exists for the subsets of a finite set: by their size.        *)
LEMMA SumsExist ==
    ASSUME NEW S, IsFiniteSet(S), NEW f
    PROVE  \E g : Sums(g, f, S)
<1>. DEFINE small(k) == {T \in SUBSET S : Cardinality(T) <= k}
            entry(g, T) == IF T = {} THEN 0 ELSE f[Chosen(T)] + g[T \ {Chosen(T)}]
            done == {k \in Nat : \E g : \A T \in small(k) : g[T] = entry(g, T)}
<1>1. \A T \in SUBSET S : IsFiniteSet(T) /\ Cardinality(T) \in Nat /\ Cardinality(T) <= Cardinality(S)
    BY FS_Subset, FS_CardinalityType
<1>2. 0 \in done
    <2>1. \A T \in small(0) : T = {}  BY <1>1, FS_EmptySet
    <2>. DEFINE g == [T \in SUBSET S |-> 0]
    <2>2. \A T \in small(0) : g[T] = entry(g, T)  BY <2>1
    <2>. HIDE DEF g
    <2>3. \E h : \A T \in small(0) : h[T] = entry(h, T)  BY <2>2
    <2>. QED  BY <2>3
<1>3. ASSUME NEW k \in done PROVE k + 1 \in done
    <2>1. PICK g : \A T \in small(k) : g[T] = entry(g, T)  OBVIOUS
    <2>. DEFINE h == [T \in SUBSET S |-> entry(g, T)]
    <2>2. ASSUME NEW T \in small(k + 1) PROVE h[T] = entry(h, T)
        <3>1. h[T] = entry(g, T)  OBVIOUS
        <3>2. CASE T = {}  BY <3>1, <3>2
        <3>3. CASE T # {}
            <4>. DEFINE U == T \ {Chosen(T)}
            <4>1. U \in small(k)  BY <1>1, <3>3, ChosenOne
            <4>2. g[U] = h[U]  BY <2>1, <4>1
            <4>. QED  BY <3>1, <3>3, <4>2
        <3>. QED  BY <3>2, <3>3
    <2>. HIDE DEF h
    <2>3. \E g2 : \A T \in small(k + 1) : g2[T] = entry(g2, T)  BY <2>2
    <2>4. k + 1 \in Nat  OBVIOUS
    <2>. HIDE DEF small, entry
    <2>. QED  BY <2>3, <2>4
<1>4. done = Nat
    <2>. HIDE DEF done
    <2>1. done \in SUBSET Nat  BY DEF done
    <2>. QED  BY <1>2, <1>3, <2>1, AllNumbers
<1>5. Cardinality(S) \in done  BY <1>1, <1>4
<1>6. PICK g : \A T \in small(Cardinality(S)) : g[T] = entry(g, T)  BY <1>5
<1>7. \A T \in SUBSET S : g[T] = entry(g, T)  BY <1>1, <1>6
<1>. DEFINE h == [T \in SUBSET S |-> entry(g, T)]
<1>8. \A T \in SUBSET S : h[T] = entry(h, T)
    <2>. SUFFICES ASSUME NEW T \in SUBSET S PROVE h[T] = entry(h, T)  OBVIOUS
    <2>1. CASE T = {}  BY <2>1
    <2>2. CASE T # {}
        <3>1. T \ {Chosen(T)} \in SUBSET S  OBVIOUS
        <3>. QED  BY <1>7, <2>2, <3>1
    <2>. QED  BY <2>1, <2>2
<1>9. h = [T \in SUBSET S |-> entry(h, T)]
    <2>1. h = [T \in SUBSET S |-> h[T]]  OBVIOUS
    <2>. HIDE DEF h
    <2>. QED  BY <1>8, <2>1
<1>. HIDE DEF h
<1>. QED  BY <1>9 DEF Sums

(* The fold computes the entry of its set in any such table.               *)
LEMMA SumIsTableEntry ==
    ASSUME NEW S, IsFiniteSet(S), NEW f
    PROVE  \E g : Sums(g, f, S) /\ Sum(f, S) = g[S]
<1>. DEFINE table == CHOOSE g : Sums(g, f, S)
<1>1. Sums(table, f, S)  BY SumsExist
<1>2. Sum(f, S) = table[S]
    BY DEF Sum, SumFunctionOnSet, FoldFunctionOnSet, MapThenFoldSet, Sums, Chosen
<1>. HIDE DEF table
<1>. QED  BY <1>1, <1>2

(* The tables of a set and of a subset agree.                              *)
LEMMA SumsAgree ==
    ASSUME NEW S, NEW T, NEW f, T \subseteq S, IsFiniteSet(T),
           NEW a, NEW b, Sums(a, f, S), Sums(b, f, T)
    PROVE  a[T] = b[T]
<1>. DEFINE good == {k \in Nat : \A V \in SUBSET T : Cardinality(V) = k => a[V] = b[V]}
<1>1. \A V \in SUBSET T : IsFiniteSet(V) /\ Cardinality(V) \in Nat
    BY FS_Subset, FS_CardinalityType
<1>2. /\ \A V \in SUBSET S : a[V] = IF V = {} THEN 0 ELSE f[Chosen(V)] + a[V \ {Chosen(V)}]
      /\ \A V \in SUBSET T : b[V] = IF V = {} THEN 0 ELSE f[Chosen(V)] + b[V \ {Chosen(V)}]
    BY DEF Sums
<1>3. 0 \in good  BY <1>1, <1>2, FS_EmptySet
<1>4. ASSUME NEW k \in good PROVE k + 1 \in good
    <2>1. k + 1 \in Nat /\ k + 1 # 0  OBVIOUS
    <2>2. ASSUME NEW V \in SUBSET T, Cardinality(V) = k + 1 PROVE a[V] = b[V]
        <3>1. V # {}  BY <2>1, <2>2, FS_EmptySet
        <3>2. /\ Chosen(V) \in V
              /\ Cardinality(V \ {Chosen(V)}) = (k + 1) - 1  BY <1>1, <2>2, <3>1, ChosenOne
        <3>3. V \ {Chosen(V)} \in SUBSET T  OBVIOUS
        <3>4. a[V \ {Chosen(V)}] = b[V \ {Chosen(V)}]  BY <3>2, <3>3
        <3>. QED  BY <1>2, <3>1, <3>4
    <2>. QED  BY <2>1, <2>2
<1>5. good = Nat
    <2>. HIDE DEF good
    <2>1. good \in SUBSET Nat  BY DEF good
    <2>. QED  BY <1>3, <1>4, <2>1, AllNumbers
<1>6. Cardinality(T) \in good  BY <1>1, <1>5
<1>. QED  BY <1>6

(* The sum over no indices, and how the fold takes an index out.           *)
LEMMA SumUnfolds ==
    ASSUME NEW S, IsFiniteSet(S), NEW f
    PROVE  /\ Sum(f, {}) = 0
           /\ S # {} => Sum(f, S) = f[Chosen(S)] + Sum(f, S \ {Chosen(S)})
<1>1. IsFiniteSet({})  BY FS_EmptySet
<1>2. Sum(f, {}) = 0
    <2>1. PICK g : Sums(g, f, {}) /\ Sum(f, {}) = g[{}]  BY <1>1, SumIsTableEntry
    <2>. QED  BY <2>1 DEF Sums
<1>3. ASSUME S # {} PROVE Sum(f, S) = f[Chosen(S)] + Sum(f, S \ {Chosen(S)})
    <2>. DEFINE U == S \ {Chosen(S)}
    <2>1. IsFiniteSet(U)  BY <1>3, ChosenOne
    <2>2. PICK g : Sums(g, f, S) /\ Sum(f, S) = g[S]  BY SumIsTableEntry
    <2>. HIDE DEF U
    <2>3. PICK h : Sums(h, f, U) /\ Sum(f, U) = h[U]  BY <2>1, SumIsTableEntry
    <2>4. U \subseteq S  BY DEF U
    <2>5. g[U] = h[U]  BY <2>1, <2>2, <2>3, <2>4, SumsAgree
    <2>6. g[S] = f[Chosen(S)] + g[U]  BY <1>3, <2>2 DEF Sums, U
    <2>. QED  BY <2>2, <2>3, <2>5, <2>6 DEF U
<1>. QED  BY <1>2, <1>3

(* Functions that agree on the indices have the same sum.                  *)
LEMMA SumSame ==
    ASSUME NEW S, IsFiniteSet(S), NEW f, NEW h, \A x \in S : f[x] = h[x]
    PROVE  Sum(f, S) = Sum(h, S)
<1>. DEFINE good == {k \in Nat : \A V \in SUBSET S : Cardinality(V) = k => Sum(f, V) = Sum(h, V)}
<1>1. \A V \in SUBSET S : IsFiniteSet(V) /\ Cardinality(V) \in Nat
    BY FS_Subset, FS_CardinalityType
<1>2. 0 \in good
    <2>1. Sum(f, {}) = 0 /\ Sum(h, {}) = 0  BY SumUnfolds, FS_EmptySet
    <2>2. \A V \in SUBSET S : Cardinality(V) = 0 => V = {}  BY <1>1, FS_EmptySet
    <2>. QED  BY <2>1, <2>2
<1>3. ASSUME NEW k \in good PROVE k + 1 \in good
    <2>1. k + 1 \in Nat /\ k + 1 # 0 /\ (k + 1) - 1 = k  OBVIOUS
    <2>2. ASSUME NEW V \in SUBSET S, Cardinality(V) = k + 1 PROVE Sum(f, V) = Sum(h, V)
        <3>. DEFINE c == Chosen(V)
                    U == V \ {c}
        <3>1. V # {} /\ IsFiniteSet(V)  BY <1>1, <2>1, <2>2, FS_EmptySet
        <3>2. c \in V /\ Cardinality(U) = k  BY <2>1, <2>2, <3>1, ChosenOne
        <3>3. U \in SUBSET S  OBVIOUS
        <3>4. Sum(f, U) = Sum(h, U)  BY <3>2, <3>3
        <3>5. Sum(f, V) = f[c] + Sum(f, U) /\ Sum(h, V) = h[c] + Sum(h, U)
            BY <3>1, SumUnfolds
        <3>6. f[c] = h[c]  BY <3>2
        <3>. HIDE DEF c, U
        <3>. QED  BY <3>4, <3>5, <3>6
    <2>. QED  BY <2>1, <2>2
<1>4. good = Nat
    <2>. HIDE DEF good
    <2>1. good \in SUBSET Nat  BY DEF good
    <2>. QED  BY <1>2, <1>3, <2>1, AllNumbers
<1>5. Cardinality(S) \in good  BY <1>1, <1>4
<1>. QED  BY <1>5

(* A sum of integers is an integer, and a sum of zeros is zero.            *)
LEMMA SumType ==
    ASSUME NEW S, IsFiniteSet(S), NEW f, \A x \in S : f[x] \in Int
    PROVE  Sum(f, S) \in Int /\ ((\A x \in S : f[x] = 0) => Sum(f, S) = 0)
<1>. DEFINE fine(V) == Sum(f, V) \in Int /\ ((\A x \in V : f[x] = 0) => Sum(f, V) = 0)
            good == {k \in Nat : \A V \in SUBSET S : Cardinality(V) = k => fine(V)}
<1>1. \A V \in SUBSET S : IsFiniteSet(V) /\ Cardinality(V) \in Nat
    BY FS_Subset, FS_CardinalityType
<1>2. 0 \in good
    <2>1. fine({})
        <3>1. Sum(f, {}) = 0  BY SumUnfolds, FS_EmptySet
        <3>. QED  BY <3>1
    <2>2. \A V \in SUBSET S : Cardinality(V) = 0 => V = {}  BY <1>1, FS_EmptySet
    <2>. HIDE DEF fine
    <2>. QED  BY <2>1, <2>2
<1>3. ASSUME NEW k \in good PROVE k + 1 \in good
    <2>1. k + 1 \in Nat /\ k + 1 # 0 /\ (k + 1) - 1 = k  OBVIOUS
    <2>2. ASSUME NEW V \in SUBSET S, Cardinality(V) = k + 1 PROVE fine(V)
        <3>. DEFINE c == Chosen(V)
                    U == V \ {c}
        <3>1. V # {} /\ IsFiniteSet(V)  BY <1>1, <2>1, <2>2, FS_EmptySet
        <3>2. c \in V /\ Cardinality(U) = k  BY <2>1, <2>2, <3>1, ChosenOne
        <3>3. U \in SUBSET S  OBVIOUS
        <3>4. fine(U)  BY <3>2, <3>3
        <3>5. Sum(f, V) = f[c] + Sum(f, U)  BY <3>1, SumUnfolds
        <3>6. f[c] \in Int /\ U \subseteq V  BY <3>2
        <3>. HIDE DEF c, U
        <3>. QED  BY <3>2, <3>4, <3>5, <3>6
    <2>. HIDE DEF fine
    <2>. QED  BY <2>1, <2>2
<1>. HIDE DEF fine
<1>4. good = Nat
    <2>. HIDE DEF good
    <2>1. good \in SUBSET Nat  BY DEF good
    <2>. QED  BY <1>2, <1>3, <2>1, AllNumbers
<1>5. fine(S)  BY <1>1, <1>4
<1>. QED  BY <1>5 DEF fine

(* Any index can be taken out of a sum.                                    *)
LEMMA SumTakeOut ==
    ASSUME NEW S, IsFiniteSet(S), NEW f, \A x \in S : f[x] \in Int, NEW x \in S
    PROVE  Sum(f, S) = f[x] + Sum(f, S \ {x})
<1>. DEFINE fine(V) == \A y \in V : Sum(f, V) = f[y] + Sum(f, V \ {y})
            good == {k \in Nat : \A V \in SUBSET S : Cardinality(V) = k => fine(V)}
<1>1. \A V \in SUBSET S : IsFiniteSet(V) /\ Cardinality(V) \in Nat
    BY FS_Subset, FS_CardinalityType
<1>2. \A V \in SUBSET S : Sum(f, V) \in Int
    <2>. SUFFICES ASSUME NEW V \in SUBSET S PROVE Sum(f, V) \in Int  OBVIOUS
    <2>1. \A y \in V : f[y] \in Int  OBVIOUS
    <2>. QED  BY <1>1, <2>1, SumType
<1>3. 0 \in good
    <2>1. \A V \in SUBSET S : Cardinality(V) = 0 => V = {}  BY <1>1, FS_EmptySet
    <2>. QED  BY <2>1
<1>4. ASSUME NEW k \in good PROVE k + 1 \in good
    <2>1. k + 1 \in Nat /\ k + 1 # 0 /\ (k + 1) - 1 = k  OBVIOUS
    <2>2. ASSUME NEW V \in SUBSET S, Cardinality(V) = k + 1 PROVE fine(V)
        <3>. DEFINE c == Chosen(V)
        <3>1. V # {} /\ IsFiniteSet(V)  BY <1>1, <2>1, <2>2, FS_EmptySet
        <3>2. c \in V  BY <3>1, ChosenOne
        <3>3. Sum(f, V) = f[c] + Sum(f, V \ {c})  BY <3>1, SumUnfolds
        <3>4. ASSUME NEW y \in V, y # c PROVE Sum(f, V) = f[y] + Sum(f, V \ {y})
            <4>1. V \ {c} \in SUBSET S /\ V \ {y} \in SUBSET S /\ (V \ {y}) \ {c} \in SUBSET S
                OBVIOUS
            <4>2. Cardinality(V \ {c}) = k /\ Cardinality(V \ {y}) = k
                <5>1. /\ Cardinality(V \ {c}) = Cardinality(V) - 1
                      /\ Cardinality(V \ {y}) = Cardinality(V) - 1
                    BY <3>1, <3>2, <3>4, FS_RemoveElement
                <5>. QED  BY <2>1, <2>2, <5>1
            <4>3. y \in V \ {c} /\ c \in V \ {y}  BY <3>2, <3>4
            <4>. HIDE DEF c
            <4>4. Sum(f, V \ {c}) = f[y] + Sum(f, (V \ {c}) \ {y})  BY <4>1, <4>2, <4>3
            <4>5. Sum(f, V \ {y}) = f[c] + Sum(f, (V \ {y}) \ {c})  BY <4>1, <4>2, <4>3
            <4>6. (V \ {c}) \ {y} = (V \ {y}) \ {c}  OBVIOUS
            <4>7. f[c] \in Int /\ f[y] \in Int /\ Sum(f, (V \ {y}) \ {c}) \in Int
                BY <1>2, <3>2, <4>1
            <4>. DEFINE rest == Sum(f, (V \ {y}) \ {c})
                        less == Sum(f, V \ {y})
                        more == Sum(f, V \ {c})
            <4>8. more = f[y] + rest /\ less = f[c] + rest /\ Sum(f, V) = f[c] + more
                BY <3>3, <4>4, <4>5, <4>6
            <4>9. f[c] \in Int /\ f[y] \in Int /\ rest \in Int  BY <4>7
            <4>. HIDE DEF rest, less, more
            <4>10. Sum(f, V) = f[y] + less  BY <4>8, <4>9
            <4>. QED  BY <4>10 DEF less
        <3>. HIDE DEF c
        <3>. QED  BY <3>3, <3>4
    <2>. HIDE DEF fine
    <2>. QED  BY <2>1, <2>2
<1>5. good = Nat
    <2>. HIDE DEF good
    <2>1. good \in SUBSET Nat  BY DEF good
    <2>. QED  BY <1>3, <1>4, <2>1, AllNumbers
<1>6. fine(S)
    <2>. HIDE DEF fine
    <2>. QED  BY <1>1, <1>5
<1>. QED  BY <1>6

(* Changing one summand changes the sum by as much.                        *)
LEMMA SumChanged ==
    ASSUME NEW S, IsFiniteSet(S), NEW f, NEW h, NEW x \in S,
           \A y \in S : f[y] \in Int, \A y \in S : h[y] \in Int,
           \A y \in S \ {x} : f[y] = h[y]
    PROVE  Sum(h, S) = Sum(f, S) + (h[x] - f[x])
<1>1. Sum(f, S) = f[x] + Sum(f, S \ {x})  BY SumTakeOut
<1>2. Sum(h, S) = h[x] + Sum(h, S \ {x})  BY SumTakeOut
<1>3. IsFiniteSet(S \ {x})  BY FS_RemoveElement
<1>4. Sum(f, S \ {x}) = Sum(h, S \ {x})
    <2>1. \A y \in S \ {x} : f[y] = h[y]  OBVIOUS
    <2>. QED  BY <1>3, <2>1, SumSame
<1>5. Sum(f, S \ {x}) \in Int
    <2>1. \A y \in S \ {x} : f[y] \in Int  OBVIOUS
    <2>. QED  BY <1>3, <2>1, SumType
<1>. QED  BY <1>1, <1>2, <1>4, <1>5

-----------------------------------------------------------------------------
(* The population *)

Entry == [provider : Providers, tier : Tiers, commit : Values \cup {None},
          reveal : Values \cup {None}, locked : Nat, acted : BOOLEAN,
          revealed : BOOLEAN, contributed : BOOLEAN, updated : Nat]

(* Only a provider that revealed has no commit, and it has got its lock back. *)
SoundEntry == {e \in Entry : e.commit = None => e.revealed /\ e.locked = 0}

Amount(e, p) == IF e.provider = p THEN e.locked ELSE 0

Share(q, p) == [i \in DOMAIN q |-> Amount(q[i], p)]

Locked(q, p) == Sum(Share(q, p), DOMAIN q)

(* A swap-deletion moves the last entry into the hole.                     *)
LEMMA SwapDeleteEntries ==
    ASSUME NEW S, NEW q \in Seq(S), NEW i \in 1 .. Len(q)
    PROVE  /\ SwapDelete(q, i) \in Seq(S)
           /\ Len(SwapDelete(q, i)) = Len(q) - 1
           /\ DOMAIN SwapDelete(q, i) = 1 .. Len(q) - 1
           /\ \A j \in 1 .. Len(q) - 1 :
                 SwapDelete(q, i)[j] = IF j = i THEN q[Len(q)] ELSE q[j]
<1>. DEFINE n == Len(q)
            moved == [q EXCEPT ![i] = q[n]]
<1>1. n \in Nat /\ n >= 1  BY LenProperties
<1>2. q[n] \in S  BY <1>1, ElementOfSeq
<1>3. /\ moved \in Seq(S) /\ Len(moved) = n
      /\ \A j \in 1 .. n : moved[j] = IF j = i THEN q[n] ELSE q[j]
    BY <1>2, ExceptSeq
<1>. HIDE DEF moved
<1>4. \A j \in 1 .. n - 1 : moved[j] \in S  BY <1>1, <1>3, ElementOfSeq
<1>5. /\ SubSeq(moved, 1, n - 1) \in Seq(S)
      /\ Len(SubSeq(moved, 1, n - 1)) = n - 1
      /\ \A j \in 1 .. n - 1 : SubSeq(moved, 1, n - 1)[j] = moved[j]
    <2>. DEFINE m == n - 1
    <2>1. m \in Int /\ 1 \in Int /\ m >= 0 /\ m - 1 + 1 = m  BY <1>1
    <2>2. \A j \in 1 .. m : 1 + j - 1 = j  OBVIOUS
    <2>3. \A j \in 1 .. m : moved[j] \in S  BY <1>4
    <2>. HIDE DEF m
    <2>4. /\ SubSeq(moved, 1, m) \in Seq(S)
          /\ Len(SubSeq(moved, 1, m)) = IF 1 <= m THEN m - 1 + 1 ELSE 0
          /\ \A j \in 1 .. m - 1 + 1 : SubSeq(moved, 1, m)[j] = moved[1 + j - 1]
        BY <2>1, <2>3, SubSeqProperties
    <2>5. Len(SubSeq(moved, 1, m)) = m  BY <2>1, <2>4
    <2>6. \A j \in 1 .. m : SubSeq(moved, 1, m)[j] = moved[j]  BY <2>1, <2>2, <2>4
    <2>. QED  BY <2>4, <2>5, <2>6 DEF m
<1>6. SwapDelete(q, i) = SubSeq(moved, 1, n - 1)  BY DEF SwapDelete, moved
<1>7. DOMAIN SwapDelete(q, i) = 1 .. n - 1  BY <1>5, <1>6, LenProperties
<1>. QED  BY <1>1, <1>3, <1>5, <1>6, <1>7

(* What is locked for a provider is a sum of natural numbers.              *)
LEMMA LockedType ==
    ASSUME NEW q \in Seq(SoundEntry), NEW p
    PROVE  /\ Len(q) \in Nat /\ DOMAIN q = 1 .. Len(q) /\ IsFiniteSet(DOMAIN q)
           /\ \A i \in DOMAIN q : /\ q[i] \in SoundEntry /\ Amount(q[i], p) \in Nat
                                  /\ Share(q, p)[i] = Amount(q[i], p)
           /\ Locked(q, p) \in Int
<1>1. Len(q) \in Nat /\ DOMAIN q = 1 .. Len(q)  BY LenProperties
<1>2. IsFiniteSet(DOMAIN q)  BY <1>1, FS_Interval
<1>3. ASSUME NEW i \in DOMAIN q PROVE q[i] \in SoundEntry /\ Amount(q[i], p) \in Nat
    <2>1. q[i] \in SoundEntry  BY <1>1, ElementOfSeq
    <2>. QED  BY <2>1 DEF SoundEntry, Entry, Amount
<1>4. \A i \in DOMAIN q : Share(q, p)[i] = Amount(q[i], p)  BY DEF Share
<1>5. Locked(q, p) \in Int
    <2>1. \A i \in DOMAIN q : Share(q, p)[i] \in Int  BY <1>3, <1>4
    <2>. QED  BY <1>2, <2>1, SumType DEF Locked
<1>. QED  BY <1>1, <1>2, <1>3, <1>4, <1>5

(* A new entry adds its lock.                                              *)
LEMMA LockedAppend ==
    ASSUME NEW q \in Seq(SoundEntry), NEW e \in SoundEntry, NEW p
    PROVE  /\ Append(q, e) \in Seq(SoundEntry)
           /\ Locked(Append(q, e), p) = Locked(q, p) + Amount(e, p)
<1>. DEFINE r == Append(q, e)
            n == Len(q)
<1>1. /\ r \in Seq(SoundEntry) /\ Len(r) = n + 1 /\ r[n + 1] = e
      /\ \A i \in 1 .. n : r[i] = q[i]  BY AppendProperties
<1>. HIDE DEF r
<1>2. n \in Nat /\ DOMAIN q = 1 .. n /\ IsFiniteSet(DOMAIN q)
      /\ \A i \in DOMAIN q : Share(q, p)[i] = Amount(q[i], p)  BY LockedType
<1>3. DOMAIN r = 1 .. n + 1 /\ IsFiniteSet(DOMAIN r)
      /\ \A i \in DOMAIN r : Amount(r[i], p) \in Nat /\ Share(r, p)[i] = Amount(r[i], p)
    BY <1>1, LockedType
<1>4. n + 1 \in DOMAIN r /\ (DOMAIN r) \ {n + 1} = DOMAIN q  BY <1>2, <1>3
<1>5. Sum(Share(r, p), DOMAIN r) = Share(r, p)[n + 1] + Sum(Share(r, p), DOMAIN q)
    <2>1. \A i \in DOMAIN r : Share(r, p)[i] \in Int  BY <1>3
    <2>2. Sum(Share(r, p), DOMAIN r)
              = Share(r, p)[n + 1] + Sum(Share(r, p), (DOMAIN r) \ {n + 1})
        BY <1>3, <1>4, <2>1, SumTakeOut
    <2>. QED  BY <1>4, <2>2
<1>6. Sum(Share(r, p), DOMAIN q) = Sum(Share(q, p), DOMAIN q)
    <2>1. \A i \in DOMAIN q : Share(r, p)[i] = Share(q, p)[i]  BY <1>1, <1>2, <1>3
    <2>. QED  BY <1>2, <2>1, SumSame
<1>7. Share(r, p)[n + 1] = Amount(e, p)  BY <1>1, <1>3, <1>4
<1>8. Locked(q, p) \in Int /\ Amount(e, p) \in Nat
    BY LockedType DEF SoundEntry, Entry, Amount
<1>9. Locked(r, p) = Amount(e, p) + Locked(q, p)  BY <1>5, <1>6, <1>7 DEF Locked
<1>. QED  BY <1>1, <1>8, <1>9 DEF r

(* Replacing an entry replaces its lock.                                   *)
LEMMA LockedExcept ==
    ASSUME NEW q \in Seq(SoundEntry), NEW i, i \in DOMAIN q, NEW e \in SoundEntry, NEW p
    PROVE  /\ [q EXCEPT ![i] = e] \in Seq(SoundEntry)
           /\ Locked([q EXCEPT ![i] = e], p) = Locked(q, p) + (Amount(e, p) - Amount(q[i], p))
<1>. DEFINE r == [q EXCEPT ![i] = e]
<1>1. DOMAIN q = 1 .. Len(q)  BY LenProperties
<1>2. /\ r \in Seq(SoundEntry) /\ Len(r) = Len(q)
      /\ \A j \in DOMAIN q : r[j] = IF j = i THEN e ELSE q[j]
    BY <1>1, ExceptSeq
<1>. HIDE DEF r
<1>3. DOMAIN r = DOMAIN q  BY <1>1, <1>2, LenProperties
<1>4. \A j \in DOMAIN q : Amount(r[j], p) \in Nat /\ Share(r, p)[j] = Amount(r[j], p)
    BY <1>2, <1>3, LockedType
<1>5. \A j \in DOMAIN q : Amount(q[j], p) \in Nat /\ Share(q, p)[j] = Amount(q[j], p)
    BY LockedType
<1>6. IsFiniteSet(DOMAIN q)  BY LockedType
<1>7. (\A j \in DOMAIN q : Share(q, p)[j] \in Int) /\ \A j \in DOMAIN q : Share(r, p)[j] \in Int
    BY <1>4, <1>5
<1>8. \A j \in (DOMAIN q) \ {i} : Share(q, p)[j] = Share(r, p)[j]  BY <1>2, <1>4, <1>5
<1>9. Sum(Share(r, p), DOMAIN q)
          = Sum(Share(q, p), DOMAIN q) + (Share(r, p)[i] - Share(q, p)[i])
    <2>. DEFINE F == Share(q, p)
                H == Share(r, p)
                D == DOMAIN q
    <2>1. i \in D  OBVIOUS
    <2>2. IsFiniteSet(D)  BY <1>6
    <2>3. \A j \in D : F[j] \in Int  BY <1>7
    <2>4. \A j \in D : H[j] \in Int  BY <1>7
    <2>5. \A j \in D \ {i} : F[j] = H[j]  BY <1>8
    <2>. HIDE DEF F, H, D
    <2>6. Sum(H, D) = Sum(F, D) + (H[i] - F[i])
        BY ONLY <2>1, <2>2, <2>3, <2>4, <2>5, SumChanged
    <2>. QED  BY <2>6 DEF F, H, D
<1>10. Share(r, p)[i] = Amount(e, p) /\ Share(q, p)[i] = Amount(q[i], p)  BY <1>2, <1>4, <1>5
<1>11. Locked(r, p) = Locked(q, p) + (Amount(e, p) - Amount(q[i], p))
    BY <1>3, <1>9, <1>10 DEF Locked
<1>. QED  BY <1>2, <1>11 DEF r

(* A swap-deletion takes the lock of the deleted entry out, and no other.  *)
LEMMA LockedSwapDelete ==
    ASSUME NEW q \in Seq(SoundEntry), NEW i, i \in DOMAIN q, NEW p
    PROVE  Locked(SwapDelete(q, i), p) = Locked(q, p) - Amount(q[i], p)
<1>. DEFINE n == Len(q)
            moved == [q EXCEPT ![i] = q[n]]
            r == SwapDelete(q, i)
<1>1. n \in Nat /\ DOMAIN q = 1 .. n /\ n >= 1  BY LenProperties
<1>2. q[n] \in SoundEntry /\ q[i] \in SoundEntry  BY <1>1, ElementOfSeq
<1>3. /\ moved \in Seq(SoundEntry)
      /\ Locked(moved, p) = Locked(q, p) + (Amount(q[n], p) - Amount(q[i], p))
    BY <1>2, LockedExcept
<1>4. Len(moved) = n /\ \A j \in 1 .. n : moved[j] = IF j = i THEN q[n] ELSE q[j]
    BY <1>1, <1>2, ExceptSeq
<1>5. /\ r \in Seq(SoundEntry) /\ Len(r) = n - 1
      /\ \A j \in 1 .. n - 1 : r[j] = IF j = i THEN q[n] ELSE q[j]
    <2>1. i \in 1 .. Len(q)  BY <1>1
    <2>. QED  BY <2>1, SwapDeleteEntries
<1>. HIDE DEF moved, r, n
<1>6. Append(r, q[n]) = moved
    <2>1. /\ Append(r, q[n]) \in Seq(SoundEntry) /\ Len(Append(r, q[n])) = n
          /\ \A j \in 1 .. n - 1 : Append(r, q[n])[j] = r[j]
          /\ Append(r, q[n])[n] = q[n]
        <3>1. (n - 1) + 1 = n  BY <1>1
        <3>. QED  BY <1>2, <1>5, <3>1, AppendProperties
    <2>2. ASSUME NEW j \in 1 .. n PROVE Append(r, q[n])[j] = moved[j]
        <3>1. CASE j = n  BY <1>4, <2>1, <3>1
        <3>2. CASE j # n
            <4>1. j \in 1 .. n - 1  BY <1>1, <3>2
            <4>. QED  BY <1>4, <1>5, <2>1, <4>1
        <3>. QED  BY <3>1, <3>2
    <2>. QED  BY <1>3, <1>4, <2>1, <2>2, SeqEqual
<1>7. Locked(moved, p) = Locked(r, p) + Amount(q[n], p)  BY <1>2, <1>5, <1>6, LockedAppend
<1>8. Locked(r, p) \in Int /\ Locked(q, p) \in Int  BY <1>5, LockedType
<1>9. Amount(q[n], p) \in Nat /\ Amount(q[i], p) \in Nat  BY <1>2 DEF SoundEntry, Entry, Amount
<1>10. Locked(r, p) = Locked(q, p) - Amount(q[i], p)  BY <1>3, <1>7, <1>8, <1>9
<1>. QED  BY <1>10 DEF r

-----------------------------------------------------------------------------
(* The walk of END_TICK *)

WalkState == [pool : Seq(SoundEntry), entropy : [Tiers -> SUBSET (Values \cup {None})],
              poisoned : SUBSET Tiers, burned : Int, paid : [Providers -> Int]]

Unwalked(q) == [pool |-> q, entropy |-> [t \in Tiers |-> {}], poisoned |-> {},
                burned |-> 0, paid |-> NoPayments]

NextVisit(w, i, silent) == IF silent THEN VisitSilent(w, i) ELSE Visit(w, i)

(* The recursive definition of the walk defines it: by its length.         *)
LEMMA WalkUnfolds ==
    ASSUME NEW S, NEW q \in Seq(S), NEW silent
    PROVE  /\ Walk(q, silent)[Len(q) + 1] = Unwalked(q)
           /\ \A i \in 1 .. Len(q) :
                 Walk(q, silent)[i] = NextVisit(Walk(q, silent)[i + 1], i, silent)
<1>. DEFINE n == Len(q)
            body(g, i) == IF i = n + 1 THEN Unwalked(q) ELSE NextVisit(g[i + 1], i, silent)
            near(k) == {i \in 1 .. n + 1 : n + 1 - i <= k}
            done == {k \in Nat : \E g : \A i \in near(k) : g[i] = body(g, i)}
            table(g) == g = [i \in 1 .. n + 1 |-> body(g, i)]
<1>1. n \in Nat  BY LenProperties
<1>. HIDE DEF n
<1>2. 0 \in done
    <2>. DEFINE g == [i \in 1 .. n + 1 |-> Unwalked(q)]
    <2>1. \A i \in near(0) : i = n + 1  BY <1>1
    <2>2. \A i \in near(0) : g[i] = body(g, i)  BY <2>1
    <2>. HIDE DEF g
    <2>3. \E h : \A i \in near(0) : h[i] = body(h, i)  BY <2>2
    <2>. HIDE DEF near, body
    <2>. QED  BY <2>3
<1>3. ASSUME NEW k \in done PROVE k + 1 \in done
    <2>1. PICK g : \A i \in near(k) : g[i] = body(g, i)  OBVIOUS
    <2>. DEFINE h == [i \in 1 .. n + 1 |-> body(g, i)]
    <2>2. ASSUME NEW i \in near(k + 1) PROVE h[i] = body(h, i)
        <3>1. h[i] = body(g, i)  OBVIOUS
        <3>2. CASE i = n + 1  BY <3>1, <3>2
        <3>3. CASE i # n + 1
            <4>1. i + 1 \in near(k)  BY <1>1, <3>3
            <4>2. g[i + 1] = h[i + 1]  BY <2>1, <4>1
            <4>. QED  BY <3>1, <3>3, <4>2
        <3>. QED  BY <3>2, <3>3
    <2>. HIDE DEF h
    <2>3. \E g2 : \A i \in near(k + 1) : g2[i] = body(g2, i)  BY <2>2
    <2>4. k + 1 \in Nat  OBVIOUS
    <2>. HIDE DEF near, body
    <2>. QED  BY <2>3, <2>4
<1>4. done = Nat
    <2>. HIDE DEF done
    <2>1. done \in SUBSET Nat  BY DEF done
    <2>. QED  BY <1>2, <1>3, <2>1, AllNumbers
<1>5. \E g : table(g)
    <2>1. n + 1 \in done
        <3>. HIDE DEF done
        <3>. QED  BY <1>1, <1>4
    <2>2. PICK g : \A i \in near(n + 1) : g[i] = body(g, i)  BY <2>1
    <2>3. near(n + 1) = 1 .. n + 1  BY <1>1
    <2>. DEFINE h == [i \in 1 .. n + 1 |-> body(g, i)]
    <2>4. \A i \in 1 .. n + 1 : h[i] = body(h, i)
        <3>. SUFFICES ASSUME NEW i \in 1 .. n + 1 PROVE h[i] = body(h, i)  OBVIOUS
        <3>1. CASE i = n + 1  BY <3>1
        <3>2. CASE i # n + 1
            <4>1. i + 1 \in 1 .. n + 1  BY <1>1, <3>2
            <4>2. g[i + 1] = h[i + 1]  BY <2>2, <2>3, <4>1
            <4>. QED  BY <3>2, <4>2
        <3>. QED  BY <3>1, <3>2
    <2>5. h = [i \in 1 .. n + 1 |-> h[i]]  OBVIOUS
    <2>. HIDE DEF h
    <2>6. h = [i \in 1 .. n + 1 |-> body(h, i)]  BY <2>4, <2>5
    <2>. QED  BY <2>6
<1>6. Walk(q, silent) = CHOOSE g : table(g)
    BY DEF Walk, Unwalked, NextVisit, n
<1>7. table(Walk(q, silent))
    <2>. HIDE DEF table
    <2>. QED  BY <1>5, <1>6
<1>. DEFINE after == Walk(q, silent)
<1>. HIDE DEF after
<1>8. \A i \in 1 .. n + 1 : after[i] = body(after, i)
    <2>1. after = [i \in 1 .. n + 1 |-> body(after, i)]  BY <1>7 DEF after
    <2>. HIDE DEF body
    <2>. QED  BY <2>1
<1>9. n + 1 \in 1 .. n + 1 /\ \A i \in 1 .. n : i \in 1 .. n + 1 /\ i # n + 1  BY <1>1
<1>. QED  BY <1>8, <1>9 DEF after, n

(* A visit keeps its entry, or takes it out by a swap-deletion; nothing    *)
(* else of the population changes.                                         *)
Stays(e, silent) == e.acted /\ (silent \/ e.commit # None)

Kept(e, r, silent) ==
    /\ r.provider = e.provider /\ r.tier = e.tier /\ r.commit = e.commit /\ r.locked = e.locked
    /\ r.contributed => ~silent /\ e.revealed

Visited(w, v, i, silent) ==
    LET e == w.pool[i]
    IN  /\ v \in WalkState
        /\ Stays(e, silent) =>
              \E r \in SoundEntry : Kept(e, r, silent) /\ v.pool = [w.pool EXCEPT ![i] = r]
        /\ ~Stays(e, silent) => v.pool = SwapDelete(w.pool, i)
        /\ \A p \in Providers :
              v.paid[p] = w.paid[p] + (IF silent /\ ~e.acted THEN Amount(e, p) ELSE 0)
        /\ v.burned = w.burned + (IF ~silent /\ ~e.acted THEN e.locked ELSE 0)
        /\ v.poisoned = w.poisoned \cup (IF ~silent /\ ~e.acted THEN {e.tier} ELSE {})
        /\ silent => v.entropy = w.entropy

(* What one visit of the walk does.                                        *)
LEMMA VisitOutcome ==
    ASSUME NEW w \in WalkState, NEW i, i \in DOMAIN w.pool, NEW silent \in BOOLEAN
    PROVE  Visited(w, NextVisit(w, i, silent), i, silent)
<1>. DEFINE e == w.pool[i]
            v == NextVisit(w, i, silent)
            cut == SwapDelete(w.pool, i)
<1>1. /\ w.pool \in Seq(SoundEntry) /\ w.entropy \in [Tiers -> SUBSET (Values \cup {None})]
      /\ w.poisoned \in SUBSET Tiers /\ w.burned \in Int /\ w.paid \in [Providers -> Int]
    BY DEF WalkState
<1>2. DOMAIN w.pool = 1 .. Len(w.pool) /\ i \in 1 .. Len(w.pool)  BY <1>1, LenProperties
<1>3. e \in SoundEntry  BY <1>1, <1>2, ElementOfSeq
<1>4. /\ e.provider \in Providers /\ e.tier \in Tiers /\ e.commit \in Values \cup {None}
      /\ e.reveal \in Values \cup {None} /\ e.locked \in Nat
      /\ e.acted \in BOOLEAN /\ e.revealed \in BOOLEAN
      /\ e.commit = None => e.revealed /\ e.locked = 0
    BY <1>3 DEF SoundEntry, Entry
<1>5. cut \in Seq(SoundEntry)  BY <1>1, <1>2, SwapDeleteEntries
<1>6. \A r \in SoundEntry : [w.pool EXCEPT ![i] = r] \in Seq(SoundEntry)
    BY <1>1, <1>2, ExceptSeq
<1>. HIDE DEF cut
<1>7. CASE silent /\ e.acted
    <2>. DEFINE r == Fresh(e)
    <2>1. r \in SoundEntry /\ Kept(e, r, silent)
        BY <1>3, <1>4, <1>7 DEF Fresh, SoundEntry, Entry, Kept
    <2>2. v = [w EXCEPT !.pool = [w.pool EXCEPT ![i] = r]]
        BY <1>7 DEF NextVisit, VisitSilent
    <2>. HIDE DEF r, e, v
    <2>3. /\ v \in WalkState /\ v.pool = [w.pool EXCEPT ![i] = r] /\ v.paid = w.paid
          /\ v.burned = w.burned /\ v.poisoned = w.poisoned /\ v.entropy = w.entropy
        BY <1>1, <1>6, <2>1, <2>2 DEF WalkState
    <2>4. Stays(e, silent)  BY <1>7 DEF Stays
    <2>5. \A p \in Providers : v.paid[p] = w.paid[p] + 0  BY <1>1, <2>3
    <2>6. v.burned = w.burned + 0 /\ v.poisoned = w.poisoned \cup {}  BY <1>1, <2>3
    <2>7. \E s \in SoundEntry : Kept(e, s, silent) /\ v.pool = [w.pool EXCEPT ![i] = s]
        BY <2>1, <2>3
    <2>. QED  BY <1>7, <2>3, <2>4, <2>5, <2>6, <2>7 DEF Visited, e, v
<1>8. CASE silent /\ ~e.acted
    <2>. DEFINE paid == [w.paid EXCEPT ![e.provider] = @ + e.locked]
    <2>1. /\ paid \in [Providers -> Int]
          /\ \A p \in Providers : paid[p] = w.paid[p] + Amount(e, p)
        BY <1>1, <1>4 DEF Amount
    <2>2. v = [w EXCEPT !.pool = cut, !.paid = paid]
        BY <1>1, <1>8 DEF NextVisit, VisitSilent, cut, WalkState
    <2>. HIDE DEF paid, e, v
    <2>3. /\ v \in WalkState /\ v.pool = cut /\ v.paid = paid
          /\ v.burned = w.burned /\ v.poisoned = w.poisoned /\ v.entropy = w.entropy
        BY <1>1, <1>5, <2>1, <2>2 DEF WalkState
    <2>4. ~Stays(e, silent)  BY <1>8 DEF Stays
    <2>5. v.burned = w.burned + 0 /\ v.poisoned = w.poisoned \cup {}  BY <1>1, <2>3
    <2>6. \A p \in Providers : v.paid[p] = w.paid[p] + Amount(e, p)  BY <2>1, <2>3
    <2>. QED  BY <1>8, <2>3, <2>4, <2>5, <2>6 DEF Visited, e, v, cut
<1>9. CASE ~silent /\ e.acted
    <2>. DEFINE mixes == e.revealed /\ e.tier \notin w.poisoned
                r == [e EXCEPT !.acted = FALSE, !.revealed = FALSE, !.reveal = None,
                               !.contributed = mixes]
                pool2 == IF e.commit = None THEN cut ELSE [w.pool EXCEPT ![i] = r]
                entropy2 == [w.entropy EXCEPT
                                 ![e.tier] = IF mixes THEN Xor(@, {e.reveal}) ELSE @]
    <2>1. e.commit # None => r \in SoundEntry /\ Kept(e, r, silent)
        BY <1>3, <1>4, <1>9 DEF SoundEntry, Entry, Kept
    <2>2. entropy2 \in [Tiers -> SUBSET (Values \cup {None})]  BY <1>1, <1>4 DEF Xor
    <2>3. v = [w EXCEPT !.pool = pool2, !.entropy = entropy2]
        BY <1>1, <1>9 DEF NextVisit, Visit, cut, WalkState
    <2>. HIDE DEF r, e, v, mixes, entropy2
    <2>4. pool2 \in Seq(SoundEntry)  BY <1>5, <1>6, <2>1
    <2>5. /\ v \in WalkState /\ v.pool = pool2 /\ v.paid = w.paid
          /\ v.burned = w.burned /\ v.poisoned = w.poisoned
        <3>. HIDE DEF pool2
        <3>. QED  BY <1>1, <2>2, <2>3, <2>4 DEF WalkState
    <2>6. Stays(e, silent) <=> e.commit # None  BY <1>9 DEF Stays
    <2>. QED  BY <1>1, <1>9, <2>1, <2>5, <2>6 DEF Visited, e, v, cut
<1>10. CASE ~silent /\ ~e.acted
    <2>1. v = [w EXCEPT !.pool = cut, !.burned = w.burned + e.locked,
                        !.poisoned = w.poisoned \cup {e.tier}]
        BY <1>10 DEF NextVisit, Visit, cut
    <2>. HIDE DEF e, v
    <2>2. /\ v \in WalkState /\ v.pool = cut /\ v.paid = w.paid
          /\ v.burned = w.burned + e.locked /\ v.poisoned = w.poisoned \cup {e.tier}
        <3>1. w.burned + e.locked \in Int /\ w.poisoned \cup {e.tier} \in SUBSET Tiers
            BY <1>1, <1>4
        <3>. QED  BY <1>1, <1>5, <2>1, <3>1 DEF WalkState
    <2>3. ~Stays(e, silent)  BY <1>10 DEF Stays
    <2>. QED  BY <1>1, <1>10, <2>2, <2>3 DEF Visited, e, v, cut
<1>11. e.acted \in BOOLEAN  BY <1>4
<1>. HIDE DEF e, v
<1>. QED  BY <1>7, <1>8, <1>9, <1>10, <1>11 DEF v

(* Induction from the end of the walk to its first entry.                  *)
LEMMA Backwards ==
    ASSUME NEW n \in Nat, NEW T, n + 1 \in T, \A i \in 1 .. n : i + 1 \in T => i \in T
    PROVE  \A i \in 1 .. n + 1 : i \in T
<1>. DEFINE good == {k \in Nat : k <= n => n + 1 - k \in T}
<1>1. 0 \in good  OBVIOUS
<1>2. ASSUME NEW k \in good PROVE k + 1 \in good
    <2>1. k \in Nat /\ k + 1 \in Nat  OBVIOUS
    <2>2. ASSUME k + 1 <= n PROVE n + 1 - (k + 1) \in T
        <3>. DEFINE i == n - k
        <3>1. i \in 1 .. n /\ i + 1 = n + 1 - k /\ i = n + 1 - (k + 1) /\ k <= n  BY <2>1, <2>2
        <3>2. n + 1 - k \in T  BY <3>1
        <3>. HIDE DEF i
        <3>3. i \in T  BY <3>1, <3>2
        <3>. QED  BY <3>1, <3>3
    <2>. QED  BY <2>1, <2>2
<1>3. good = Nat
    <2>. HIDE DEF good
    <2>1. good \in SUBSET Nat  BY DEF good
    <2>. QED  BY <1>1, <1>2, <2>1, AllNumbers
<1>. SUFFICES ASSUME NEW i \in 1 .. n + 1 PROVE i \in T  OBVIOUS
<1>4. n + 1 - i \in Nat /\ n + 1 - i <= n /\ n + 1 - (n + 1 - i) = i  OBVIOUS
<1>5. n + 1 - i \in good
    <2>. HIDE DEF good
    <2>. QED  BY <1>3, <1>4
<1>. QED  BY <1>4, <1>5

(* The walk visits every entry of the population as END_TICK found it.     *)
LEMMA WalkVisits ==
    ASSUME NEW q \in Seq(SoundEntry), NEW silent \in BOOLEAN
    PROVE  /\ \A i \in 1 .. Len(q) + 1 : Walk(q, silent)[i] \in WalkState
           /\ Walk(q, silent)[Len(q) + 1] = Unwalked(q)
           /\ \A i \in 1 .. Len(q) :
                 LET w == Walk(q, silent)[i + 1]
                 IN  /\ i \in DOMAIN w.pool /\ w.pool[i] = q[i]
                     /\ Visited(w, Walk(q, silent)[i], i, silent)
<1>. DEFINE n == Len(q)
            walk == Walk(q, silent)
            ahead(i) == /\ walk[i] \in WalkState /\ Len(walk[i].pool) >= i - 1
                        /\ \A j \in 1 .. i - 1 : walk[i].pool[j] = q[j]
            T == {i \in 1 .. n + 1 : ahead(i)}
<1>1. n \in Nat  BY LenProperties
<1>2. /\ walk[n + 1] = Unwalked(q)
      /\ \A i \in 1 .. n : walk[i] = NextVisit(walk[i + 1], i, silent)
    BY WalkUnfolds
<1>. HIDE DEF walk
<1>3. ahead(n + 1)
    <2>1. walk[n + 1].pool = q  BY <1>2 DEF Unwalked
    <2>2. walk[n + 1] \in WalkState  BY <1>2 DEF Unwalked, WalkState, NoPayments
    <2>. QED  BY <1>1, <2>1, <2>2
<1>4. ASSUME NEW i \in 1 .. n, ahead(i + 1)
      PROVE  /\ i \in DOMAIN walk[i + 1].pool /\ walk[i + 1].pool[i] = q[i]
             /\ Visited(walk[i + 1], walk[i], i, silent)
             /\ ahead(i)
    <2>. DEFINE w == walk[i + 1]
                v == walk[i]
    <2>. HIDE DEF n
    <2>1. /\ w \in WalkState /\ Len(w.pool) >= i
          /\ \A j \in 1 .. i : w.pool[j] = q[j]  BY <1>1, <1>4
    <2>2. w.pool \in Seq(SoundEntry)  BY <2>1 DEF WalkState
    <2>3. DOMAIN w.pool = 1 .. Len(w.pool) /\ Len(w.pool) \in Nat  BY <2>2, LenProperties
    <2>4. i \in DOMAIN w.pool /\ i \in 1 .. Len(w.pool) /\ w.pool[i] = q[i]  BY <2>1, <2>3
    <2>5. v = NextVisit(w, i, silent)  BY <1>2
    <2>. HIDE DEF w, v
    <2>6. Visited(w, v, i, silent)  BY <2>1, <2>4, <2>5, VisitOutcome
    <2>7. v \in WalkState  BY <2>6 DEF Visited
    <2>8. Len(v.pool) >= i - 1 /\ \A j \in 1 .. i - 1 : v.pool[j] = q[j]
        <3>1. CASE Stays(w.pool[i], silent)
            <4>1. PICK r \in SoundEntry : v.pool = [w.pool EXCEPT ![i] = r]
                BY <2>6, <3>1 DEF Visited
            <4>2. /\ Len(v.pool) = Len(w.pool)
                  /\ \A j \in 1 .. Len(w.pool) : v.pool[j] = IF j = i THEN r ELSE w.pool[j]
                BY <2>2, <2>4, <4>1, ExceptSeq
            <4>. QED  BY <1>1, <2>1, <2>3, <4>2
        <3>2. CASE ~Stays(w.pool[i], silent)
            <4>1. v.pool = SwapDelete(w.pool, i)  BY <2>6, <3>2 DEF Visited
            <4>2. /\ Len(v.pool) = Len(w.pool) - 1
                  /\ \A j \in 1 .. Len(w.pool) - 1 :
                        v.pool[j] = IF j = i THEN w.pool[Len(w.pool)] ELSE w.pool[j]
                <5>. DEFINE pool1 == w.pool
                <5>1. pool1 \in Seq(SoundEntry)  BY <2>2
                <5>2. i \in 1 .. Len(pool1)  BY <2>4
                <5>. HIDE DEF pool1
                <5>3. /\ Len(SwapDelete(pool1, i)) = Len(pool1) - 1
                      /\ \A j \in 1 .. Len(pool1) - 1 :
                            SwapDelete(pool1, i)[j] = IF j = i THEN pool1[Len(pool1)] ELSE pool1[j]
                    BY <5>1, <5>2, SwapDeleteEntries
                <5>. QED  BY <4>1, <5>3 DEF pool1
            <4>3. \A j \in 1 .. i - 1 : j \in 1 .. Len(w.pool) - 1 /\ j # i /\ j \in 1 .. i
                BY <2>1, <2>3
            <4>4. Len(v.pool) >= i - 1  BY <2>1, <2>3, <4>2
            <4>. QED  BY <2>1, <4>2, <4>3, <4>4
        <3>. QED  BY <3>1, <3>2
    <2>. QED  BY <2>4, <2>6, <2>7, <2>8 DEF w, v
<1>5. \A i \in 1 .. n + 1 : i \in T
    <2>1. n + 1 \in T  BY <1>1, <1>3
    <2>2. ASSUME NEW i \in 1 .. n, i + 1 \in T PROVE i \in T
        <3>1. ahead(i + 1)  BY <2>2
        <3>2. ahead(i)  BY <1>4, <3>1
        <3>3. i \in 1 .. n + 1  BY <1>1
        <3>. QED  BY <3>2, <3>3
    <2>. HIDE DEF T
    <2>. QED  BY <1>1, <2>1, <2>2, Backwards
<1>6. \A i \in 1 .. n + 1 : ahead(i)  BY <1>5
<1>7. \A i \in 1 .. n : i + 1 \in 1 .. n + 1  BY <1>1
<1>. QED  BY <1>2, <1>4, <1>6, <1>7 DEF walk

-----------------------------------------------------------------------------
(* The money in a walk: c is what each provider had got back before.       *)

Owed(c, w) == [p \in Providers |-> c[p] + w.paid[p] + Locked(w.pool, p)]

(* A visit moves money within its provider's account, or burns it.         *)
LEMMA VisitMoney ==
    ASSUME NEW w \in WalkState, NEW i, i \in DOMAIN w.pool, NEW silent \in BOOLEAN,
           NEW v, Visited(w, v, i, silent), NEW c \in [Providers -> Int]
    PROVE  /\ \A p \in Providers : Owed(c, v)[p] \in Int /\ Owed(c, v)[p] <= Owed(c, w)[p]
           /\ Sum(Owed(c, v), Providers) + v.burned = Sum(Owed(c, w), Providers) + w.burned
<1>. DEFINE e == w.pool[i]
            F == Owed(c, w)
            G == Owed(c, v)
            cost(p) == IF ~silent /\ ~e.acted THEN Amount(e, p) ELSE 0
<1>1. /\ w.pool \in Seq(SoundEntry) /\ w.paid \in [Providers -> Int] /\ w.burned \in Int
      /\ v.pool \in Seq(SoundEntry) /\ v.paid \in [Providers -> Int] /\ v.burned \in Int
    BY DEF WalkState, Visited
<1>2. e \in SoundEntry  BY <1>1, LockedType
<1>3. /\ e.provider \in Providers /\ e.locked \in Nat /\ e.acted \in BOOLEAN
      /\ e.commit = None => e.locked = 0
    BY <1>2 DEF SoundEntry, Entry
<1>4. ASSUME NEW p \in Providers
      PROVE  Locked(v.pool, p) = Locked(w.pool, p) - (IF ~e.acted THEN Amount(e, p) ELSE 0)
    <2>1. Locked(w.pool, p) \in Int /\ Amount(e, p) \in Nat
        BY <1>1, <1>3, LockedType DEF Amount
    <2>2. CASE Stays(e, silent)
        <3>1. PICK r \in SoundEntry : Kept(e, r, silent) /\ v.pool = [w.pool EXCEPT ![i] = r]
            BY <2>2 DEF Visited
        <3>2. Amount(r, p) = Amount(e, p)  BY <3>1 DEF Kept, Amount
        <3>3. Locked(v.pool, p) = Locked(w.pool, p) + (Amount(r, p) - Amount(e, p))
            <4>. DEFINE pool1 == w.pool
            <4>1. pool1 \in Seq(SoundEntry) /\ i \in DOMAIN pool1  BY <1>1
            <4>. HIDE DEF pool1
            <4>2. Locked([pool1 EXCEPT ![i] = r], p)
                      = Locked(pool1, p) + (Amount(r, p) - Amount(pool1[i], p))
                BY <4>1, LockedExcept
            <4>. QED  BY <3>1, <4>2 DEF pool1
        <3>4. e.acted  BY <2>2 DEF Stays
        <3>. HIDE DEF e
        <3>. QED  BY <2>1, <3>2, <3>3, <3>4
    <2>3. CASE ~Stays(e, silent)
        <3>1. v.pool = SwapDelete(w.pool, i)  BY <2>3 DEF Visited
        <3>2. Locked(v.pool, p) = Locked(w.pool, p) - Amount(e, p)
            BY <1>1, <3>1, LockedSwapDelete
        <3>3. e.acted => Amount(e, p) = 0  BY <1>3, <2>3 DEF Stays, Amount
        <3>. HIDE DEF e
        <3>. QED  BY <2>1, <3>2, <3>3
    <2>. QED  BY <2>2, <2>3
<1>5. \A p \in Providers : v.paid[p] = w.paid[p] + (IF silent /\ ~e.acted THEN Amount(e, p) ELSE 0)
    BY DEF Visited
<1>6. v.burned = w.burned + (IF ~silent /\ ~e.acted THEN e.locked ELSE 0)  BY DEF Visited
<1>7. \A p \in Providers : /\ Locked(w.pool, p) \in Int /\ Locked(v.pool, p) \in Int
                           /\ Amount(e, p) \in Nat
    BY <1>1, <1>3, LockedType DEF Amount
<1>. HIDE DEF e
<1>8. \A p \in Providers : F[p] = c[p] + w.paid[p] + Locked(w.pool, p)  BY DEF Owed
<1>9. \A p \in Providers : G[p] = c[p] + v.paid[p] + Locked(v.pool, p)  BY DEF Owed
<1>. HIDE DEF F, G
<1>10. ASSUME NEW p \in Providers
       PROVE  F[p] \in Int /\ G[p] \in Int /\ cost(p) \in Nat /\ G[p] = F[p] - cost(p)
    <2>1. c[p] \in Int /\ w.paid[p] \in Int /\ v.paid[p] \in Int  BY <1>1
    <2>. QED  BY <1>3, <1>4, <1>5, <1>7, <1>8, <1>9, <2>1
<1>11. IsFiniteSet(Providers)  BY ContractAssumption
<1>12. Sum(F, Providers) \in Int /\ Sum(G, Providers) \in Int
    <2>1. \A p \in Providers : F[p] \in Int  BY <1>10
    <2>2. \A p \in Providers : G[p] \in Int  BY <1>10
    <2>. QED  BY <1>11, <2>1, <2>2, SumType
<1>13. Sum(G, Providers) + v.burned = Sum(F, Providers) + w.burned
    <2>1. CASE ~silent /\ ~e.acted
        <3>. DEFINE x == e.provider
        <3>1. \A p \in Providers : F[p] \in Int  BY <1>10
        <3>2. \A p \in Providers : G[p] \in Int  BY <1>10
        <3>3. x \in Providers  BY <1>3
        <3>4. \A p \in Providers \ {x} : F[p] = G[p]
            <4>1. \A p \in Providers \ {x} : cost(p) = 0  BY DEF Amount
            <4>. HIDE DEF cost
            <4>. QED  BY <1>10, <4>1
        <3>5. cost(x) = e.locked  BY <2>1 DEF Amount
        <3>6. G[x] = F[x] - e.locked  BY <1>10, <3>3, <3>5
        <3>. HIDE DEF x, cost
        <3>7. Sum(G, Providers) = Sum(F, Providers) + (G[x] - F[x])
            BY <1>11, <3>1, <3>2, <3>3, <3>4, SumChanged
        <3>8. v.burned = w.burned + e.locked  BY <1>6, <2>1
        <3>. QED  BY <1>1, <1>3, <1>12, <3>1, <3>3, <3>6, <3>7, <3>8
    <2>2. CASE ~(~silent /\ ~e.acted)
        <3>1. \A p \in Providers : F[p] = G[p]  BY <1>10, <2>2
        <3>2. Sum(F, Providers) = Sum(G, Providers)  BY <1>11, <3>1, SumSame
        <3>3. v.burned = w.burned  BY <1>1, <1>6, <2>2
        <3>. QED  BY <3>2, <3>3
    <2>. QED  BY <2>1, <2>2
<1>14. \A p \in Providers : G[p] \in Int /\ G[p] <= F[p]
    <2>. HIDE DEF cost
    <2>. QED  BY <1>10
<1>. QED  BY <1>13, <1>14 DEF F, G

(* END_TICK owes nobody more than before, and burns what it owes less.     *)
LEMMA EndTickMoney ==
    ASSUME NEW q \in Seq(SoundEntry), NEW c \in [Providers -> Int], NEW elsewhere \in BOOLEAN
    PROVE  LET closed == EndTick(q, elsewhere)
           IN  /\ closed \in WalkState
               /\ \A p \in Providers : Owed(c, closed)[p] <= c[p] + Locked(q, p)
               /\ Sum(Owed(c, closed), Providers) + closed.burned
                      = Sum([p \in Providers |-> c[p] + Locked(q, p)], Providers)
<1>. DEFINE silent == ~elsewhere /\ \A i \in DOMAIN q : ~q[i].revealed
            walk == Walk(q, silent)
            n == Len(q)
            before == [p \in Providers |-> c[p] + Locked(q, p)]
            fair(i) == /\ \A p \in Providers : /\ Owed(c, walk[i])[p] \in Int
                                               /\ Owed(c, walk[i])[p] <= before[p]
                       /\ Sum(Owed(c, walk[i]), Providers) + walk[i].burned = Sum(before, Providers)
            T == {i \in 1 .. n + 1 : fair(i)}
<1>1. n \in Nat /\ silent \in BOOLEAN  BY LenProperties
<1>2. \A p \in Providers : Locked(q, p) \in Int  BY LockedType
<1>. HIDE DEF silent, n
<1>3. /\ \A i \in 1 .. n + 1 : walk[i] \in WalkState
      /\ walk[n + 1] = Unwalked(q)
      /\ \A i \in 1 .. n : /\ i \in DOMAIN walk[i + 1].pool
                           /\ Visited(walk[i + 1], walk[i], i, silent)
    BY <1>1, WalkVisits DEF n
<1>. HIDE DEF walk
<1>4. fair(n + 1)
    <2>1. walk[n + 1].pool = q /\ walk[n + 1].burned = 0
          /\ \A p \in Providers : walk[n + 1].paid[p] = 0
        BY <1>3 DEF Unwalked, NoPayments
    <2>2. \A p \in Providers : Owed(c, walk[n + 1])[p] = before[p] /\ before[p] \in Int
        BY <1>2, <2>1 DEF Owed
    <2>. HIDE DEF before
    <2>3. Sum(Owed(c, walk[n + 1]), Providers) = Sum(before, Providers)
        <3>1. \A p \in Providers : Owed(c, walk[n + 1])[p] = before[p]  BY <2>2
        <3>. QED  BY <3>1, SumSame, ContractAssumption
    <2>4. Sum(before, Providers) \in Int
        <3>1. \A p \in Providers : before[p] \in Int  BY <2>2
        <3>. QED  BY <3>1, SumType, ContractAssumption
    <2>. QED  BY <2>1, <2>2, <2>3, <2>4
<1>. HIDE DEF before
<1>5. ASSUME NEW i \in 1 .. n, fair(i + 1) PROVE fair(i)
    <2>1. i + 1 \in 1 .. n + 1  BY <1>1
    <2>2. /\ \A p \in Providers : /\ Owed(c, walk[i])[p] \in Int
                                  /\ Owed(c, walk[i])[p] <= Owed(c, walk[i + 1])[p]
          /\ Sum(Owed(c, walk[i]), Providers) + walk[i].burned
                 = Sum(Owed(c, walk[i + 1]), Providers) + walk[i + 1].burned
        <3>. DEFINE w == walk[i + 1]
                    v == walk[i]
        <3>1. w \in WalkState /\ i \in DOMAIN w.pool /\ Visited(w, v, i, silent)  BY <1>3, <2>1
        <3>. HIDE DEF w, v
        <3>2. /\ \A p \in Providers : Owed(c, v)[p] \in Int /\ Owed(c, v)[p] <= Owed(c, w)[p]
              /\ Sum(Owed(c, v), Providers) + v.burned = Sum(Owed(c, w), Providers) + w.burned
            BY <1>1, <3>1, VisitMoney
        <3>. QED  BY <3>2 DEF w, v
    <2>3. \A p \in Providers : before[p] \in Int  BY <1>2 DEF before
    <2>. QED  BY <1>5, <2>2, <2>3
<1>6. 1 \in T
    <2>1. n + 1 \in T  BY <1>1, <1>4
    <2>2. ASSUME NEW i \in 1 .. n, i + 1 \in T PROVE i \in T
        <3>1. fair(i + 1)  BY <2>2
        <3>2. fair(i)  BY <1>5, <3>1
        <3>3. i \in 1 .. n + 1  BY <1>1
        <3>. HIDE DEF fair
        <3>. QED  BY <3>2, <3>3
    <2>3. 1 \in 1 .. n + 1  BY <1>1
    <2>. HIDE DEF T
    <2>. QED  BY <1>1, <2>1, <2>2, <2>3, Backwards
<1>7. fair(1)  BY <1>6
<1>. DEFINE closed == EndTick(q, elsewhere)
            entropy1 == [t \in Tiers |-> IF t \in walk[1].poisoned THEN {} ELSE walk[1].entropy[t]]
<1>8. walk[1] \in WalkState
    <2>1. 1 \in 1 .. n + 1  BY <1>1
    <2>. QED  BY <1>3, <2>1
<1>9. closed = [walk[1] EXCEPT !.entropy = entropy1]  BY DEF EndTick, walk, silent
<1>10. entropy1 \in [Tiers -> SUBSET (Values \cup {None})]  BY <1>8 DEF WalkState
<1>. HIDE DEF closed, entropy1
<1>11. /\ closed \in WalkState /\ closed.pool = walk[1].pool /\ closed.burned = walk[1].burned
       /\ closed.paid = walk[1].paid
    BY <1>8, <1>9, <1>10 DEF WalkState
<1>12. Owed(c, closed) = Owed(c, walk[1])  BY <1>11 DEF Owed
<1>13. \A p \in Providers : before[p] = c[p] + Locked(q, p)  BY DEF before
<1>. QED  BY <1>7, <1>11, <1>12, <1>13 DEF before, closed

-----------------------------------------------------------------------------
(* Who is left after a walk *)

Survives(e) == e.acted /\ e.commit # None

(* The entries from i on are those of q from i on that survive.            *)
Traced(q, w, i, silent) ==
    /\ \A j \in i .. Len(w.pool) : \E k \in i .. Len(q) :
          Survives(q[k]) /\ Kept(q[k], w.pool[j], silent)
    /\ \A k \in i .. Len(q) : Survives(q[k]) =>
          \E j \in i .. Len(w.pool) : Kept(q[k], w.pool[j], silent)

(* A visit keeps the entries traced.                                       *)
LEMMA VisitTraced ==
    ASSUME NEW q \in Seq(SoundEntry), NEW silent \in BOOLEAN,
           silent => \A k \in DOMAIN q : ~q[k].revealed,
           NEW i \in 1 .. Len(q), NEW w \in WalkState, NEW v, i \in DOMAIN w.pool,
           w.pool[i] = q[i], Visited(w, v, i, silent), Traced(q, w, i + 1, silent)
    PROVE  Traced(q, v, i, silent)
<1>. DEFINE n == Len(q)
            old == w.pool
            new == v.pool
            L == Len(old)
<1>1. n \in Nat /\ DOMAIN q = 1 .. n /\ i \in 1 .. n  BY LenProperties
<1>2. old \in Seq(SoundEntry)  BY DEF WalkState
<1>3. L \in Nat /\ DOMAIN old = 1 .. L /\ i \in 1 .. L  BY <1>2, LenProperties
<1>4. q[i] \in SoundEntry /\ old[i] = q[i]  BY ElementOfSeq
<1>5. /\ \A j \in i + 1 .. L : \E k \in i + 1 .. n : Survives(q[k]) /\ Kept(q[k], old[j], silent)
      /\ \A k \in i + 1 .. n : Survives(q[k]) =>
            \E j \in i + 1 .. L : Kept(q[k], old[j], silent)
    BY DEF Traced
<1>6. /\ Stays(q[i], silent) =>
            \E r \in SoundEntry : Kept(q[i], r, silent) /\ new = [old EXCEPT ![i] = r]
      /\ ~Stays(q[i], silent) => new = SwapDelete(old, i)
    BY <1>4 DEF Visited
<1>7. Stays(q[i], silent) <=> Survives(q[i])
    BY <1>1, <1>4 DEF Stays, Survives, SoundEntry, Entry
<1>8. SUFFICES /\ \A j \in i .. Len(new) : \E k \in i .. n :
                     Survives(q[k]) /\ Kept(q[k], new[j], silent)
               /\ \A k \in i .. n : Survives(q[k]) =>
                     \E j \in i .. Len(new) : Kept(q[k], new[j], silent)
    BY DEF Traced
<1>. HIDE DEF n, L, old, new
<1>9. CASE Stays(q[i], silent)
    <2>1. PICK r \in SoundEntry : Kept(q[i], r, silent) /\ new = [old EXCEPT ![i] = r]
        BY <1>6, <1>9
    <2>2. Len(new) = L /\ \A j \in 1 .. L : new[j] = IF j = i THEN r ELSE old[j]
        <3>1. i \in 1 .. Len(old)  BY <1>3 DEF L
        <3>. QED  BY <1>2, <2>1, <3>1, ExceptSeq DEF L
    <2>3. ASSUME NEW j \in i .. L PROVE \E k \in i .. n : Survives(q[k]) /\ Kept(q[k], new[j], silent)
        <3>1. CASE j = i  BY <1>1, <1>3, <1>7, <1>9, <2>1, <2>2, <3>1
        <3>2. CASE j # i
            <4>1. j \in i + 1 .. L /\ j \in 1 .. L  BY <1>3, <3>2
            <4>2. PICK k \in i + 1 .. n : Survives(q[k]) /\ Kept(q[k], old[j], silent)
                BY <1>5, <4>1
            <4>3. k \in i .. n  BY <1>1
            <4>. QED  BY <2>2, <3>2, <4>1, <4>2, <4>3
        <3>. QED  BY <3>1, <3>2
    <2>4. ASSUME NEW k \in i .. n, Survives(q[k])
          PROVE  \E j \in i .. L : Kept(q[k], new[j], silent)
        <3>1. CASE k = i
            <4>1. i \in i .. L /\ new[i] = r  BY <1>3, <2>2
            <4>. QED  BY <2>1, <3>1, <4>1
        <3>2. CASE k # i
            <4>1. k \in i + 1 .. n  BY <1>1, <3>2
            <4>2. PICK j \in i + 1 .. L : Kept(q[k], old[j], silent)  BY <1>5, <2>4, <4>1
            <4>3. j \in i .. L /\ j \in 1 .. L /\ j # i  BY <1>3
            <4>. QED  BY <2>2, <4>2, <4>3
        <3>. QED  BY <3>1, <3>2
    <2>. QED  BY <2>2, <2>3, <2>4
<1>10. CASE ~Stays(q[i], silent)
    <2>1. new = SwapDelete(old, i)  BY <1>6, <1>10
    <2>2. Len(new) = L - 1 /\ \A j \in 1 .. L - 1 : new[j] = IF j = i THEN old[L] ELSE old[j]
        <3>1. i \in 1 .. Len(old)  BY <1>3 DEF L
        <3>. QED  BY <1>2, <2>1, <3>1, SwapDeleteEntries DEF L
    <2>3. ASSUME NEW j \in i .. L - 1
          PROVE  \E k \in i .. n : Survives(q[k]) /\ Kept(q[k], new[j], silent)
        <3>. DEFINE s == IF j = i THEN L ELSE j
        <3>1. s \in i + 1 .. L /\ j \in 1 .. L - 1  BY <1>3
        <3>2. new[j] = old[s]  BY <2>2, <3>1
        <3>. HIDE DEF s
        <3>3. PICK k \in i + 1 .. n : Survives(q[k]) /\ Kept(q[k], old[s], silent)
            BY <1>5, <3>1
        <3>4. k \in i .. n  BY <1>1
        <3>. QED  BY <3>2, <3>3, <3>4
    <2>4. ASSUME NEW k \in i .. n, Survives(q[k])
          PROVE  \E j \in i .. L - 1 : Kept(q[k], new[j], silent)
        <3>1. k # i  BY <1>7, <1>10, <2>4
        <3>2. k \in i + 1 .. n  BY <1>1, <3>1
        <3>3. PICK s \in i + 1 .. L : Kept(q[k], old[s], silent)  BY <1>5, <2>4, <3>2
        <3>4. CASE s = L
            <4>1. i \in i .. L - 1 /\ i \in 1 .. L - 1 /\ new[i] = old[s]  BY <1>3, <2>2, <3>4
            <4>. QED  BY <3>3, <4>1
        <3>5. CASE s # L
            <4>1. s \in i .. L - 1 /\ s \in 1 .. L - 1 /\ s # i  BY <1>3, <3>5
            <4>. QED  BY <2>2, <3>3, <4>1
        <3>. QED  BY <3>4, <3>5
    <2>. QED  BY <2>2, <2>3, <2>4
<1>. QED  BY <1>9, <1>10

(* After END_TICK exactly the survivors are enrolled, each with its own    *)
(* entry; a contribution is the word of a provider that revealed, and a    *)
(* tier has entropy only when nobody enrolled at it stayed away.           *)
LEMMA EndTickEntries ==
    ASSUME NEW q \in Seq(SoundEntry), NEW elsewhere \in BOOLEAN
    PROVE  LET closed == EndTick(q, elsewhere)
           IN  /\ \A j \in DOMAIN closed.pool : \E k \in DOMAIN q :
                     /\ Survives(q[k]) /\ Kept(q[k], closed.pool[j], FALSE)
               /\ \A k \in DOMAIN q : Survives(q[k]) =>
                     \E j \in DOMAIN closed.pool : Kept(q[k], closed.pool[j], FALSE)
               /\ \A t \in Tiers : closed.entropy[t] # {} =>
                     \A k \in DOMAIN q : q[k].tier = t => q[k].acted
<1>. DEFINE silent == ~elsewhere /\ \A k \in DOMAIN q : ~q[k].revealed
            walk == Walk(q, silent)
            n == Len(q)
            told(i) == /\ Traced(q, walk[i], i, silent)
                       /\ silent => walk[i].entropy = [t \in Tiers |-> {}]
                       /\ ~silent => \A k \in i .. n : ~q[k].acted => q[k].tier \in walk[i].poisoned
            T == {i \in 1 .. n + 1 : told(i)}
<1>1. n \in Nat /\ silent \in BOOLEAN /\ DOMAIN q = 1 .. n  BY LenProperties
<1>2. silent => \A k \in DOMAIN q : ~q[k].revealed  OBVIOUS
<1>. HIDE DEF silent
<1>3. /\ \A i \in 1 .. n + 1 : walk[i] \in WalkState
      /\ walk[n + 1] = Unwalked(q)
      /\ \A i \in 1 .. n : /\ i \in DOMAIN walk[i + 1].pool /\ walk[i + 1].pool[i] = q[i]
                           /\ Visited(walk[i + 1], walk[i], i, silent)
    BY <1>1, WalkVisits
<1>. HIDE DEF walk
<1>4. told(n + 1)
    <2>1. walk[n + 1].pool = q /\ walk[n + 1].entropy = [t \in Tiers |-> {}]
        BY <1>3 DEF Unwalked
    <2>2. Traced(q, walk[n + 1], n + 1, silent)  BY <1>1, <2>1 DEF Traced
    <2>. QED  BY <1>1, <2>1, <2>2
<1>5. ASSUME NEW i \in 1 .. n, told(i + 1) PROVE told(i)
    <2>. DEFINE w == walk[i + 1]
                v == walk[i]
    <2>1. i + 1 \in 1 .. n + 1  BY <1>1
    <2>2. /\ w \in WalkState /\ i \in DOMAIN w.pool /\ w.pool[i] = q[i]
          /\ Visited(w, v, i, silent)
        BY <1>3, <2>1
    <2>3. /\ Traced(q, w, i + 1, silent)
          /\ silent => w.entropy = [t \in Tiers |-> {}]
          /\ ~silent => \A k \in i + 1 .. n : ~q[k].acted => q[k].tier \in w.poisoned
        BY <1>5
    <2>. HIDE DEF w, v
    <2>4. Traced(q, v, i, silent)  BY <1>1, <1>2, <2>2, <2>3, VisitTraced
    <2>5. /\ silent => v.entropy = w.entropy
          /\ v.poisoned = w.poisoned \cup (IF ~silent /\ ~q[i].acted THEN {q[i].tier} ELSE {})
        BY <2>2 DEF Visited
    <2>6. ~silent => \A k \in i .. n : ~q[k].acted => q[k].tier \in v.poisoned
        <3>. SUFFICES ASSUME ~silent, NEW k \in i .. n, ~q[k].acted
                      PROVE  q[k].tier \in v.poisoned
            OBVIOUS
        <3>1. CASE k = i  BY <2>5, <3>1
        <3>2. CASE k # i
            <4>1. k \in i + 1 .. n  BY <1>1, <3>2
            <4>. QED  BY <2>3, <2>5, <4>1
        <3>. QED  BY <3>1, <3>2
    <2>. QED  BY <2>3, <2>4, <2>5, <2>6 DEF v
<1>6. 1 \in T
    <2>1. n + 1 \in T  BY <1>1, <1>4
    <2>2. ASSUME NEW i \in 1 .. n, i + 1 \in T PROVE i \in T
        <3>1. told(i + 1)  BY <2>2
        <3>2. told(i)  BY <1>5, <3>1
        <3>3. i \in 1 .. n + 1  BY <1>1
        <3>. HIDE DEF told
        <3>. QED  BY <3>2, <3>3
    <2>3. 1 \in 1 .. n + 1  BY <1>1
    <2>. HIDE DEF T
    <2>. QED  BY <1>1, <2>1, <2>2, <2>3, Backwards
<1>7. told(1)  BY <1>6
<1>. DEFINE closed == EndTick(q, elsewhere)
            entropy1 == [t \in Tiers |-> IF t \in walk[1].poisoned THEN {} ELSE walk[1].entropy[t]]
<1>8. walk[1] \in WalkState
    <2>1. 1 \in 1 .. n + 1  BY <1>1
    <2>. QED  BY <1>3, <2>1
<1>9. closed = [walk[1] EXCEPT !.entropy = entropy1]  BY DEF EndTick, walk, silent
<1>. HIDE DEF closed
<1>10. closed.pool = walk[1].pool /\ closed.entropy = entropy1
    <2>. HIDE DEF entropy1
    <2>. QED  BY <1>8, <1>9 DEF WalkState
<1>11. closed.pool \in Seq(SoundEntry)  BY <1>8, <1>10 DEF WalkState
<1>12. DOMAIN closed.pool = 1 .. Len(closed.pool)  BY <1>11, LenProperties
<1>13. \A a, b : Kept(a, b, silent) => Kept(a, b, FALSE)  BY <1>1 DEF Kept
<1>14. Traced(q, closed, 1, silent)  BY <1>7, <1>10 DEF Traced
<1>15. \A j \in DOMAIN closed.pool : \E k \in DOMAIN q :
          Survives(q[k]) /\ Kept(q[k], closed.pool[j], FALSE)
    BY <1>1, <1>12, <1>13, <1>14 DEF Traced
<1>16. \A k \in DOMAIN q : Survives(q[k]) =>
          \E j \in DOMAIN closed.pool : Kept(q[k], closed.pool[j], FALSE)
    BY <1>1, <1>12, <1>13, <1>14 DEF Traced
<1>17. ASSUME NEW t \in Tiers, closed.entropy[t] # {}, NEW k \in DOMAIN q, q[k].tier = t
       PROVE  q[k].acted
    <2>1. t \notin walk[1].poisoned /\ walk[1].entropy[t] # {}  BY <1>10, <1>17
    <2>2. ~silent  BY <1>7, <2>1
    <2>3. q[k].acted \in BOOLEAN
        <3>1. q[k] \in SoundEntry  BY <1>1, ElementOfSeq
        <3>. QED  BY <3>1 DEF SoundEntry, Entry
    <2>4. k \in 1 .. n  BY <1>1
    <2>. QED  BY <1>7, <1>17, <2>1, <2>2, <2>3, <2>4
<1>. QED  BY <1>15, <1>16, <1>17 DEF closed

-----------------------------------------------------------------------------
(* The calls *)

(* What a call pays is an amount.                                          *)
LEMMA CollateralType ==
    ASSUME NEW tier \in Tiers
    PROVE  Collateral(tier) \in Nat
<1>1. tier \in 0 .. 9  BY ContractAssumption
<1>2. \/ tier = 0 \/ tier = 1 \/ tier = 2 \/ tier = 3 \/ tier = 4
      \/ tier = 5 \/ tier = 6 \/ tier = 7 \/ tier = 8 \/ tier = 9
    BY <1>1
<1>. QED  BY <1>2 DEF Collateral

(* The scan finds the first entry of the caller.                           *)
LEMMA ScanFinds ==
    ASSUME NEW q \in Seq(SoundEntry), NEW call, Enrolled(q, call)
    PROVE  IndexOf(q, call) \in DOMAIN q /\ Owns(q[IndexOf(q, call)], call)
<1>. DEFINE T == {i \in DOMAIN q : Owns(q[i], call)}
<1>1. DOMAIN q = 1 .. Len(q) /\ Len(q) \in Nat  BY LenProperties
<1>2. T \subseteq Nat /\ T # {}  BY <1>1 DEF Enrolled
<1>3. PICK i \in T : \A j \in T : i <= j
    <2>. HIDE DEF T
    <2>. QED  BY <1>2, LeastNumber
<1>4. i \in DOMAIN q /\ Owns(q[i], call) /\ \A j \in DOMAIN q : Owns(q[j], call) => i <= j
    BY <1>3
<1>. QED  BY <1>4 DEF IndexOf

(* The lock of the caller shrinks by its gain, all others stay. *)
LocksMove(q, r, call, gain) ==
    \A p \in Providers : Locked(r, p) = Locked(q, p) - (IF p = call.provider THEN gain ELSE 0)

(* Each contributor of r was one in q already. *)
SameContributors(q, r) ==
    \A j \in DOMAIN r : r[j].contributed =>
        \E i \in DOMAIN q : /\ q[i].contributed /\ q[i].provider = r[j].provider
                            /\ q[i].tier = r[j].tier

(* A call moves money between its caller and its caller's locks, and makes *)
(* nobody a contributor.                                                   *)
LEMMA CallOutcome ==
    ASSUME NEW q \in Seq(SoundEntry), NEW call \in Call, NEW tick \in Nat,
           NEW r, r = RevealAndCommit(q, call, tick),
           NEW gain, gain = Refund(q, call) - Collateral(call.tier)
    PROVE  /\ r \in Seq(SoundEntry)
           /\ gain \in Int /\ Refund(q, call) \in Int
           /\ LocksMove(q, r, call, gain)
           /\ SameContributors(q, r)
<1>. DEFINE price == Collateral(call.tier)
<1>1. /\ call.provider \in Providers /\ call.tier \in Tiers
      /\ call.reveal \in Values \cup {None} /\ call.commit \in Values \cup {None}
    BY DEF Call
<1>2. price \in Nat  BY <1>1, CollateralType
<1>3. DOMAIN q = 1 .. Len(q) /\ Len(q) \in Nat  BY LenProperties
<1>4. \A p \in Providers : Locked(q, p) \in Int  BY LockedType
<1>5. CASE ~Accepts(q, call)
    <2>1. r = q /\ Refund(q, call) = price  BY <1>5 DEF RevealAndCommit, Refund
    <2>2. gain = 0  BY <1>2, <2>1
    <2>3. \A p \in Providers : Locked(r, p) = Locked(q, p) - (IF p = call.provider THEN gain ELSE 0)
        BY <1>4, <2>1, <2>2
    <2>4. gain \in Int /\ Refund(q, call) \in Int  BY <1>2, <2>1, <2>2
    <2>. QED  BY <2>1, <2>3, <2>4 DEF LocksMove, SameContributors
<1>6. CASE Accepts(q, call) /\ call.reveal = None
    <2>. DEFINE e == NewEntry(call, tick)
    <2>1. r = Append(q, e) /\ Refund(q, call) = 0  BY <1>6 DEF RevealAndCommit, Refund
    <2>2. call.commit # None  BY <1>6 DEF Accepts
    <2>3. e \in SoundEntry /\ e.provider = call.provider /\ e.locked = price /\ ~e.contributed
        BY <1>1, <1>2, <2>2 DEF NewEntry, SoundEntry, Entry
    <2>4. gain = 0 - price  BY <1>2, <2>1
    <2>8. gain \in Int /\ Refund(q, call) \in Int  BY <1>2, <2>1, <2>4
    <2>. HIDE DEF e, price
    <2>5. r \in Seq(SoundEntry)  BY <2>1, <2>3, LockedAppend
    <2>6. ASSUME NEW p \in Providers
          PROVE  Locked(r, p) = Locked(q, p) - (IF p = call.provider THEN gain ELSE 0)
        <3>1. Locked(r, p) = Locked(q, p) + Amount(e, p)  BY <2>1, <2>3, LockedAppend
        <3>2. Amount(e, p) = IF p = call.provider THEN price ELSE 0  BY <2>3 DEF Amount
        <3>. QED  BY <1>2, <1>4, <2>4, <3>1, <3>2
    <2>7. ASSUME NEW j \in DOMAIN r, r[j].contributed
          PROVE  \E i \in DOMAIN q : /\ q[i].contributed /\ q[i].provider = r[j].provider
                                     /\ q[i].tier = r[j].tier
        <3>1. /\ Len(r) = Len(q) + 1 /\ r[Len(q) + 1] = e
              /\ \A k \in 1 .. Len(q) : r[k] = q[k]
            BY <2>1, <2>3, AppendProperties
        <3>2. j \in 1 .. Len(q) + 1  BY <2>5, <3>1, LenProperties
        <3>3. j # Len(q) + 1  BY <2>3, <2>7, <3>1
        <3>4. j \in 1 .. Len(q)  BY <1>3, <3>2, <3>3
        <3>. QED  BY <1>3, <2>7, <3>1, <3>4
    <2>. QED  BY <2>5, <2>6, <2>7, <2>8 DEF LocksMove, SameContributors
<1>7. CASE Accepts(q, call) /\ call.reveal # None
    <2>. DEFINE k == IndexOf(q, call)
                e == RevealedEntry(q[k], call, tick)
    <2>1. Enrolled(q, call)  BY <1>7 DEF Accepts, Fulfils
    <2>2. k \in DOMAIN q /\ q[k].provider = call.provider /\ q[k].tier = call.tier
        BY <2>1, ScanFinds DEF Owns
    <2>3. q[k] \in SoundEntry  BY <1>3, <2>2, ElementOfSeq
    <2>4. /\ r = [q EXCEPT ![k] = e]
          /\ Refund(q, call) = q[k].locked + (IF call.commit = None THEN price ELSE 0)
        BY <1>7 DEF RevealAndCommit, Refund
    <2>5. /\ e \in SoundEntry /\ e.provider = call.provider /\ e.tier = call.tier
          /\ e.locked = (IF call.commit = None THEN 0 ELSE price)
          /\ e.contributed = q[k].contributed
        BY <1>1, <1>2, <2>2, <2>3 DEF RevealedEntry, SoundEntry, Entry
    <2>6. q[k].locked \in Nat  BY <2>3 DEF SoundEntry, Entry
    <2>. HIDE DEF e, price, k
    <2>7. gain = q[k].locked - e.locked /\ gain \in Int /\ Refund(q, call) \in Int
        BY <1>2, <2>4, <2>5, <2>6 DEF price
    <2>8. r \in Seq(SoundEntry)  BY <2>2, <2>4, <2>5, LockedExcept
    <2>9. ASSUME NEW p \in Providers
          PROVE  Locked(r, p) = Locked(q, p) - (IF p = call.provider THEN gain ELSE 0)
        <3>0. Locked([q EXCEPT ![k] = e], p) = Locked(q, p) + (Amount(e, p) - Amount(q[k], p))
            BY <2>2, <2>5, LockedExcept
        <3>1. Locked(r, p) = Locked(q, p) + (Amount(e, p) - Amount(q[k], p))
            BY <2>4, <3>0
        <3>2. /\ Amount(e, p) = IF p = call.provider THEN e.locked ELSE 0
              /\ Amount(q[k], p) = IF p = call.provider THEN q[k].locked ELSE 0
            BY <2>2, <2>5 DEF Amount
        <3>3. e.locked \in Nat  BY <2>5 DEF SoundEntry, Entry
        <3>. QED  BY <1>4, <2>6, <2>7, <3>1, <3>2, <3>3
    <2>10. ASSUME NEW j \in DOMAIN r, r[j].contributed
           PROVE  \E i \in DOMAIN q : /\ q[i].contributed /\ q[i].provider = r[j].provider
                                      /\ q[i].tier = r[j].tier
        <3>1. DOMAIN r = DOMAIN q  BY <2>4
        <3>2. CASE j = k
            <4>1. r[j] = e  BY <2>2, <2>4, <3>2
            <4>. QED  BY <2>2, <2>5, <2>10, <4>1
        <3>3. CASE j # k
            <4>1. r[j] = q[j]  BY <2>4, <3>1, <3>3
            <4>. QED  BY <2>10, <3>1, <4>1
        <3>. QED  BY <3>2, <3>3
    <2>. QED  BY <2>7, <2>8, <2>9, <2>10 DEF LocksMove, SameContributors
<1>. QED  BY <1>5, <1>6, <1>7

-----------------------------------------------------------------------------
(* The contract with its callers *)

(* The population holds sound entries, and amounts are integers.           *)
ContractTypeOK ==
    /\ pool \in Seq(SoundEntry) /\ round \in Nat
    /\ balance \in [Providers -> Int] /\ burned \in Int

(* The inductive form of SoldEntropyIsHonest: what the last tick left in   *)
(* the population and in the entropy was earned in it.                     *)
WordIsEarned ==
    /\ \A i \in DOMAIN pool : pool[i].contributed =>
          \E e \in previous : /\ e.provider = pool[i].provider /\ e.tier = pool[i].tier
                              /\ e.revealed
    /\ \A t \in Tiers : entropy[t] # {} => \A e \in previous : e.tier = t => e.acted

(* LockedOf is the sum the lemmas are about.                               *)
LEMMA LockedOfPool ==
    ASSUME NEW q, NEW p
    PROVE  SumFunction([i \in DOMAIN q |-> IF q[i].provider = p THEN q[i].locked ELSE 0])
               = Locked(q, p)
<1>1. DOMAIN Share(q, p) = DOMAIN q  BY DEF Share
<1>2. Share(q, p) = [i \in DOMAIN q |-> IF q[i].provider = p THEN q[i].locked ELSE 0]
    BY DEF Share, Amount
<1>3. SumFunction(Share(q, p)) = Locked(q, p)  BY <1>1 DEF SumFunction, Locked, Sum
<1>. QED  BY <1>2, <1>3

(* The invariant over a population and a book of balances.                 *)
Conserved(q, c, b) ==
    /\ \A p \in Providers : c[p] + Locked(q, p) <= 0
    /\ Sum([p \in Providers |-> c[p] + Locked(q, p)], Providers) + b = 0

(* FundsConserved in these terms.                                          *)
LEMMA FundsAreConserved ==
    ASSUME NEW q, NEW c, NEW b
    PROVE  Conserved(q, c, b) <=>
              LET locked(p) == SumFunction([i \in DOMAIN q |->
                                   IF q[i].provider = p THEN q[i].locked ELSE 0])
              IN  /\ \A p \in Providers : c[p] + locked(p) <= 0
                  /\ SumFunction([p \in Providers |-> c[p] + locked(p)]) + b = 0
<1>. DEFINE locked(p) == SumFunction([i \in DOMAIN q |->
                             IF q[i].provider = p THEN q[i].locked ELSE 0])
            F == [p \in Providers |-> c[p] + locked(p)]
            G == [p \in Providers |-> c[p] + Locked(q, p)]
<1>1. \A p : locked(p) = Locked(q, p)  BY LockedOfPool
<1>. HIDE DEF locked
<1>2. F = G  BY <1>1
<1>3. SumFunction(F) = Sum(G, Providers)
    <2>1. DOMAIN F = Providers  OBVIOUS
    <2>. HIDE DEF F
    <2>. QED  BY <1>2, <2>1 DEF SumFunction, Sum
<1>4. Conserved(q, c, b) <=> /\ \A p \in Providers : c[p] + locked(p) <= 0
                             /\ SumFunction(F) + b = 0
    BY <1>1, <1>3 DEF Conserved
<1>. QED  BY <1>4 DEF locked

(* Nothing is locked or owed in the beginning.                             *)
LEMMA ContractStarts ==
    ASSUME ContractInit
    PROVE  ContractTypeOK /\ Conserved(pool, balance, burned) /\ WordIsEarned
<1>1. pool \in Seq(SoundEntry) /\ DOMAIN pool = {}  BY DEF ContractInit
<1>2. ContractTypeOK  BY <1>1 DEF ContractInit, ContractTypeOK
<1>3. WordIsEarned  BY <1>1 DEF ContractInit, WordIsEarned
<1>4. \A p \in Providers : Locked(pool, p) = 0
    BY <1>1, SumUnfolds, FS_EmptySet DEF Locked
<1>. DEFINE F == [p \in Providers |-> balance[p] + Locked(pool, p)]
<1>5. \A p \in Providers : F[p] = 0 /\ balance[p] = 0  BY <1>4 DEF ContractInit
<1>. HIDE DEF F
<1>6. Sum(F, Providers) = 0
    <2>1. IsFiniteSet(Providers)  BY ContractAssumption
    <2>2. \A p \in Providers : F[p] \in Int  BY <1>5
    <2>3. \A p \in Providers : F[p] = 0  BY <1>5
    <2>. QED  BY <2>1, <2>2, <2>3, SumType
<1>7. Conserved(pool, balance, burned)
    <2>1. burned = 0  BY DEF ContractInit
    <2>. QED  BY <1>4, <1>5, <1>6, <2>1 DEF Conserved, F
<1>. QED  BY <1>2, <1>3, <1>7

(* A call keeps what everybody is owed as it is.                           *)
LEMMA CallKeeps ==
    ASSUME ContractTypeOK, Conserved(pool, balance, burned), WordIsEarned,
           NEW call \in Call, Execute(call)
    PROVE  ContractTypeOK' /\ Conserved(pool', balance', burned') /\ WordIsEarned'
<1>. DEFINE gain == Refund(pool, call) - Collateral(call.tier)
<1>0. gain = Refund(pool, call) - Collateral(call.tier)  OBVIOUS
<1>. HIDE DEF gain
<1>1. /\ pool \in Seq(SoundEntry) /\ round \in Nat
      /\ balance \in [Providers -> Int] /\ burned \in Int
    BY DEF ContractTypeOK
<1>2. /\ pool' \in Seq(SoundEntry) /\ gain \in Int
      /\ \A p \in Providers :
            Locked(pool', p) = Locked(pool, p) - (IF p = call.provider THEN gain ELSE 0)
      /\ \A j \in DOMAIN pool' : pool'[j].contributed =>
            \E i \in DOMAIN pool : /\ pool[i].contributed /\ pool[i].provider = pool'[j].provider
                                   /\ pool[i].tier = pool'[j].tier
    <2>1. pool' = RevealAndCommit(pool, call, round)  BY DEF Execute
    <2>2. /\ pool' \in Seq(SoundEntry) /\ gain \in Int
          /\ LocksMove(pool, pool', call, gain) /\ SameContributors(pool, pool')
        BY <1>0, <1>1, <2>1, CallOutcome
    <2>. QED  BY <2>2 DEF LocksMove, SameContributors
<1>3. call.provider \in Providers /\ call.tier \in Tiers  BY DEF Call
<1>4. Collateral(call.tier) \in Int  BY <1>3, CollateralType
<1>5. Refund(pool, call) \in Int
    <2>1. pool' = RevealAndCommit(pool, call, round)  BY DEF Execute
    <2>. QED  BY <1>0, <1>1, <2>1, CallOutcome
<1>6. /\ balance' \in [Providers -> Int]
      /\ \A p \in Providers : balance'[p] = balance[p] + (IF p = call.provider THEN gain ELSE 0)
    BY <1>0, <1>1, <1>3, <1>4, <1>5 DEF Execute
<1>7. UNCHANGED <<entropy, round, burned, previous>>  BY DEF Execute
<1>8. ContractTypeOK'  BY <1>1, <1>2, <1>6, <1>7 DEF ContractTypeOK
<1>9. WordIsEarned'
    <2>1. \A i \in DOMAIN pool : pool[i].contributed =>
             \E e \in previous : /\ e.provider = pool[i].provider /\ e.tier = pool[i].tier
                                 /\ e.revealed
        BY DEF WordIsEarned
    <2>2. \A t \in Tiers : entropy'[t] # {} => \A e \in previous' : e.tier = t => e.acted
        BY <1>7 DEF WordIsEarned
    <2>3. ASSUME NEW j \in DOMAIN pool', pool'[j].contributed
          PROVE  \E e \in previous : /\ e.provider = pool'[j].provider /\ e.tier = pool'[j].tier
                                     /\ e.revealed
        <3>1. PICK i \in DOMAIN pool : /\ pool[i].contributed
                                       /\ pool[i].provider = pool'[j].provider
                                       /\ pool[i].tier = pool'[j].tier
            BY <1>2, <2>3
        <3>. QED  BY <2>1, <3>1
    <2>. QED  BY <1>7, <2>2, <2>3 DEF WordIsEarned
<1>10. Conserved(pool', balance', burned')
    <2>. DEFINE F == [p \in Providers |-> balance[p] + Locked(pool, p)]
                G == [p \in Providers |-> balance'[p] + Locked(pool', p)]
    <2>1. \A p \in Providers : Locked(pool, p) \in Int  BY <1>1, LockedType
    <2>2. \A p \in Providers : balance'[p] + Locked(pool', p) = balance[p] + Locked(pool, p)
        BY <1>1, <1>2, <1>6, <2>1
    <2>3. F = G  BY <2>2
    <2>4. \A p \in Providers : balance[p] + Locked(pool, p) <= 0  BY DEF Conserved
    <2>5. Sum(F, Providers) + burned = 0  BY DEF Conserved
    <2>6. Sum(G, Providers) + burned' = 0  BY <1>7, <2>3, <2>5
    <2>7. \A p \in Providers : balance'[p] + Locked(pool', p) <= 0  BY <2>2, <2>4
    <2>. QED  BY <2>6, <2>7 DEF Conserved
<1>. QED  BY <1>8, <1>9, <1>10

(* END_TICK keeps the books.                                               *)
LEMMA TickKeeps ==
    ASSUME ContractTypeOK, Conserved(pool, balance, burned), CloseTick
    PROVE  ContractTypeOK' /\ Conserved(pool', balance', burned') /\ WordIsEarned'
<1>. DEFINE closed == EndTick(pool, FALSE)
            done == {[provider |-> pool[i].provider, tier |-> pool[i].tier,
                      acted |-> pool[i].acted, revealed |-> pool[i].revealed] : i \in DOMAIN pool}
<1>1. /\ pool \in Seq(SoundEntry) /\ round \in Nat
      /\ balance \in [Providers -> Int] /\ burned \in Int
    BY DEF ContractTypeOK
<1>2. /\ pool' = closed.pool /\ entropy' = closed.entropy /\ burned' = burned + closed.burned
      /\ balance' = [p \in Providers |-> balance[p] + closed.paid[p]]
      /\ previous' = done /\ round' = round + 1
    BY DEF CloseTick
<1>3. /\ closed \in WalkState
      /\ \A p \in Providers : Owed(balance, closed)[p] <= balance[p] + Locked(pool, p)
      /\ Sum(Owed(balance, closed), Providers) + closed.burned
             = Sum([p \in Providers |-> balance[p] + Locked(pool, p)], Providers)
    BY <1>1, EndTickMoney
<1>4. /\ \A j \in DOMAIN closed.pool : \E k \in DOMAIN pool :
            /\ Survives(pool[k]) /\ Kept(pool[k], closed.pool[j], FALSE)
      /\ \A t \in Tiers : closed.entropy[t] # {} =>
            \A k \in DOMAIN pool : pool[k].tier = t => pool[k].acted
    BY <1>1, EndTickEntries
<1>. HIDE DEF closed
<1>5. closed.pool \in Seq(SoundEntry) /\ closed.burned \in Int /\ closed.paid \in [Providers -> Int]
    BY <1>3 DEF WalkState
<1>6. ContractTypeOK'  BY <1>1, <1>2, <1>5 DEF ContractTypeOK
<1>7. WordIsEarned'
    <2>1. ASSUME NEW j \in DOMAIN pool', pool'[j].contributed
          PROVE  \E e \in done : /\ e.provider = pool'[j].provider /\ e.tier = pool'[j].tier
                                 /\ e.revealed
        <3>1. PICK k \in DOMAIN pool : Kept(pool[k], closed.pool[j], FALSE)
            BY <1>2, <1>4, <2>1
        <3>. DEFINE e == [provider |-> pool[k].provider, tier |-> pool[k].tier,
                          acted |-> pool[k].acted, revealed |-> pool[k].revealed]
        <3>2. e \in done  OBVIOUS
        <3>3. e.provider = pool'[j].provider /\ e.tier = pool'[j].tier /\ e.revealed
            BY <1>2, <2>1, <3>1 DEF Kept
        <3>. HIDE DEF e, done
        <3>. QED  BY <3>2, <3>3
    <2>2. ASSUME NEW t \in Tiers, entropy'[t] # {}, NEW e \in done, e.tier = t
          PROVE  e.acted
        <3>1. PICK k \in DOMAIN pool :
                 e = [provider |-> pool[k].provider, tier |-> pool[k].tier,
                      acted |-> pool[k].acted, revealed |-> pool[k].revealed]
            OBVIOUS
        <3>. HIDE DEF done
        <3>2. pool[k].tier = t /\ e.acted = pool[k].acted  BY <2>2, <3>1
        <3>. QED  BY <1>2, <1>4, <2>2, <3>2
    <2>. HIDE DEF done
    <2>. QED  BY <1>2, <2>1, <2>2 DEF WordIsEarned
<1>8. Conserved(pool', balance', burned')
    <2>. DEFINE F == [p \in Providers |-> balance[p] + Locked(pool, p)]
                G == [p \in Providers |-> balance'[p] + Locked(pool', p)]
    <2>1. Owed(balance, closed) = G  BY <1>2 DEF Owed
    <2>2. \A p \in Providers : G[p] = balance'[p] + Locked(pool', p)  OBVIOUS
    <2>3. \A p \in Providers : balance[p] + Locked(pool, p) <= 0 /\ Sum(F, Providers) + burned = 0
        BY DEF Conserved
    <2>4. Sum(F, Providers) + burned = 0  BY DEF Conserved
    <2>5. Sum(G, Providers) + closed.burned = Sum(F, Providers)  BY <1>3, <2>1
    <2>6. ASSUME NEW p \in Providers
          PROVE  /\ G[p] \in Int /\ Locked(pool, p) \in Int /\ balance[p] \in Int
                 /\ G[p] <= balance[p] + Locked(pool, p)
        <3>1. Locked(pool, p) \in Int /\ Locked(pool', p) \in Int  BY <1>1, <1>2, <1>5, LockedType
        <3>2. balance'[p] \in Int /\ balance[p] \in Int  BY <1>1, <1>2, <1>5
        <3>. QED  BY <1>3, <2>1, <3>1, <3>2
    <2>7. Sum(G, Providers) \in Int
        <3>1. \A p \in Providers : G[p] \in Int  BY <2>6
        <3>. HIDE DEF G
        <3>. QED  BY <3>1, SumType, ContractAssumption
    <2>. HIDE DEF F, G
    <2>8. \A p \in Providers : balance'[p] + Locked(pool', p) <= 0  BY <2>2, <2>3, <2>6
    <2>9. Sum(G, Providers) + burned' = 0  BY <1>1, <1>2, <1>5, <2>4, <2>5, <2>7
    <2>. QED  BY <2>8, <2>9 DEF Conserved, G
<1>. QED  BY <1>6, <1>7, <1>8

(* The books hold in every state.                                          *)
LEMMA BooksHold ==
    ContractSpec => [](ContractTypeOK /\ Conserved(pool, balance, burned) /\ WordIsEarned)
<1>. DEFINE Inv == ContractTypeOK /\ Conserved(pool, balance, burned) /\ WordIsEarned
<1>1. ContractInit => Inv  BY ContractStarts
<1>2. Inv /\ [ContractNext]_contractVars => Inv'
    <2>. SUFFICES ASSUME Inv, [ContractNext]_contractVars PROVE Inv'  OBVIOUS
    <2>1. ASSUME NEW call \in Call, Execute(call) PROVE Inv'  BY <2>1, CallKeeps
    <2>2. CASE CloseTick  BY <2>2, TickKeeps
    <2>3. CASE UNCHANGED contractVars
        <3>1. UNCHANGED <<pool, entropy, round, balance, burned, previous>>
            BY <2>3 DEF contractVars
        <3>. QED  BY <3>1 DEF ContractTypeOK, WordIsEarned
    <2>4. CASE ContractDone  BY <2>3, <2>4 DEF ContractDone
    <2>. QED  BY <2>1, <2>2, <2>3, <2>4 DEF ContractNext
<1>. QED  BY <1>1, <1>2, PTL DEF ContractSpec

(* FundsConserved: in every state what each provider got back is at most   *)
(* what it paid less its lock, and all they miss is locked or was burned.  *)
THEOREM FundsAlwaysConserved == ContractSpec => []FundsConserved
<1>1. Conserved(pool, balance, burned) => FundsConserved
    BY FundsAreConserved DEF FundsConserved, LockedOf
<1>. QED  BY <1>1, BooksHold, PTL

(* SoldEntropyIsHonest: entropy is only ever sold of a tier nobody stayed  *)
(* away from, and on the word of a trustee that revealed in the last tick. *)
THEOREM EntropyIsSoldHonestly == ContractSpec => []SoldEntropyIsHonest
<1>1. WordIsEarned => SoldEntropyIsHonest
    <2>. SUFFICES ASSUME WordIsEarned, NEW tier \in Tiers, NEW trustee \in Providers \cup {None},
                         Sells(tier, trustee)
                  PROVE  /\ trustee # None =>
                                \E e \in previous : e.provider = trustee /\ e.tier = tier /\ e.revealed
                         /\ \A e \in previous : e.tier = tier => e.acted
        BY DEF SoldEntropyIsHonest
    <2>1. entropy[tier] # {}  BY DEF Sells
    <2>2. \A e \in previous : e.tier = tier => e.acted
        BY <2>1 DEF WordIsEarned
    <2>3. ASSUME trustee # None
          PROVE  \E e \in previous : e.provider = trustee /\ e.tier = tier /\ e.revealed
        <3>1. PICK i \in DOMAIN pool : /\ pool[i].provider = trustee /\ pool[i].tier = tier
                                       /\ pool[i].contributed
            BY <2>3 DEF Sells
        <3>. QED  BY <2>1, <3>1 DEF WordIsEarned
    <2>. QED  BY <2>2, <2>3
<1>. QED  BY <1>1, BooksHold, PTL

(* SurvivorsKeepTheirEntry: every END_TICK keeps exactly the providers     *)
(* that acted and did not leave, each with its own commit and lock.        *)
THEOREM EveryTickKeepsSurvivors == ContractSpec => SurvivorsKeepTheirEntry
<1>. DEFINE kept == {[provider |-> pool'[i].provider, tier |-> pool'[i].tier,
                      commit |-> pool'[i].commit, locked |-> pool'[i].locked] : i \in DOMAIN pool'}
            living == {[provider |-> pool[i].provider, tier |-> pool[i].tier,
                        commit |-> pool[i].commit, locked |-> pool[i].locked] :
                          i \in {j \in DOMAIN pool : pool[j].acted /\ pool[j].commit # None}}
            Step == round' # round => kept = living
<1>1. ContractTypeOK /\ [ContractNext]_contractVars => [Step]_contractVars
    <2>. SUFFICES ASSUME ContractTypeOK, ContractNext, round' # round PROVE kept = living  OBVIOUS
    <2>1. CloseTick  BY DEF ContractNext, Execute, ContractDone, contractVars
    <2>2. pool \in Seq(SoundEntry)  BY DEF ContractTypeOK
    <2>3. pool' = EndTick(pool, FALSE).pool  BY <2>1 DEF CloseTick
    <2>4. /\ \A j \in DOMAIN pool' : \E k \in DOMAIN pool :
                Survives(pool[k]) /\ Kept(pool[k], pool'[j], FALSE)
          /\ \A k \in DOMAIN pool : Survives(pool[k]) =>
                \E j \in DOMAIN pool' : Kept(pool[k], pool'[j], FALSE)
        BY <2>2, <2>3, EndTickEntries
    <2>5. ASSUME NEW e \in kept PROVE e \in living
        <3>1. PICK j \in DOMAIN pool' :
                 e = [provider |-> pool'[j].provider, tier |-> pool'[j].tier,
                      commit |-> pool'[j].commit, locked |-> pool'[j].locked]
            OBVIOUS
        <3>2. PICK k \in DOMAIN pool : Survives(pool[k]) /\ Kept(pool[k], pool'[j], FALSE)
            BY <2>4
        <3>3. k \in {s \in DOMAIN pool : pool[s].acted /\ pool[s].commit # None}
            BY <3>2 DEF Survives
        <3>4. e = [provider |-> pool[k].provider, tier |-> pool[k].tier,
                   commit |-> pool[k].commit, locked |-> pool[k].locked]
            BY <3>1, <3>2 DEF Kept
        <3>. HIDE DEF kept
        <3>. QED  BY <3>3, <3>4
    <2>6. ASSUME NEW e \in living PROVE e \in kept
        <3>1. PICK k \in {s \in DOMAIN pool : pool[s].acted /\ pool[s].commit # None} :
                 e = [provider |-> pool[k].provider, tier |-> pool[k].tier,
                      commit |-> pool[k].commit, locked |-> pool[k].locked]
            OBVIOUS
        <3>2. PICK j \in DOMAIN pool' : Kept(pool[k], pool'[j], FALSE)
            BY <2>4, <3>1 DEF Survives
        <3>3. e = [provider |-> pool'[j].provider, tier |-> pool'[j].tier,
                   commit |-> pool'[j].commit, locked |-> pool'[j].locked]
            BY <3>1, <3>2 DEF Kept
        <3>. HIDE DEF living
        <3>. QED  BY <3>3
    <2>. HIDE DEF kept, living
    <2>. QED  BY <2>5, <2>6
<1>2. ContractSpec => []ContractTypeOK  BY BooksHold, PTL
<1>. QED  BY <1>1, <1>2, PTL DEF ContractSpec, SurvivorsKeepTheirEntry
=============================================================================
