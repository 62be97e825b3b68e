--------------------------- MODULE SaasStoreProofs ---------------------------
(***************************************************************************)
(* Proofs about the store, for every number of tokens, workspaces, orders  *)
(* and invoices and every amount: SaasStore's runs check the same formulas *)
(* on two of each.                                                         *)
(*                                                                         *)
(* One invariant carries them, MoneyInv below.  The balances alone are not *)
(* inductive: that a credited order gets one top-up row needs the status   *)
(* of its row, and that a rotation may write over the new token's wallet   *)
(* needs that a token without a row has nothing on its ledger.             *)
(***************************************************************************)
EXTENDS SaasStore, FiniteSetTheorems, SequenceTheorems, TLAPS

-----------------------------------------------------------------------------
(***************************************************************************)
(* Induction over finite sets, stated with sets in the place of            *)
(* predicates, and the sums it gives.                                      *)
(***************************************************************************)
\* A non-empty set of subsets of a finite set has a smallest member.
LEMMA Smallest ==
  ASSUME NEW S, IsFiniteSet(S), NEW B \in SUBSET SUBSET S, B # {}
  PROVE  \E m \in B : \A n \in B : n \subseteq m => n = m
<1>1. IsWellFoundedOn(StrictSubsetOrdering(S), SUBSET S)
  BY FS_FiniteSubsetsOfFinite, FS_StrictSubsetOrderingWellFounded
<1>2. PICK m \in B : \A n \in B : ~ (<<n, m>> \in StrictSubsetOrdering(S))
  BY <1>1, WFMin
<1>3. QED
  BY <1>2 DEF StrictSubsetOrdering

\* Induction over the subsets of a finite set, the set of the subsets for
\* which it is claimed in the place of a predicate.
LEMMA GrowSet ==
  ASSUME NEW S, IsFiniteSet(S), NEW G, {} \in G,
         \A T \in SUBSET S : \A x \in S \ T : T \in G => T \cup {x} \in G
  PROVE  S \in G
<1> SUFFICES ASSUME S \notin G PROVE FALSE
  OBVIOUS
<1> DEFINE B == {T \in SUBSET S : T \notin G}
<1>0. B \in SUBSET SUBSET S /\ S \in B
  OBVIOUS
<1>1. PICK m \in B : \A n \in B : n \subseteq m => n = m
  <2> HIDE DEF B
  <2> QED BY <1>0, Smallest
<1>2. PICK x \in m : TRUE
  OBVIOUS
<1>3. m \ {x} \in G
  BY <1>1, <1>2
<1>4. (m \ {x}) \cup {x} = m
  BY <1>2
<1>5. QED
  BY <1>2, <1>3, <1>4

\* Counting up to n, in the same way.
LEMMA CountUp ==
  ASSUME NEW n \in Nat, NEW G, 0 \in G, \A k \in 0 .. n : k < n /\ k \in G => k + 1 \in G
  PROVE  n \in G
<1> DEFINE H == {T \in SUBSET (1 .. n) : Cardinality(T) \in G}
<1>1. IsFiniteSet(1 .. n) /\ Cardinality(1 .. n) = n
  BY FS_Interval
<1>2. {} \in H
  BY FS_EmptySet
<1>3. ASSUME NEW T \in SUBSET (1 .. n), NEW x \in (1 .. n) \ T, T \in H
      PROVE  T \cup {x} \in H
  <2>1. IsFiniteSet(T) /\ Cardinality(T) \in Nat /\ Cardinality(T) <= n /\ Cardinality(T) # n
    BY <1>1, <1>3, FS_Subset, FS_CardinalityType
  <2>2. Cardinality(T \cup {x}) = Cardinality(T) + 1
    BY <1>3, <2>1, FS_AddElement
  <2>3. QED
    BY <1>3, <2>1, <2>2
<1> HIDE DEF H
<1>4. 1 .. n \in H
  BY <1>1, <1>2, <1>3, GrowSet
<1>5. QED
  BY <1>1, <1>4 DEF H

(***************************************************************************)
(* Sums.                                                                   *)
(***************************************************************************)
One(s) == CHOOSE x \in s : TRUE
Adds(f, g, D) == g = [s \in D |-> IF s = {} THEN 0 ELSE f[One(s)] + g[s \ {One(s)}]]

LEMMA SumUnfolds ==
  ASSUME NEW f, NEW S
  PROVE  SumFunctionOnSet(f, S) = (CHOOSE g : Adds(f, g, SUBSET S))[S]
BY DEF SumFunctionOnSet, FoldFunctionOnSet, MapThenFoldSet, Adds, One

LEMMA OneIn == ASSUME NEW s, s # {} PROVE One(s) \in s
BY DEF One

\* The subsets of a set with at most n members.
UpTo(S, n) == {s \in SUBSET S : Cardinality(s) <= n}

LEMMA AddsGrow ==
  ASSUME NEW f, NEW S, IsFiniteSet(S), NEW n \in Nat, NEW g, Adds(f, g, UpTo(S, n))
  PROVE  \E h : Adds(f, h, UpTo(S, n + 1))
<1> DEFINE h == [s \in UpTo(S, n + 1) |-> IF s = {} THEN 0 ELSE f[One(s)] + g[s \ {One(s)}]]
<1>1. \A s \in SUBSET S : IsFiniteSet(s) /\ Cardinality(s) \in Nat
  BY FS_CardinalityType, FS_Subset
<1>2. \A s \in UpTo(S, n) : s \in UpTo(S, n + 1)
  BY <1>1 DEF UpTo
<1>3. \A s \in UpTo(S, n) : h[s] = g[s]
  BY <1>2 DEF Adds
<1>4. ASSUME NEW s \in UpTo(S, n + 1), s # {} PROVE s \ {One(s)} \in UpTo(S, n)
  <2>1. One(s) \in s /\ s \in SUBSET S
    BY <1>4, OneIn DEF UpTo
  <2>2. Cardinality(s \ {One(s)}) = Cardinality(s) - 1
    BY <1>1, <2>1, FS_RemoveElement
  <2>3. QED
    BY <1>1, <2>1, <2>2 DEF UpTo
<1>5. \A s \in UpTo(S, n + 1) : s # {} => h[s \ {One(s)}] = g[s \ {One(s)}]
  BY <1>3, <1>4
<1>6. h = [s \in UpTo(S, n + 1) |-> IF s = {} THEN 0 ELSE f[One(s)] + h[s \ {One(s)}]]
  BY <1>5
<1> HIDE DEF h
<1>7. QED
  BY <1>6 DEF Adds

LEMMA Adder ==
  ASSUME NEW f, NEW S, IsFiniteSet(S)
  PROVE  \E g : Adds(f, g, SUBSET S)
<1> DEFINE N == Cardinality(S)
           G == {n \in 0 .. N : \E g : Adds(f, g, UpTo(S, n))}
<1>1. N \in Nat /\ \A s \in SUBSET S : IsFiniteSet(s) /\ Cardinality(s) \in Nat /\ Cardinality(s) <= N
  BY FS_CardinalityType, FS_Subset
<1>2. UpTo(S, N) = SUBSET S
  BY <1>1 DEF UpTo
<1>3. \E g : Adds(f, g, UpTo(S, 0))
  <2>1. UpTo(S, 0) = {{}}
    BY <1>1, FS_EmptySet DEF UpTo
  <2>2. Adds(f, [s \in {{}} |-> 0], {{}})
    BY DEF Adds
  <2>3. QED
    BY <2>1, <2>2
<1> HIDE DEF N
<1>4. \A n \in 0 .. N : n < N /\ n \in G => n + 1 \in G
  BY <1>1, AddsGrow
<1>5. 0 \in G
  BY <1>1, <1>3
<1>6. N \in G
  <2> HIDE DEF G
  <2> QED BY <1>1, <1>4, <1>5, CountUp
<1>7. QED
  BY <1>2, <1>6 DEF N

\* Adding machines for two sets agree on the subsets of both.
LEMMA AddersAgree ==
  ASSUME NEW f, NEW S, IsFiniteSet(S), NEW T \in SUBSET S, NEW g, NEW h,
         Adds(f, g, SUBSET S), Adds(f, h, SUBSET T)
  PROVE  \A s \in SUBSET T : g[s] = h[s]
<1> SUFFICES ASSUME NEW z \in SUBSET T, g[z] # h[z] PROVE FALSE
  OBVIOUS
<1> DEFINE B == {s \in SUBSET T : g[s] # h[s]}
<1>1. B \in SUBSET SUBSET S /\ B # {}
  OBVIOUS
<1>2. PICK m \in B : \A n \in B : n \subseteq m => n = m
  <2> HIDE DEF B
  <2> QED BY <1>1, Smallest
<1>3. g[m] = (IF m = {} THEN 0 ELSE f[One(m)] + g[m \ {One(m)}])
      /\ h[m] = (IF m = {} THEN 0 ELSE f[One(m)] + h[m \ {One(m)}])
  <2>1. m \in SUBSET S /\ m \in SUBSET T
    OBVIOUS
  <2>2. QED
    BY <2>1 DEF Adds
<1>4. m # {}
  BY <1>3
<1>5. m \ {One(m)} \in SUBSET T /\ m \ {One(m)} # m
  BY <1>4, OneIn
<1>6. g[m \ {One(m)}] = h[m \ {One(m)}]
  BY <1>2, <1>5
<1>7. QED
  BY <1>3, <1>4, <1>6

LEMMA SumEmpty == ASSUME NEW f PROVE SumFunctionOnSet(f, {}) = 0
<1>1. PICK g : Adds(f, g, SUBSET {})
  BY Adder, FS_EmptySet
<1>2. Adds(f, CHOOSE h : Adds(f, h, SUBSET {}), SUBSET {})
  BY <1>1
<1>3. QED
  BY <1>2, SumUnfolds DEF Adds

LEMMA SumOne ==
  ASSUME NEW f, NEW S, IsFiniteSet(S), S # {}
  PROVE  SumFunctionOnSet(f, S) = f[One(S)] + SumFunctionOnSet(f, S \ {One(S)})
<1> DEFINE T == S \ {One(S)}
           g == CHOOSE k : Adds(f, k, SUBSET S)
           h == CHOOSE k : Adds(f, k, SUBSET T)
<1>1. IsFiniteSet(T) /\ T \in SUBSET S
  BY FS_Subset
<1>2. Adds(f, g, SUBSET S) /\ Adds(f, h, SUBSET T)
  BY <1>1, Adder
<1>3. SumFunctionOnSet(f, S) = g[S] /\ SumFunctionOnSet(f, T) = h[T]
  BY SumUnfolds
<1>4. g[S] = f[One(S)] + g[T]
  BY <1>2 DEF Adds
<1>5. g[T] = h[T]
  <2> HIDE DEF g, h, T
  <2> QED BY <1>1, <1>2, AddersAgree
<1>6. QED
  BY <1>3, <1>4, <1>5

\* Any element can be taken out of a sum first.
LEMMA SumRemove ==
  ASSUME NEW f, NEW S, IsFiniteSet(S), \A x \in S : f[x] \in Int
  PROVE  /\ SumFunctionOnSet(f, S) \in Int
         /\ \A x \in S : SumFunctionOnSet(f, S) = f[x] + SumFunctionOnSet(f, S \ {x})
<1> DEFINE Sum(s) == SumFunctionOnSet(f, s)
           Good(s) == Sum(s) \in Int /\ \A x \in s : Sum(s) = f[x] + Sum(s \ {x})
           B == {s \in SUBSET S : ~Good(s)}
<1>1. SUFFICES ASSUME B # {} PROVE FALSE
  OBVIOUS
<1>2. PICK m \in B : \A n \in B : n \subseteq m => n = m
  <2> HIDE DEF B
  <2>1. B \in SUBSET SUBSET S
    BY DEF B
  <2> QED BY <1>1, <2>1, Smallest
<1> DEFINE c == One(m)
<1>3. m # {}
  <2>1. Sum({}) = 0
    BY SumEmpty
  <2>2. Good({})
    BY <2>1
  <2> QED BY <1>2, <2>2
<1>4. c \in m /\ m \in SUBSET S /\ IsFiniteSet(m)
  BY <1>3, OneIn, FS_Subset
<1>5. Sum(m) = f[c] + Sum(m \ {c})
  BY <1>3, <1>4, SumOne
<1>6. \A n \in SUBSET m : n # m => Good(n)
  BY <1>2
<1> HIDE DEF Sum, c, B
<1>7. Good(m \ {c})
  BY <1>4, <1>6
<1>8. Sum(m) \in Int
  BY <1>4, <1>5, <1>7
<1>9. ASSUME NEW x \in m, x # c PROVE Sum(m) = f[x] + Sum(m \ {x})
  <2>1. Good(m \ {x}) /\ x \in m \ {c} /\ c \in m \ {x}
    BY <1>4, <1>6, <1>9
  <2>2. (m \ {c}) \ {x} = (m \ {x}) \ {c}
    OBVIOUS
  <2>3. Sum(m \ {c}) = f[x] + Sum((m \ {c}) \ {x})
    BY <1>7, <2>1
  <2>4. Sum(m \ {x}) = f[c] + Sum((m \ {c}) \ {x})
    BY <2>1, <2>2
  <2>5. Good((m \ {c}) \ {x})
    BY <1>4, <1>6
  <2>6. f[x] \in Int /\ f[c] \in Int /\ Sum((m \ {c}) \ {x}) \in Int
    BY <1>4, <2>5
  <2> QED BY <1>5, <2>3, <2>4, <2>6
<1>10. Good(m)
  BY <1>5, <1>8, <1>9
<1>11. QED
  BY <1>2, <1>10 DEF B

LEMMA SumInsert ==
  ASSUME NEW f, NEW S, IsFiniteSet(S), NEW x, x \notin S, \A y \in S \cup {x} : f[y] \in Int
  PROVE  SumFunctionOnSet(f, S \cup {x}) = f[x] + SumFunctionOnSet(f, S)
<1>1. IsFiniteSet(S \cup {x}) /\ (S \cup {x}) \ {x} = S
  BY FS_AddElement
<1>2. QED
  BY <1>1, SumRemove

\* Sums of functions that are equal on the set.
LEMMA SumSame ==
  ASSUME NEW S, IsFiniteSet(S), NEW f, NEW g, \A x \in S : f[x] \in Int /\ f[x] = g[x]
  PROVE  SumFunctionOnSet(f, S) = SumFunctionOnSet(g, S)
<1> DEFINE G == {T \in SUBSET S : SumFunctionOnSet(f, T) = SumFunctionOnSet(g, T)}
<1>1. {} \in G
  BY SumEmpty
<1>2. \A T \in SUBSET S : IsFiniteSet(T)
  BY FS_Subset
<1>3. ASSUME NEW T \in SUBSET S, NEW x \in S \ T, T \in G
      PROVE  T \cup {x} \in G
  <2>1. /\ SumFunctionOnSet(f, T \cup {x}) = f[x] + SumFunctionOnSet(f, T)
        /\ SumFunctionOnSet(g, T \cup {x}) = g[x] + SumFunctionOnSet(g, T)
    BY <1>2, SumInsert
  <2>2. QED
    BY <1>3, <2>1
<1> HIDE DEF G
<1>4. S \in G
  BY <1>1, <1>3, GrowSet
<1>5. QED
  BY <1>4 DEF G

\* A sum of natural numbers is one, and it is no smaller than a sum over
\* fewer elements or of smaller numbers.
LEMMA SumNat ==
  ASSUME NEW S, IsFiniteSet(S), NEW f, \A x \in S : f[x] \in Nat
  PROVE  SumFunctionOnSet(f, S) \in Nat
<1> DEFINE G == {T \in SUBSET S : SumFunctionOnSet(f, T) \in Nat}
<1>1. {} \in G
  BY SumEmpty
<1>2. \A T \in SUBSET S : IsFiniteSet(T)
  BY FS_Subset
<1>3. ASSUME NEW T \in SUBSET S, NEW x \in S \ T, T \in G
      PROVE  T \cup {x} \in G
  <2>1. SumFunctionOnSet(f, T \cup {x}) = f[x] + SumFunctionOnSet(f, T)
    BY <1>2, SumInsert
  <2>2. QED
    BY <1>3, <2>1
<1> HIDE DEF G
<1>4. S \in G
  BY <1>1, <1>3, GrowSet
<1>5. QED
  BY <1>4 DEF G

LEMMA SumUnion ==
  ASSUME NEW S, IsFiniteSet(S), NEW R, IsFiniteSet(R), S \cap R = {},
         NEW f, \A x \in S \cup R : f[x] \in Int
  PROVE  SumFunctionOnSet(f, R \cup S) = SumFunctionOnSet(f, R) + SumFunctionOnSet(f, S)
<1> DEFINE G == {T \in SUBSET S :
                   SumFunctionOnSet(f, R \cup T) = SumFunctionOnSet(f, R) + SumFunctionOnSet(f, T)}
<1>1. {} \in G
  BY SumEmpty, SumRemove
<1>2. \A T \in SUBSET S : IsFiniteSet(T) /\ IsFiniteSet(R \cup T)
  BY FS_Subset, FS_Union
<1>3. ASSUME NEW T \in SUBSET S, NEW x \in S \ T, T \in G
      PROVE  T \cup {x} \in G
  <2>1. SumFunctionOnSet(f, T \cup {x}) = f[x] + SumFunctionOnSet(f, T)
    BY <1>2, SumInsert
  <2>2. R \cup (T \cup {x}) = (R \cup T) \cup {x} /\ x \notin R \cup T
    OBVIOUS
  <2>3. SumFunctionOnSet(f, R \cup (T \cup {x})) = f[x] + SumFunctionOnSet(f, R \cup T)
    BY <1>2, <2>2, SumInsert
  <2>4. f[x] \in Int /\ SumFunctionOnSet(f, T) \in Int /\ SumFunctionOnSet(f, R) \in Int
    BY <1>2, SumRemove
  <2> QED BY <1>3, <2>1, <2>3, <2>4
<1> HIDE DEF G
<1>4. S \in G
  BY <1>1, <1>3, GrowSet
<1>5. QED
  BY <1>4 DEF G

LEMMA SumWithin ==
  ASSUME NEW S, IsFiniteSet(S), NEW T \in SUBSET S, NEW f, \A x \in S : f[x] \in Nat
  PROVE  SumFunctionOnSet(f, T) <= SumFunctionOnSet(f, S)
<1>1. IsFiniteSet(T) /\ IsFiniteSet(S \ T) /\ S = T \cup (S \ T)
  BY FS_Subset
<1>2. SumFunctionOnSet(f, S) = SumFunctionOnSet(f, T) + SumFunctionOnSet(f, S \ T)
  BY <1>1, SumUnion
<1>3. SumFunctionOnSet(f, T) \in Nat /\ SumFunctionOnSet(f, S \ T) \in Nat
  BY <1>1, SumNat
<1>4. QED
  BY <1>2, <1>3

\* Elements that count for nothing can be left out.
LEMMA SumZero ==
  ASSUME NEW S, IsFiniteSet(S), NEW f, \A x \in S : f[x] = 0
  PROVE  SumFunctionOnSet(f, S) = 0
<1> DEFINE G == {T \in SUBSET S : SumFunctionOnSet(f, T) = 0}
<1>1. {} \in G
  BY SumEmpty
<1>2. \A T \in SUBSET S : IsFiniteSet(T)
  BY FS_Subset
<1>3. ASSUME NEW T \in SUBSET S, NEW x \in S \ T, T \in G
      PROVE  T \cup {x} \in G
  <2>1. SumFunctionOnSet(f, T \cup {x}) = f[x] + SumFunctionOnSet(f, T)
    BY <1>2, SumInsert
  <2>2. QED
    BY <1>3, <2>1
<1> HIDE DEF G
<1>4. S \in G
  BY <1>1, <1>3, GrowSet
<1>5. QED
  BY <1>4 DEF G

\* One summand changes.
LEMMA SumChange ==
  ASSUME NEW S, IsFiniteSet(S), NEW x \in S, NEW f, NEW g,
         \A y \in S : f[y] \in Int /\ g[y] \in Int, \A y \in S \ {x} : g[y] = f[y]
  PROVE  SumFunctionOnSet(g, S) = SumFunctionOnSet(f, S) - f[x] + g[x]
<1>1. IsFiniteSet(S \ {x})
  BY FS_Subset
<1>2. SumFunctionOnSet(f, S) = f[x] + SumFunctionOnSet(f, S \ {x})
  BY SumRemove
<1>3. SumFunctionOnSet(g, S) = g[x] + SumFunctionOnSet(g, S \ {x})
  BY SumRemove
<1>4. SumFunctionOnSet(g, S \ {x}) = SumFunctionOnSet(f, S \ {x})
  BY <1>1, SumSame
<1>5. SumFunctionOnSet(f, S \ {x}) \in Int
  BY <1>1, SumRemove
<1>6. QED
  BY <1>2, <1>3, <1>4, <1>5

\* Two do, and what one loses the other gains.
LEMMA SumMove ==
  ASSUME NEW S, IsFiniteSet(S), NEW x \in S, NEW z \in S, x # z, NEW f, NEW g,
         \A y \in S : f[y] \in Int /\ g[y] \in Int, \A y \in S \ {x, z} : g[y] = f[y],
         f[x] + f[z] = g[x] + g[z]
  PROVE  SumFunctionOnSet(g, S) = SumFunctionOnSet(f, S)
<1>1. IsFiniteSet(S \ {x}) /\ z \in S \ {x}
  BY FS_Subset
<1>2. SumFunctionOnSet(f, S) = f[x] + SumFunctionOnSet(f, S \ {x})
  BY SumRemove
<1>3. SumFunctionOnSet(g, S) = g[x] + SumFunctionOnSet(g, S \ {x})
  BY SumRemove
<1>4. SumFunctionOnSet(g, S \ {x}) = SumFunctionOnSet(f, S \ {x}) - f[z] + g[z]
  <2> DEFINE R == S \ {x}
  <2>1. /\ IsFiniteSet(R) /\ z \in R
        /\ \A y \in R : f[y] \in Int /\ g[y] \in Int
        /\ \A y \in R \ {z} : g[y] = f[y]
    BY <1>1
  <2> HIDE DEF R
  <2>2. SumFunctionOnSet(g, R) = SumFunctionOnSet(f, R) - f[z] + g[z]
    BY <2>1, SumChange
  <2> QED BY <2>2 DEF R
<1>5. SumFunctionOnSet(f, S \ {x}) \in Int
  BY <1>1, SumRemove
<1>6. f[x] \in Int /\ g[x] \in Int /\ f[z] \in Int /\ g[z] \in Int
  OBVIOUS
<1>7. QED
  BY <1>2, <1>3, <1>4, <1>5, <1>6
-----------------------------------------------------------------------------

\* The schema of a fresh database (migrations.go) is well typed.
LEMMA InitMoneyType == StoreInit => RowsTypeOK
  BY StoreAssumption DEF StoreInit, RowsTypeOK, OrderStates, InvoiceStates

\* The step of MemberPoolAvail and ChargeMemberFirst that a cap cuts: the
\* result is below what was available, and below what the cap leaves.
LEMMA CapLeftType ==
  ASSUME NEW cap \in Nat, NEW used \in Nat, NEW avail \in Int
  PROVE  /\ CapLeft(cap, used, avail) \in Int
         /\ CapLeft(cap, used, avail) <= avail
         /\ cap > 0 => CapLeft(cap, used, avail) <= cap - used
  BY DEF CapLeft

\* What MemberPoolAvail offers is a natural number, and when it offers
\* anything the workspace is enabled, the pool covers it, and so do both caps.
LEMMA PoolAvail ==
  ASSUME RowsTypeOK, NEW t \in Token
  PROVE  /\ MemberPoolAvail(t) \in Nat
         /\ MemberPoolAvail(t) > 0 =>
              /\ member[t] \in workspaces \ disabled
              /\ MemberPoolAvail(t) <= pool[member[t]]
              /\ dayCap[t] > 0 => MemberPoolAvail(t) <= dayCap[t] - usedDay[t]
              /\ monthCap[t] > 0 => MemberPoolAvail(t) <= monthCap[t] - usedMonth[t]
<1> DEFINE w == member[t]
           inner == CapLeft(dayCap[t], usedDay[t], pool[w])
           avail == CapLeft(monthCap[t], usedMonth[t], inner)
<1>1. CASE w = NoWorkspace
  BY <1>1 DEF MemberPoolAvail
<1>2. CASE w # NoWorkspace
  <2>1. /\ w \in workspaces /\ pool[w] \in Int
        /\ dayCap[t] \in Nat /\ usedDay[t] \in Nat
        /\ monthCap[t] \in Nat /\ usedMonth[t] \in Nat
    BY <1>2 DEF RowsTypeOK
  <2>2. /\ inner \in Int /\ inner <= pool[w]
        /\ dayCap[t] > 0 => inner <= dayCap[t] - usedDay[t]
    BY <2>1, CapLeftType
  <2>3. /\ avail \in Int /\ avail <= inner
        /\ monthCap[t] > 0 => avail <= monthCap[t] - usedMonth[t]
    BY <2>1, <2>2, CapLeftType
  <2>4. MemberPoolAvail(t) = IF w \in disabled \/ pool[w] <= 0 \/ avail < 0 THEN 0 ELSE avail
    BY <1>2 DEF MemberPoolAvail
  <2> HIDE DEF w, inner, avail
  <2>5. QED
    BY <2>1, <2>2, <2>3, <2>4 DEF w
<1>3. QED
  BY <1>1, <1>2
-----------------------------------------------------------------------------
(***************************************************************************)
(* The inductive invariant: types, balances equal to their ledgers, and    *)
(* one top-up row per paid order.  One lemma per operation of the store.   *)
(***************************************************************************)
MoneyInv == RowsTypeOK /\ LedgerBalanced /\ CreditedExactlyOnce

\* A fresh database: no ledger rows, no credits.
LEMMA InitMoney == StoreInit => MoneyInv
  BY InitMoneyType, StoreAssumption
     DEF StoreInit, MoneyInv, LedgerBalanced, CreditedExactlyOnce

\* EnsureWallet: the empty wallet row of a token that may have one already.
LEMMA EnsureWalletKeeps ==
  ASSUME MoneyInv, NEW t \in Token, EnsureWallet(t)
  PROVE  MoneyInv'
  BY StoreAssumption DEF EnsureWallet, MoneyInv, RowsTypeOK, LedgerBalanced, CreditedExactlyOnce, OrderStates,
     walletVars, poolVars, memberVars, usedVars, orderVars, invoiceVars

\* AddBalance: a signed change of a wallet with its wallet_tx row.
LEMMA AddBalanceKeeps ==
  ASSUME MoneyInv, NEW t \in Token, NEW d \in Int, NEW neg \in BOOLEAN, AddBalance(t, d, neg)
  PROVE  MoneyInv'
  BY StoreAssumption DEF AddBalance, MoneyInv, RowsTypeOK, LedgerBalanced, CreditedExactlyOnce, OrderStates,
     walletVars, poolVars, memberVars, usedVars, orderVars, invoiceVars

\* CreateOrder: a new pending order, not yet credited.
LEMMA CreateOrderKeeps ==
  ASSUME MoneyInv, NEW o \in Order, NEW t \in Token, NEW w \in workspaces \cup {NoWorkspace}, CreateOrder(o, t, w)
  PROVE  MoneyInv'
  BY StoreAssumption DEF CreateOrder, MoneyInv, RowsTypeOK, LedgerBalanced, CreditedExactlyOnce, OrderStates,
     walletVars, poolVars, memberVars, usedVars, orderVars, invoiceVars

\* CreditPaidOrder: pending to paid, the wallet and its top-up row together.
LEMMA CreditPaidOrderKeeps ==
  ASSUME MoneyInv, NEW o \in Order, NEW t \in Token, CreditPaidOrder(o, t)
  PROVE  MoneyInv'
<1> USE DEF MoneyInv
<1>1. RowsTypeOK /\ Usd[o] \in Nat
  BY StoreAssumption
<1>2. /\ ordStatus[o] = "pending" /\ credits[o] = 0
      /\ ordStatus' = [ordStatus EXCEPT ![o] = "paid"]
      /\ credits' = [credits EXCEPT ![o] = @ + 1]
  BY DEF CreditPaidOrder, MarkOrderPaid, CreditedExactlyOnce
<1>3. CreditedExactlyOnce'
  BY <1>1, <1>2 DEF RowsTypeOK, CreditedExactlyOnce
<1>4. RowsTypeOK'
  BY <1>1 DEF CreditPaidOrder, MarkOrderPaid, RowsTypeOK, OrderStates, walletVars, poolVars, memberVars, usedVars, invoiceVars
<1>5. LedgerBalanced'
  BY <1>1 DEF CreditPaidOrder, MarkOrderPaid, RowsTypeOK, LedgerBalanced, walletVars, poolVars
<1>6. QED
  BY <1>3, <1>4, <1>5

\* CreditPaidOrderToWorkspace: pending to paid, the pool and its top-up row together.
LEMMA CreditPaidOrderToWorkspaceKeeps ==
  ASSUME MoneyInv, NEW o \in Order, NEW w \in Workspace, CreditPaidOrderToWorkspace(o, w)
  PROVE  MoneyInv'
<1> USE DEF MoneyInv
<1>1. RowsTypeOK /\ Usd[o] \in Nat
  BY StoreAssumption
<1>2. /\ ordStatus[o] = "pending" /\ credits[o] = 0
      /\ ordStatus' = [ordStatus EXCEPT ![o] = "paid"]
      /\ credits' = [credits EXCEPT ![o] = @ + 1]
  BY DEF CreditPaidOrderToWorkspace, MarkOrderPaid, CreditedExactlyOnce
<1>3. CreditedExactlyOnce'
  BY <1>1, <1>2 DEF RowsTypeOK, CreditedExactlyOnce
<1>4. RowsTypeOK'
  BY <1>1 DEF CreditPaidOrderToWorkspace, MarkOrderPaid, RowsTypeOK, OrderStates, walletVars, poolVars, memberVars, usedVars, invoiceVars
<1>5. LedgerBalanced'
  BY <1>1 DEF CreditPaidOrderToWorkspace, MarkOrderPaid, RowsTypeOK, LedgerBalanced, walletVars, poolVars
<1>6. QED
  BY <1>3, <1>4, <1>5

\* CloseOrders: the expiry, sweep or cancellation of pending orders, none credited.
LEMMA CloseOrdersKeeps ==
  ASSUME MoneyInv, NEW S \in SUBSET Order, NEW st \in {"expired", "deleted"}, CloseOrders(S, st)
  PROVE  MoneyInv'
  BY StoreAssumption DEF CloseOrders, MoneyInv, RowsTypeOK, LedgerBalanced, CreditedExactlyOnce, OrderStates,
     walletVars, poolVars, memberVars, usedVars, orderVars, invoiceVars

\* CreateWorkspace: a new workspace row with an empty pool.
LEMMA CreateWorkspaceKeeps ==
  ASSUME MoneyInv, NEW w \in Workspace, CreateWorkspace(w)
  PROVE  MoneyInv'
  BY StoreAssumption DEF CreateWorkspace, MoneyInv, RowsTypeOK, LedgerBalanced, CreditedExactlyOnce, OrderStates,
     walletVars, poolVars, memberVars, usedVars, orderVars, invoiceVars

\* SetWorkspaceDisabled: the disabled flag of a workspace.
LEMMA SetWorkspaceDisabledKeeps ==
  ASSUME MoneyInv, NEW w \in Workspace, NEW off \in BOOLEAN, SetWorkspaceDisabled(w, off)
  PROVE  MoneyInv'
  BY StoreAssumption DEF SetWorkspaceDisabled, MoneyInv, RowsTypeOK, LedgerBalanced, CreditedExactlyOnce, OrderStates,
     walletVars, poolVars, memberVars, usedVars, orderVars, invoiceVars

\* AdjustWorkspaceBalance: a signed change of a pool with its workspace_tx row.
LEMMA AdjustWorkspaceBalanceKeeps ==
  ASSUME MoneyInv, NEW w \in Workspace, NEW d \in Int, AdjustWorkspaceBalance(w, d)
  PROVE  MoneyInv'
  BY StoreAssumption DEF AdjustWorkspaceBalance, MoneyInv, RowsTypeOK, LedgerBalanced, CreditedExactlyOnce, OrderStates,
     walletVars, poolVars, memberVars, usedVars, orderVars, invoiceVars

\* AddMember: a member row, in a workspace that has a row.
LEMMA AddMemberKeeps ==
  ASSUME MoneyInv, NEW w \in Workspace, NEW t \in Token, NEW r \in BOOLEAN, NEW day \in Nat, NEW month \in Nat, AddMember(w, t, r, day, month)
  PROVE  MoneyInv'
  BY StoreAssumption DEF AddMember, MoneyInv, RowsTypeOK, LedgerBalanced, CreditedExactlyOnce, OrderStates,
     walletVars, poolVars, memberVars, usedVars, orderVars, invoiceVars

\* UpdateMemberRole: the role of a member.
LEMMA UpdateMemberRoleKeeps ==
  ASSUME MoneyInv, NEW t \in Token, NEW r \in BOOLEAN, UpdateMemberRole(t, r)
  PROVE  MoneyInv'
  BY StoreAssumption DEF UpdateMemberRole, MoneyInv, RowsTypeOK, LedgerBalanced, CreditedExactlyOnce, OrderStates,
     walletVars, poolVars, memberVars, usedVars, orderVars, invoiceVars

\* UpdateMemberDayCap: the daily cap of a member.
LEMMA UpdateMemberDayCapKeeps ==
  ASSUME MoneyInv, NEW t \in Token, NEW c \in Nat, UpdateMemberDayCap(t, c)
  PROVE  MoneyInv'
  BY StoreAssumption DEF UpdateMemberDayCap, MoneyInv, RowsTypeOK, LedgerBalanced, CreditedExactlyOnce, OrderStates,
     walletVars, poolVars, memberVars, usedVars, orderVars, invoiceVars

\* UpdateMemberMonthCap: the monthly cap of a member.
LEMMA UpdateMemberMonthCapKeeps ==
  ASSUME MoneyInv, NEW t \in Token, NEW c \in Nat, UpdateMemberMonthCap(t, c)
  PROVE  MoneyInv'
  BY StoreAssumption DEF UpdateMemberMonthCap, MoneyInv, RowsTypeOK, LedgerBalanced, CreditedExactlyOnce, OrderStates,
     walletVars, poolVars, memberVars, usedVars, orderVars, invoiceVars

\* RemoveMember: the deletion of a member row.
LEMMA RemoveMemberKeeps ==
  ASSUME MoneyInv, NEW t \in Token, RemoveMember(t)
  PROVE  MoneyInv'
  BY StoreAssumption DEF RemoveMember, MoneyInv, RowsTypeOK, LedgerBalanced, CreditedExactlyOnce, OrderStates,
     walletVars, poolVars, memberVars, usedVars, orderVars, invoiceVars

\* DayStart: a new day, with its month or without.
LEMMA DayStartKeeps ==
  ASSUME MoneyInv, NEW first \in BOOLEAN, DayStart(first)
  PROVE  MoneyInv'
  BY StoreAssumption DEF DayStart, MoneyInv, RowsTypeOK, LedgerBalanced, CreditedExactlyOnce, OrderStates,
     walletVars, poolVars, memberVars, usedVars, orderVars, invoiceVars

\* ChargeMemberFirst: a charge split between pool and wallet, each part with its row.
LEMMA ChargeMemberFirstKeeps ==
  ASSUME MoneyInv, NEW t \in Token, NEW cost \in Nat, ChargeMemberFirst(t, cost)
  PROVE  MoneyInv'
<1> USE DEF MoneyInv
<1> DEFINE w == member[t]
           fromPool == Lesser(cost, MemberPoolAvail(t))
           personal == cost - fromPool
<1>1. RowsTypeOK /\ MemberPoolAvail(t) \in Nat
  BY PoolAvail
<1>2. fromPool \in Nat /\ personal \in Nat
  BY <1>1 DEF Lesser
<1>3. /\ personal > 0 => t \in wallets
      /\ balance'   = [balance EXCEPT ![t] = @ - personal]
      /\ walletTx'  = [walletTx EXCEPT ![t] = @ - personal]
      /\ pool'      = [v \in Workspace |-> IF v = w THEN pool[v] - fromPool ELSE pool[v]]
      /\ poolTx'    = [v \in Workspace |-> IF v = w THEN poolTx[v] - fromPool ELSE poolTx[v]]
      /\ usedDay'   = [usedDay EXCEPT ![t] = @ + fromPool]
      /\ usedMonth' = [usedMonth EXCEPT ![t] = @ + fromPool]
      /\ UNCHANGED <<wallets, workspaces, disabled, memberVars, orderVars, invoiceVars>>
  BY DEF ChargeMemberFirst
<1> HIDE DEF w, fromPool, personal
<1>4. RowsTypeOK'
  BY <1>1, <1>2, <1>3 DEF RowsTypeOK, memberVars, orderVars, invoiceVars
<1>5. LedgerBalanced'
  BY <1>1, <1>2, <1>3 DEF RowsTypeOK, LedgerBalanced
<1>6. CreditedExactlyOnce'
  BY <1>3 DEF CreditedExactlyOnce, orderVars
<1>7. QED
  BY <1>4, <1>5, <1>6

\* Moving a sum from a token to another keeps it a function into Nat.
LEMMA MoveSumNat ==
  ASSUME NEW f \in [Token -> Nat], NEW old \in Token, NEW new \in Token
  PROVE  MoveSum(f, old, new) \in [Token -> Nat]
<1>1. f[new] + f[old] \in Nat
  OBVIOUS
<1>2. QED
  BY <1>1 DEF MoveSum

\* RekeyToken: every row moves, so the sums of the old token end up with
\* the new one and none are left behind.
LEMMA RekeyTokenKeeps ==
  ASSUME MoneyInv, NEW old \in Token, NEW new \in Token, RekeyToken(old, new)
  PROVE  MoneyInv'
<1> USE DEF MoneyInv, RekeyToken
<1>1. RowsTypeOK'
  <2>1. /\ invoice' \in [Invoice -> [status : InvoiceStates, token : Token,
                                     ws : workspaces \cup {NoWorkspace}, cny : Nat]]
        /\ titles' \subseteq Token
    BY DEF RowsTypeOK, RekeyInvoices, Renamed
  <2>2. /\ wallets' \subseteq Token
        /\ balance' \in [Token -> Int] /\ walletTx' \in [Token -> Int]
    BY DEF RowsTypeOK, RekeyWallets, MoveSum
  <2>3. /\ member' \in [Token -> workspaces \cup {NoWorkspace}]
        /\ dayCap' \in [Token -> Nat] /\ monthCap' \in [Token -> Nat]
    BY DEF RowsTypeOK, RekeyMembers
  <2>4. usedDay' \in [Token -> Nat] /\ usedMonth' \in [Token -> Nat]
    BY MoveSumNat DEF RowsTypeOK, RekeyMembers
  <2>5. /\ ordToken' \in [Order -> Token]
        /\ creditTo' \in [Order -> Token \cup Workspace \cup {NoOwner}]
    BY DEF RowsTypeOK, RekeyOrders, Renamed
  <2>6. UNCHANGED <<poolVars, ordStatus, ordWs, credits>>
    BY DEF RekeyMembers, RekeyOrders
  <2>7. admins' \subseteq Token
    BY DEF RowsTypeOK, RekeyMembers, Renamed
  <2>8. QED
    BY <2>1, <2>2, <2>3, <2>4, <2>5, <2>6, <2>7 DEF RowsTypeOK, poolVars
<1>2. LedgerBalanced'
  BY DEF RowsTypeOK, LedgerBalanced, RekeyWallets, RekeyMembers, MoveSum, poolVars
<1>3. CreditedExactlyOnce'
  BY DEF CreditedExactlyOnce, RekeyOrders
<1>4. QED
  BY <1>1, <1>2, <1>3

\* The invoice operations touch no money and write well-typed rows.
LEMMA InvoiceOpsKeep ==
  ASSUME MoneyInv, InvoiceOps
  PROVE  MoneyInv'
<1>1. UNCHANGED <<walletVars, poolVars, memberVars, usedVars, orderVars>>
  BY DEF InvoiceOps, CreateInvoice, CreateWorkspaceInvoice, FileInvoice,
     MarkInvoiceIssued, MarkInvoiceRejected, CloseInvoice
<1> DEFINE InvoiceRowsOK ==
  /\ invoice' \in [Invoice -> [status : InvoiceStates, token : Token,
                               ws : workspaces \cup {NoWorkspace}, cny : Nat]]
  /\ titles' \subseteq Token
<1>2. InvoiceRowsOK
  <2> USE DEF MoneyInv, RowsTypeOK, InvoiceStates
  <2> PICK i \in Invoice :
        \/ \E t \in Token, cny \in Claims : CreateInvoice(i, t, cny)
        \/ \E t \in Token, w \in workspaces, cny \in Claims : CreateWorkspaceInvoice(i, w, t, cny)
        \/ MarkInvoiceIssued(i)
        \/ MarkInvoiceRejected(i)
    BY DEF InvoiceOps
  <2>1. ASSUME NEW t \in Token, NEW cny \in Claims, NEW w \in workspaces \cup {NoWorkspace},
               NEW shares, FileInvoice(i, t, w, cny, shares)
        PROVE  InvoiceRowsOK
    BY <2>1, StoreAssumption DEF FileInvoice
  <2>2. CASE \E t \in Token, cny \in Claims : CreateInvoice(i, t, cny)
    BY <2>1, <2>2 DEF CreateInvoice
  <2>3. CASE \E t \in Token, w \in workspaces, cny \in Claims : CreateWorkspaceInvoice(i, w, t, cny)
    BY <2>1, <2>3 DEF CreateWorkspaceInvoice
  <2>4. CASE MarkInvoiceIssued(i) \/ MarkInvoiceRejected(i)
    BY <2>4 DEF MarkInvoiceIssued, MarkInvoiceRejected, CloseInvoice
  <2>5. QED
    BY <2>2, <2>3, <2>4
<1>3. QED
  BY <1>1, <1>2 DEF MoneyInv, RowsTypeOK, LedgerBalanced, CreditedExactlyOnce,
     walletVars, poolVars, memberVars, usedVars, orderVars

\* Any operation of the store, by the lemmas above.
LEMMA StoreNextKeeps ==
  ASSUME MoneyInv, StoreNext
  PROVE  MoneyInv'
<1>1. CASE WalletOps
  BY <1>1, StoreAssumption, EnsureWalletKeeps, AddBalanceKeeps, ChargeMemberFirstKeeps, RekeyTokenKeeps
     DEF WalletOps
<1>2. CASE OrderOps
  <2>1. \A o \in Order : ordWs[o] # NoWorkspace => ordWs[o] \in Workspace
    BY DEF MoneyInv, RowsTypeOK
  <2>2. ASSUME NEW o \in Order, CreditPaidOrderToWorkspace(o, ordWs[o])
        PROVE  MoneyInv'
    BY <2>1, <2>2, StoreAssumption, CreditPaidOrderToWorkspaceKeeps
       DEF CreditPaidOrderToWorkspace, MoneyInv, RowsTypeOK
  <2>3. \A o \in Order : ordToken[o] \in Token
    BY DEF MoneyInv, RowsTypeOK
  <2>4. ASSUME NEW o \in Order, MarkOrderExpired(o) \/ DeletePendingOrder(o, ordToken[o])
        PROVE  MoneyInv'
    BY <2>4, CloseOrdersKeeps DEF MarkOrderExpired, DeletePendingOrder
  <2>5. QED
    BY <1>2, <2>2, <2>3, <2>4, CreateOrderKeeps, CreditPaidOrderKeeps, CloseOrdersKeeps
       DEF OrderOps, ExpirePendingOrdersBefore
<1>3. CASE WorkspaceOps
  BY <1>3, StoreAssumption, CreateWorkspaceKeeps, SetWorkspaceDisabledKeeps,
     AdjustWorkspaceBalanceKeeps, DayStartKeeps DEF WorkspaceOps
<1>4. CASE MemberOps
  BY <1>4, StoreAssumption, AddMemberKeeps, UpdateMemberRoleKeeps, UpdateMemberDayCapKeeps,
     UpdateMemberMonthCapKeeps, RemoveMemberKeeps DEF MemberOps
<1>5. CASE InvoiceOps
  BY <1>5, InvoiceOpsKeep
<1>6. QED
  BY <1>1, <1>2, <1>3, <1>4, <1>5 DEF StoreNext

\* A step outside the store.
LEMMA StutterKeeps ==
  ASSUME MoneyInv, UNCHANGED storeVars
  PROVE  MoneyInv'
  BY DEF storeVars, MoneyInv, RowsTypeOK, LedgerBalanced, CreditedExactlyOnce

\* Types, ledgers and credits hold together in every run of any callers of
\* the store: the inductive invariant of the theorems below.
THEOREM MoneyInvariant == StoreSpec => []MoneyInv
<1>1. StoreInit => MoneyInv
  BY InitMoney
<1>2. MoneyInv /\ [StoreNext]_storeVars => MoneyInv'
  BY StoreNextKeeps, StutterKeeps
<1>3. QED
  BY <1>1, <1>2, PTL DEF StoreSpec

(***************************************************************************)
(* For any set of tokens, workspaces and orders, every balance is the sum  *)
(* of its ledger: credits, charges split between pool and wallet,          *)
(* adjustments and rotations keep the two together.                        *)
(***************************************************************************)
THEOREM LedgersBalance == StoreSpec => []LedgerBalanced
  BY MoneyInvariant, PTL DEF MoneyInv

(***************************************************************************)
(* However often and from wherever a payment is reported, its order is     *)
(* credited once, and only an order that is paid has been credited.        *)
(***************************************************************************)
THEOREM OrdersCreditedOnce == StoreSpec => []CreditedExactlyOnce
  BY MoneyInvariant, PTL DEF MoneyInv

(***************************************************************************)
(* The end states of orders and invoices.                                  *)
(***************************************************************************)
FinalKept ==
  /\ \A o \in Order : ordStatus[o] \in {"paid", "expired", "deleted"} =>
       ordStatus'[o] = ordStatus[o]
  /\ \A i \in Invoice : invoice[i].status \in {"issued", "rejected"} =>
       invoice'[i].status = invoice[i].status

\* Filing takes an unused id, issuing and rejecting a pending row; no order
\* is touched.
LEMMA InvoiceOpsFinal ==
  ASSUME RowsTypeOK, InvoiceOps
  PROVE  FinalKept
<1>1. ordStatus' = ordStatus
  BY DEF InvoiceOps, CreateInvoice, CreateWorkspaceInvoice, FileInvoice, MarkInvoiceIssued,
     MarkInvoiceRejected, CloseInvoice, orderVars
<1>2. PICK i \in Invoice :
        /\ invoice[i].status \in {"absent", "pending"}
        /\ \E row : invoice' = [invoice EXCEPT ![i] = row]
  BY DEF RowsTypeOK, InvoiceOps, CreateInvoice, CreateWorkspaceInvoice, FileInvoice,
     MarkInvoiceIssued, MarkInvoiceRejected, CloseInvoice
<1>3. QED
  BY <1>1, <1>2 DEF RowsTypeOK, FinalKept

\* A rotation renames the tokens in the rows, not their status.
LEMMA RekeyFinal ==
  ASSUME RowsTypeOK, NEW old \in Token, NEW new \in Token, RekeyToken(old, new)
  PROVE  FinalKept
  BY DEF RowsTypeOK, FinalKept, RekeyToken, RekeyOrders, RekeyInvoices

\* The rest: no invoice is touched, and an order changes only when it is
\* absent or pending.
LEMMA OtherOpsFinal ==
  ASSUME RowsTypeOK, StoreNext, ~InvoiceOps,
         \A old, new \in Token : ~RekeyToken(old, new)
  PROVE  FinalKept
<1>1. UNCHANGED invoice
  BY DEF StoreNext, WalletOps, OrderOps, WorkspaceOps, MemberOps, EnsureWallet, AddBalance,
     ChargeMemberFirst, CreateOrder, CreditPaidOrder, CreditPaidOrderToWorkspace, CloseOrders,
     MarkOrderExpired, DeletePendingOrder, ExpirePendingOrdersBefore, CreateWorkspace,
     SetWorkspaceDisabled, AdjustWorkspaceBalance, DayStart, AddMember, UpdateMemberRole,
     UpdateMemberDayCap, UpdateMemberMonthCap, RemoveMember, invoiceVars
<1>2. \/ UNCHANGED ordStatus
      \/ \E o \in Order, st \in OrderStates :
           ordStatus[o] \in {"absent", "pending"} /\ ordStatus' = [ordStatus EXCEPT ![o] = st]
      \/ \E S \in SUBSET Order, st \in {"expired", "deleted"} : CloseOrders(S, st)
  BY DEF StoreNext, WalletOps, OrderOps, WorkspaceOps, MemberOps, EnsureWallet, AddBalance,
     ChargeMemberFirst, CreateOrder, CreditPaidOrder, CreditPaidOrderToWorkspace, MarkOrderPaid,
     MarkOrderExpired, DeletePendingOrder, ExpirePendingOrdersBefore, CreateWorkspace,
     SetWorkspaceDisabled, AdjustWorkspaceBalance, DayStart, AddMember, UpdateMemberRole,
     UpdateMemberDayCap, UpdateMemberMonthCap, RemoveMember, orderVars, OrderStates
<1>3. QED
  BY <1>1, <1>2 DEF RowsTypeOK, FinalKept, CloseOrders

(***************************************************************************)
(* Paid, expired and deleted orders and issued and rejected invoices stay  *)
(* what they are, in every run of any callers.                             *)
(***************************************************************************)
THEOREM EndStatesStay == StoreSpec => EndStatesAreFinal
<1>1. ASSUME MoneyInv, [StoreNext]_storeVars
      PROVE  FinalKept \/ UNCHANGED storeVars
  BY <1>1, InvoiceOpsFinal, RekeyFinal, OtherOpsFinal DEF MoneyInv
<1>2. MoneyInv /\ [StoreNext]_storeVars => [FinalKept]_storeVars
  BY <1>1
<1>3. QED
  BY <1>2, MoneyInvariant, PTL DEF StoreSpec, EndStatesAreFinal, FinalKept

(***************************************************************************)
(* The limits of a pool charge.                                            *)
(***************************************************************************)
LimitsKept ==
  \A t \in Token : IsPoolCharge(t) =>
    /\ dayCap[t] > 0 => usedDay'[t] <= dayCap[t]
    /\ monthCap[t] > 0 => usedMonth'[t] <= monthCap[t]
    /\ member[t] \in workspaces \ disabled
    /\ pool'[member[t]] >= 0

\* ChargeMemberFirst takes no more from the pool than MemberPoolAvail offers.
LEMMA ChargeLimits ==
  ASSUME RowsTypeOK, NEW t \in Token, NEW cost \in Nat, ChargeMemberFirst(t, cost)
  PROVE  LimitsKept
<1> DEFINE avail == MemberPoolAvail(t)
           fromPool == Lesser(cost, avail)
<1>1. fromPool \in Nat /\ fromPool <= avail /\ avail \in Nat
  BY PoolAvail DEF Lesser
<1>2. /\ pool'      = [v \in Workspace |-> IF v = member[t] THEN pool[v] - fromPool ELSE pool[v]]
      /\ usedDay'   = [usedDay EXCEPT ![t] = @ + fromPool]
      /\ usedMonth' = [usedMonth EXCEPT ![t] = @ + fromPool]
  BY DEF ChargeMemberFirst
<1>3. avail > 0 => /\ member[t] \in workspaces \ disabled
                   /\ avail <= pool[member[t]]
                   /\ dayCap[t] > 0 => avail <= dayCap[t] - usedDay[t]
                   /\ monthCap[t] > 0 => avail <= monthCap[t] - usedMonth[t]
  BY PoolAvail
<1> HIDE DEF avail, fromPool
<1>4. SUFFICES ASSUME NEW s \in Token, IsPoolCharge(s)
               PROVE  /\ dayCap[s] > 0 => usedDay'[s] <= dayCap[s]
                      /\ monthCap[s] > 0 => usedMonth'[s] <= monthCap[s]
                      /\ member[s] \in workspaces \ disabled
                      /\ pool'[member[s]] >= 0
  BY DEF LimitsKept
<1>5. s = t /\ fromPool > 0 /\ avail > 0
  BY <1>1, <1>2, <1>4 DEF IsPoolCharge, RowsTypeOK
<1>6. QED
  BY <1>1, <1>2, <1>3, <1>5 DEF RowsTypeOK

\* A new day adds to no rollup.
LEMMA DayStartNoCharge ==
  ASSUME RowsTypeOK, NEW first \in BOOLEAN, DayStart(first), NEW t \in Token
  PROVE  ~IsPoolCharge(t)
  BY DEF RowsTypeOK, DayStart, IsPoolCharge

\* A rotation adds to the new token what it takes from the old one, so it is
\* not mistaken for a charge.
LEMMA RekeyNoCharge ==
  ASSUME RowsTypeOK, NEW old \in Token, NEW new \in Token, RekeyToken(old, new), NEW t \in Token
  PROVE  ~IsPoolCharge(t)
<1>1. /\ old # new
      /\ usedMonth' = [usedMonth EXCEPT ![new] = usedMonth[new] + usedMonth[old], ![old] = 0]
  BY DEF RekeyToken, RekeyMembers, MoveSum
<1>2. \A s \in Token : usedMonth[s] \in Nat
  BY DEF RowsTypeOK
<1>3. ASSUME usedMonth'[t] > usedMonth[t]
      PROVE  t = new /\ usedMonth[old] > 0 /\ usedMonth'[old] = 0
  BY <1>1, <1>2, <1>3 DEF RowsTypeOK
<1>4. SUFFICES ASSUME IsPoolCharge(t) PROVE FALSE
  OBVIOUS
<1>5. t = new /\ usedMonth[old] > 0 /\ usedMonth'[old] = 0
  BY <1>3, <1>4 DEF IsPoolCharge
<1>6. usedMonth'[old] = usedMonth[old]
  BY <1>1, <1>4, <1>5 DEF IsPoolCharge
<1>7. QED
  BY <1>2, <1>5, <1>6

\* No other operation touches the rollups.
LEMMA OtherOpsNoCharge ==
  ASSUME RowsTypeOK, StoreNext,
         \A first \in BOOLEAN : ~DayStart(first),
         \A old, new \in Token : ~RekeyToken(old, new),
         \A t \in Token, cost \in Costs : ~ChargeMemberFirst(t, cost)
  PROVE  UNCHANGED usedMonth
  BY DEF StoreNext, WalletOps, OrderOps, WorkspaceOps, MemberOps, InvoiceOps, EnsureWallet,
     AddBalance, CreateOrder, CreditPaidOrder, CreditPaidOrderToWorkspace, CloseOrders,
     MarkOrderExpired, DeletePendingOrder, ExpirePendingOrdersBefore, CreateWorkspace,
     SetWorkspaceDisabled, AdjustWorkspaceBalance, AddMember, UpdateMemberRole,
     UpdateMemberDayCap, UpdateMemberMonthCap, RemoveMember, CreateInvoice,
     CreateWorkspaceInvoice, FileInvoice, MarkInvoiceIssued, MarkInvoiceRejected,
     CloseInvoice, usedVars

(***************************************************************************)
(* Whatever order charges, cap changes, moves between workspaces, days and *)
(* rotations come in, a charge stays within the caps in force and within   *)
(* an enabled pool.                                                        *)
(***************************************************************************)
THEOREM ChargesStayWithinLimits == StoreSpec => ChargeWithinLimits
<1>1. ASSUME MoneyInv, StoreNext
      PROVE  LimitsKept
  <2>1. RowsTypeOK
    BY <1>1 DEF MoneyInv
  <2>2. CASE \E t \in Token, cost \in Costs : ChargeMemberFirst(t, cost)
    BY <2>1, <2>2, ChargeLimits, StoreAssumption
  <2>3. CASE \E first \in BOOLEAN : DayStart(first)
    BY <2>1, <2>3, DayStartNoCharge DEF LimitsKept
  <2>4. CASE \E old, new \in Token : RekeyToken(old, new)
    BY <2>1, <2>4, RekeyNoCharge DEF LimitsKept
  <2>5. CASE UNCHANGED usedMonth
    BY <2>1, <2>5 DEF LimitsKept, IsPoolCharge, RowsTypeOK
  <2>6. QED
    BY <1>1, <2>1, <2>2, <2>3, <2>4, <2>5, OtherOpsNoCharge
<1>2. MoneyInv /\ [StoreNext]_storeVars => [LimitsKept]_storeVars
  BY <1>1
<1>3. QED
  BY <1>2, MoneyInvariant, PTL DEF StoreSpec, ChargeWithinLimits, LimitsKept
-----------------------------------------------------------------------------
(***************************************************************************)
(* What the invoices claim.                                                *)
(***************************************************************************)
Face == [i \in Invoice |-> invoice[i].cny]
SharesOf(t) == [i \in Invoice |-> alloc[i][t]]
Claims0 == {i \in Invoice : Claiming(i)}

\* The sums of invoices.go are natural numbers.
LEMMA ClaimsType ==
  ASSUME StoreTypeOK, NEW t \in Token
  PROVE  /\ PaidOrders(t) \in SUBSET Order /\ IsFiniteSet(PaidOrders(t))
         /\ PersonalClaims(t) \in SUBSET Invoice /\ IsFiniteSet(PersonalClaims(t))
         /\ Claims0 \in SUBSET Invoice /\ IsFiniteSet(Claims0)
         /\ \A o \in Order : Cny[o] \in Nat
         /\ \A i \in Invoice : Face[i] \in Nat /\ SharesOf(t)[i] \in Nat
         /\ PaidCNY(t) \in Nat /\ PersonalCNY(t) \in Nat /\ SharesCNY(t) \in Nat
         /\ ClaimedCNY(t) \in Nat /\ AvailableCNY(t) \in Nat
<1>1. /\ PaidOrders(t) \in SUBSET Order /\ IsFiniteSet(PaidOrders(t))
      /\ PersonalClaims(t) \in SUBSET Invoice /\ IsFiniteSet(PersonalClaims(t))
      /\ Claims0 \in SUBSET Invoice /\ IsFiniteSet(Claims0)
  BY FiniteStore, FS_Subset DEF PaidOrders, PersonalClaims, Claims0
<1>2. \A o \in Order : Cny[o] \in Nat
  BY StoreAssumption
<1>3. \A i \in Invoice : Face[i] \in Nat /\ SharesOf(t)[i] \in Nat
  BY DEF StoreTypeOK, RowsTypeOK, Face, SharesOf
<1>4. PaidCNY(t) \in Nat
  BY <1>1, <1>2, SumNat DEF PaidCNY
<1>5. PersonalCNY(t) \in Nat
  BY <1>1, <1>3, SumNat DEF PersonalCNY, Face
<1>6. SharesCNY(t) \in Nat
  BY <1>1, <1>3, SumNat DEF SharesCNY, SharesOf, Claims0
<1>7. QED
  BY <1>1, <1>2, <1>3, <1>4, <1>5, <1>6 DEF ClaimedCNY, AvailableCNY

\* The same of the sums after a step.
SumsOK == \A t \in Token : PaidCNY(t) \in Nat /\ PersonalCNY(t) \in Nat /\ SharesCNY(t) \in Nat

LEMMA ClaimsTypeNext == StoreTypeOK' => SumsOK'
<1>1. StoreTypeOK => SumsOK
  BY ClaimsType DEF SumsOK
<1>2. QED
  BY <1>1, PTL

\* What is available has not been claimed.
LEMMA AvailableUnclaimed ==
  ASSUME StoreTypeOK, NEW t \in Token, ClaimedCNY(t) <= PaidCNY(t)
  PROVE  ClaimedCNY(t) + AvailableCNY(t) = PaidCNY(t)
  BY ClaimsType DEF AvailableCNY

ClaimsInv == StoreTypeOK /\ NeverOverInvoiced /\ SharesMakeFaceValue

\* Filing adds the face value to the applicant's personal claims or the
\* shares to everybody's.
LEMMA FilingClaims ==
  ASSUME StoreTypeOK, StoreTypeOK', NEW i \in Invoice, NEW t \in Token,
         NEW w \in workspaces \cup {NoWorkspace}, NEW cny \in Nat, NEW shares \in [Token -> Nat],
         FileInvoice(i, t, w, cny, shares), NEW u \in Token
  PROVE  /\ PaidCNY(u)' = PaidCNY(u)
         /\ ClaimedCNY(u)' = ClaimedCNY(u) + shares[u]
                               + (IF u = t /\ w = NoWorkspace THEN cny ELSE 0)
<1>1. /\ invoice[i].status = "absent"
      /\ invoice' = [invoice EXCEPT ![i] = [status |-> "pending", token |-> t, ws |-> w, cny |-> cny]]
      /\ alloc' = [alloc EXCEPT ![i] = shares]
      /\ UNCHANGED <<ordStatus, ordToken>>
  BY DEF FileInvoice, orderVars
<1>2. PaidCNY(u)' = PaidCNY(u)
  BY <1>1 DEF PaidCNY, PaidOrders
<1>3. /\ invoice'[i] = [status |-> "pending", token |-> t, ws |-> w, cny |-> cny]
      /\ \A j \in Invoice \ {i} : invoice'[j] = invoice[j]
      /\ alloc'[i] = shares
      /\ \A j \in Invoice \ {i} : alloc'[j] = alloc[j]
  BY <1>1 DEF StoreTypeOK, RowsTypeOK
<1>4. Claims0' = Claims0 \cup {i} /\ i \notin Claims0
  BY <1>1, <1>3 DEF Claims0, Claiming
<1>5. SharesCNY(u)' = SharesCNY(u) + shares[u]
  <2>0. \A j \in Claims0 : j \in Invoice \ {i} /\ alloc'[j] = alloc[j] /\ alloc[j][u] \in Nat
    BY <1>3, <1>4 DEF Claims0, StoreTypeOK
  <2>1. \A j \in Claims0 : SharesOf(u)'[j] \in Int /\ SharesOf(u)'[j] = SharesOf(u)[j]
    BY <2>0 DEF SharesOf
  <2>2. SumFunctionOnSet(SharesOf(u)', Claims0) = SharesCNY(u)
    BY <2>1, ClaimsType, SumSame DEF SharesCNY, SharesOf, Claims0
  <2>3. SharesOf(u)'[i] = shares[u]
    BY <1>3 DEF SharesOf
  <2>4. \A j \in Claims0 \cup {i} : SharesOf(u)'[j] \in Int
    BY <2>1, <2>3
  <2>5. SumFunctionOnSet(SharesOf(u)', Claims0 \cup {i})
          = SharesOf(u)'[i] + SumFunctionOnSet(SharesOf(u)', Claims0)
    BY <1>4, <2>4, ClaimsType, SumInsert
  <2>6. SharesCNY(u)' = SumFunctionOnSet(SharesOf(u)', Claims0')
    BY DEF SharesCNY, SharesOf, Claims0
  <2>7. SharesCNY(u) \in Nat
    BY ClaimsType
  <2> QED BY <1>4, <2>2, <2>3, <2>5, <2>6, <2>7
<1>6. PersonalClaims(u)' = PersonalClaims(u) \cup (IF u = t /\ w = NoWorkspace THEN {i} ELSE {})
      /\ i \notin PersonalClaims(u)
  BY <1>1, <1>3 DEF PersonalClaims, Claiming
<1>7. PersonalCNY(u)' = PersonalCNY(u) + (IF u = t /\ w = NoWorkspace THEN cny ELSE 0)
  <2>0. \A j \in PersonalClaims(u) :
          j \in Invoice \ {i} /\ invoice'[j] = invoice[j] /\ invoice[j].cny \in Nat
    BY <1>3, <1>6 DEF PersonalClaims, StoreTypeOK, RowsTypeOK
  <2>1. \A j \in PersonalClaims(u) : Face'[j] \in Int /\ Face'[j] = Face[j]
    BY <2>0 DEF Face
  <2>2. SumFunctionOnSet(Face', PersonalClaims(u)) = PersonalCNY(u)
    BY <2>1, ClaimsType, SumSame DEF PersonalCNY, Face
  <2>3. Face'[i] = cny
    BY <1>3 DEF Face
  <2>4. \A j \in PersonalClaims(u) \cup {i} : Face'[j] \in Int
    BY <2>1, <2>3
  <2>5. SumFunctionOnSet(Face', PersonalClaims(u) \cup {i})
          = Face'[i] + SumFunctionOnSet(Face', PersonalClaims(u))
    BY <1>6, <2>4, ClaimsType, SumInsert
  <2>6. PersonalCNY(u)' = SumFunctionOnSet(Face', PersonalClaims(u)')
    BY DEF PersonalCNY, Face
  <2>7. PersonalCNY(u) \in Nat
    BY ClaimsType
  <2> QED BY <1>6, <2>2, <2>3, <2>5, <2>6, <2>7
<1>8. /\ ClaimedCNY(u)' = PersonalCNY(u)' + SharesCNY(u)'
      /\ ClaimedCNY(u) = PersonalCNY(u) + SharesCNY(u)
      /\ PersonalCNY(u) \in Nat /\ SharesCNY(u) \in Nat
  BY ClaimsType DEF ClaimedCNY
<1>9. QED
  BY <1>2, <1>5, <1>7, <1>8

\* Shares no larger than what everybody has available, which add up to the
\* face value of a team invoice, keep the promises.
LEMMA FilingKeeps ==
  ASSUME ClaimsInv, StoreTypeOK', NEW i \in Invoice, NEW t \in Token,
         NEW w \in workspaces \cup {NoWorkspace}, NEW cny \in Nat, NEW shares \in [Token -> Nat],
         FileInvoice(i, t, w, cny, shares),
         \A u \in Token : shares[u] + (IF u = t /\ w = NoWorkspace THEN cny ELSE 0) <= AvailableCNY(u),
         w # NoWorkspace => SumFunctionOnSet(shares, Token) = cny
  PROVE  ClaimsInv'
<1>1. NeverOverInvoiced'
  <2> SUFFICES ASSUME NEW u \in Token PROVE ClaimedCNY(u)' <= PaidCNY(u)'
    BY DEF NeverOverInvoiced
  <2>1. /\ PaidCNY(u)' = PaidCNY(u)
        /\ ClaimedCNY(u)' = ClaimedCNY(u) + shares[u]
                              + (IF u = t /\ w = NoWorkspace THEN cny ELSE 0)
    BY FilingClaims DEF ClaimsInv
  <2>2. ClaimedCNY(u) + AvailableCNY(u) = PaidCNY(u)
    BY AvailableUnclaimed DEF ClaimsInv, NeverOverInvoiced
  <2>3. ClaimedCNY(u) \in Nat /\ AvailableCNY(u) \in Nat /\ shares[u] \in Nat
    BY ClaimsType DEF ClaimsInv
  <2> QED BY <2>1, <2>2, <2>3
<1>2. SharesMakeFaceValue'
  <2>1. /\ invoice' = [invoice EXCEPT ![i] = [status |-> "pending", token |-> t, ws |-> w, cny |-> cny]]
        /\ alloc' = [alloc EXCEPT ![i] = shares]
    BY DEF FileInvoice
  <2>2. /\ invoice'[i].ws = w /\ invoice'[i].cny = cny /\ alloc'[i] = shares
        /\ \A j \in Invoice \ {i} : invoice'[j] = invoice[j] /\ alloc'[j] = alloc[j]
    BY <2>1 DEF ClaimsInv, StoreTypeOK, RowsTypeOK
  <2>3. ASSUME NEW j \in Invoice, invoice'[j].status # "absent", invoice'[j].ws # NoWorkspace
        PROVE  SumFunctionOnSet(alloc'[j], Token) = invoice'[j].cny
    <3>1. CASE j = i
      BY <2>2, <2>3, <3>1
    <3>2. CASE j # i
      BY <2>2, <2>3, <3>2 DEF ClaimsInv, SharesMakeFaceValue
    <3> QED BY <3>1, <3>2
  <2> QED BY <2>3 DEF SharesMakeFaceValue
<1>3. QED
  BY <1>1, <1>2 DEF ClaimsInv

\* Issuing leaves the claims, rejecting lets go of some.
LEMMA ClosingKeeps ==
  ASSUME ClaimsInv, StoreTypeOK', NEW i \in Invoice, NEW st \in {"issued", "rejected"},
         CloseInvoice(i, st)
  PROVE  ClaimsInv'
<1>1. /\ invoice[i].status = "pending"
      /\ invoice' = [invoice EXCEPT ![i].status = st]
      /\ UNCHANGED <<alloc, ordStatus, ordToken>>
  BY DEF CloseInvoice, orderVars
<1>2. \A j \in Invoice : /\ invoice'[j].cny = invoice[j].cny /\ invoice'[j].ws = invoice[j].ws
                         /\ invoice'[j].token = invoice[j].token
                         /\ invoice'[j].status # "absent" => invoice[j].status # "absent"
                         /\ Claiming(j)' => Claiming(j)
  BY <1>1 DEF ClaimsInv, StoreTypeOK, RowsTypeOK, Claiming
<1>3. SharesMakeFaceValue'
  BY <1>1, <1>2 DEF ClaimsInv, SharesMakeFaceValue
<1>4. NeverOverInvoiced'
  <2> SUFFICES ASSUME NEW u \in Token PROVE ClaimedCNY(u)' <= PaidCNY(u)'
    BY DEF NeverOverInvoiced
  <2>1. PaidCNY(u)' = PaidCNY(u)
    BY <1>1 DEF PaidCNY, PaidOrders
  <2>2. Face' = Face /\ SharesOf(u)' = SharesOf(u)
    BY <1>1, <1>2 DEF Face, SharesOf
  <2>3. PersonalClaims(u)' \subseteq PersonalClaims(u) /\ Claims0' \subseteq Claims0
    BY <1>2 DEF PersonalClaims, Claims0
  <2>4. PersonalCNY(u)' <= PersonalCNY(u)
    <3>1. SumFunctionOnSet(Face, PersonalClaims(u)') <= SumFunctionOnSet(Face, PersonalClaims(u))
      BY <2>3, ClaimsType, SumWithin DEF ClaimsInv
    <3> QED BY <2>2, <3>1 DEF PersonalCNY, Face
  <2>5. SharesCNY(u)' <= SharesCNY(u)
    <3>1. SumFunctionOnSet(SharesOf(u), Claims0') <= SumFunctionOnSet(SharesOf(u), Claims0)
      BY <2>3, ClaimsType, SumWithin DEF ClaimsInv
    <3> QED BY <2>2, <3>1 DEF SharesCNY, SharesOf, Claims0
  <2>6. ClaimedCNY(u) <= PaidCNY(u)
    BY DEF ClaimsInv, NeverOverInvoiced
  <2>7. /\ PersonalCNY(u) \in Nat /\ SharesCNY(u) \in Nat /\ PaidCNY(u) \in Nat
        /\ PersonalCNY(u)' \in Nat /\ SharesCNY(u)' \in Nat
    BY ClaimsType, ClaimsTypeNext DEF ClaimsInv, SumsOK
  <2> QED BY <2>1, <2>4, <2>5, <2>6, <2>7 DEF ClaimedCNY
<1>5. QED
  BY <1>3, <1>4 DEF ClaimsInv

\* The orders and the claims of the old token become the new one's, which
\* had no claims of its own: the rotation is refused otherwise.
LEMMA RekeyKeeps ==
  ASSUME ClaimsInv, StoreTypeOK', NEW old \in Token, NEW new \in Token, RekeyToken(old, new)
  PROVE  ClaimsInv'
<1>1. /\ old # new /\ ~HasInvoiceState(new)
      /\ ordToken' = [o \in Order |-> Renamed(ordToken[o], old, new)] /\ UNCHANGED ordStatus
      /\ invoice' = [i \in Invoice |->
                       [invoice[i] EXCEPT !.token = Renamed(invoice[i].token, old, new)]]
      /\ alloc' = [i \in Invoice |-> MoveSum(alloc[i], old, new)]
  BY DEF RekeyToken, RekeyOrders, RekeyInvoices
<1>2. \A j \in Invoice : /\ invoice'[j].cny = invoice[j].cny /\ invoice'[j].ws = invoice[j].ws
                         /\ invoice'[j].status = invoice[j].status
                         /\ invoice'[j].token = Renamed(invoice[j].token, old, new)
                         /\ Claiming(j)' = Claiming(j)
  BY <1>1 DEF ClaimsInv, StoreTypeOK, RowsTypeOK, Claiming
<1>3. \A j \in Invoice : /\ alloc[j] \in [Token -> Nat] /\ alloc'[j] \in [Token -> Nat]
                         /\ alloc'[j][old] = 0 /\ alloc'[j][new] = alloc[j][new] + alloc[j][old]
                         /\ \A u \in Token \ {old, new} : alloc'[j][u] = alloc[j][u]
  BY <1>1 DEF ClaimsInv, StoreTypeOK, MoveSum
<1>4. SharesMakeFaceValue'
  <2> SUFFICES ASSUME NEW j \in Invoice, invoice'[j].status # "absent", invoice'[j].ws # NoWorkspace
               PROVE  SumFunctionOnSet(alloc'[j], Token) = invoice'[j].cny
    BY DEF SharesMakeFaceValue
  <2>1. SumFunctionOnSet(alloc[j], Token) = invoice[j].cny
    BY <1>2 DEF ClaimsInv, SharesMakeFaceValue
  <2> DEFINE f == alloc[j]
             g == alloc'[j]
  <2>2. /\ \A y \in Token : f[y] \in Int /\ g[y] \in Int
        /\ \A y \in Token \ {old, new} : g[y] = f[y]
        /\ f[old] + f[new] = g[old] + g[new]
    BY <1>3
  <2> HIDE DEF f, g
  <2>3. SumFunctionOnSet(g, Token) = SumFunctionOnSet(f, Token)
    BY <1>1, <2>2, FiniteStore, SumMove
  <2> QED BY <1>2, <2>1, <2>3 DEF f, g
<1>5. Face' = Face /\ Claims0' = Claims0
  BY <1>2 DEF Face, Claims0
<1>6. NeverOverInvoiced'
  <2> SUFFICES ASSUME NEW u \in Token PROVE ClaimedCNY(u)' <= PaidCNY(u)'
    BY DEF NeverOverInvoiced
  <2>1. \A j \in Claims0 : alloc[j][new] = 0 /\ invoice[j].token # new
    BY <1>1 DEF HasInvoiceState, Claims0, Claiming, ClaimsInv, StoreTypeOK
  <2>2. \A t \in Token : /\ ClaimedCNY(t) <= PaidCNY(t) /\ PaidCNY(t) \in Nat
                         /\ IsFiniteSet(PersonalClaims(t)) /\ IsFiniteSet(Claims0)
                         /\ IsFiniteSet(PaidOrders(t))
    BY ClaimsType DEF ClaimsInv, NeverOverInvoiced
  <2>3. /\ ClaimedCNY(u)' = SumFunctionOnSet(Face, PersonalClaims(u)')
                              + SumFunctionOnSet(SharesOf(u)', Claims0)
        /\ \A t \in Token : ClaimedCNY(t) = SumFunctionOnSet(Face, PersonalClaims(t))
                                              + SumFunctionOnSet(SharesOf(t), Claims0)
    BY <1>5 DEF ClaimedCNY, PersonalCNY, SharesCNY, Face, SharesOf, Claims0
  <2>4. CASE u = old
    <3>1. PersonalClaims(u)' = {}
      BY <1>1, <1>2, <2>4 DEF PersonalClaims, Renamed
    <3>2. \A j \in Claims0 : SharesOf(u)'[j] = 0
      BY <1>3, <2>4 DEF Claims0, SharesOf
    <3>3. ClaimedCNY(u)' = 0
      BY <2>2, <2>3, <3>1, <3>2, SumEmpty, SumZero
    <3>4. PaidCNY(u)' \in Nat
      BY ClaimsTypeNext DEF SumsOK
    <3> QED BY <3>3, <3>4
  <2>5. CASE u = new
    <3>1. PersonalClaims(u)' = PersonalClaims(old)
      BY <1>1, <1>2, <2>1, <2>5 DEF PersonalClaims, Renamed, Claims0
    <3>2. \A j \in Claims0 : SharesOf(old)[j] \in Int /\ SharesOf(old)[j] = SharesOf(u)'[j]
      BY <1>3, <2>1, <2>5 DEF Claims0, SharesOf
    <3>3. SumFunctionOnSet(SharesOf(u)', Claims0) = SumFunctionOnSet(SharesOf(old), Claims0)
      BY <2>2, <3>2, SumSame
    <3>4. ClaimedCNY(u)' = ClaimedCNY(old)
      BY <2>3, <3>1, <3>3
    <3>5. PaidOrders(old) \subseteq PaidOrders(u)' /\ PaidOrders(u)' \subseteq Order
      BY <1>1, <2>5 DEF PaidOrders, Renamed
    <3>6. PaidCNY(old) <= PaidCNY(u)'
      <4>1. IsFiniteSet(PaidOrders(u)')
        BY <3>5, FiniteStore, FS_Subset
      <4>2. \A o \in PaidOrders(u)' : Cny[o] \in Nat
        BY <3>5, StoreAssumption
      <4>3. SumFunctionOnSet(Cny, PaidOrders(old)) <= SumFunctionOnSet(Cny, PaidOrders(u)')
        BY <3>5, <4>1, <4>2, SumWithin
      <4> QED BY <4>3 DEF PaidCNY
    <3>7. PaidCNY(u)' \in Nat /\ ClaimedCNY(old) \in Nat
      BY ClaimsType, ClaimsTypeNext DEF ClaimsInv, SumsOK
    <3> QED BY <2>2, <3>4, <3>6, <3>7
  <2>6. CASE u \notin {old, new}
    <3>1. PersonalClaims(u)' = PersonalClaims(u)
      <4>1. \A j \in Invoice : invoice'[j].token = u <=> invoice[j].token = u
        BY <1>1, <1>2, <2>6 DEF Renamed
      <4> QED BY <1>2, <4>1 DEF PersonalClaims
    <3>2. \A j \in Claims0 : SharesOf(u)[j] \in Int /\ SharesOf(u)[j] = SharesOf(u)'[j]
      BY <1>3, <2>6 DEF Claims0, SharesOf
    <3>3. SumFunctionOnSet(SharesOf(u)', Claims0) = SumFunctionOnSet(SharesOf(u), Claims0)
      BY <2>2, <3>2, SumSame
    <3>4. ClaimedCNY(u)' = ClaimedCNY(u)
      BY <2>3, <3>1, <3>3
    <3>5. PaidCNY(u)' = PaidCNY(u)
      BY <1>1, <2>6 DEF PaidCNY, PaidOrders, Renamed
    <3> QED BY <2>2, <3>4, <3>5
  <2> QED BY <2>4, <2>5, <2>6
<1>7. QED
  BY <1>4, <1>6 DEF ClaimsInv

(***************************************************************************)
(* The greedy split.  Splits says that L[k] is what is still wanted after  *)
(* the first k members gave.                                               *)
(***************************************************************************)
Splits(order, cny, L, n) ==
  L = [k \in 0 .. n |-> IF k = 0 THEN cny ELSE L[k-1] - Lesser(AvailableCNY(order[k]), L[k-1])]

\* There is such an L: it is found member by member.
LEMMA SplitExists ==
  ASSUME NEW order, NEW cny, NEW n \in Nat
  PROVE  \E L : Splits(order, cny, L, n)
<1> DEFINE G == {k \in 0 .. n : \E L : Splits(order, cny, L, k)}
<1>1. Splits(order, cny, [k \in 0 .. 0 |-> cny], 0)
  BY DEF Splits
<1>2. 0 \in G
  BY <1>1
<1>3. ASSUME NEW k \in 0 .. n, k < n, k \in G
      PROVE  k + 1 \in G
  <2>1. PICK L : Splits(order, cny, L, k)
    BY <1>3
  <2> DEFINE M == [j \in 0 .. k + 1 |->
                     IF j = 0 THEN cny ELSE L[j-1] - Lesser(AvailableCNY(order[j]), L[j-1])]
  <2>2. \A j \in 0 .. k : M[j] = L[j]
    BY <2>1 DEF Splits
  <2>3. \A j \in 0 .. k + 1 : j # 0 => M[j-1] = L[j-1]
    BY <2>2
  <2>4. M = [j \in 0 .. k + 1 |->
               IF j = 0 THEN cny ELSE M[j-1] - Lesser(AvailableCNY(order[j]), M[j-1])]
    BY <2>3
  <2> HIDE DEF M
  <2> QED BY <1>3, <2>4 DEF Splits
<1> HIDE DEF G
<1>4. n \in G
  BY <1>2, <1>3, CountUp
<1>5. QED
  BY <1>4 DEF G

\* Everyone gives what they have, or all that is still wanted.
SplitsRight(order, cny, L, n) ==
  /\ L[0] = cny /\ \A k \in 0 .. n : L[k] \in Nat
  /\ \A k \in 1 .. n : /\ L[k-1] - L[k] \in Nat
                       /\ L[k-1] - L[k] <= AvailableCNY(order[k])
                       /\ L[k] > 0 => L[k-1] - L[k] = AvailableCNY(order[k])

LEMMA SplitStep ==
  ASSUME NEW cny \in Nat, NEW n \in Nat, NEW order, NEW L, Splits(order, cny, L, n),
         \A k \in 1 .. n : AvailableCNY(order[k]) \in Nat
  PROVE  SplitsRight(order, cny, L, n)
<1> DEFINE G == {k \in 0 .. n : L[k] \in Nat}
<1>1. L[0] = cny
  BY DEF Splits
<1>2. \A k \in 1 .. n : L[k] = L[k-1] - Lesser(AvailableCNY(order[k]), L[k-1])
  BY DEF Splits
<1>3. ASSUME NEW k \in 0 .. n, k < n, k \in G PROVE k + 1 \in G
  <2>1. k + 1 \in 1 .. n /\ (k + 1) - 1 = k
    BY <1>3
  <2>2. L[k + 1] = L[k] - Lesser(AvailableCNY(order[k + 1]), L[k])
    BY <1>2, <2>1
  <2>3. AvailableCNY(order[k + 1]) \in Nat
    BY <2>1
  <2> QED BY <1>3, <2>1, <2>2, <2>3 DEF Lesser
<1>4. 0 \in G
  BY <1>1
<1> HIDE DEF G
<1>5. ASSUME NEW k \in 0 .. n PROVE L[k] \in Nat
  <2>1. \A j \in 0 .. k : j < k /\ j \in G => j + 1 \in G
    BY <1>3
  <2>2. k \in G
    BY <1>4, <2>1, CountUp
  <2> QED BY <2>2 DEF G
<1>6. ASSUME NEW k \in 1 .. n
      PROVE  /\ L[k-1] - L[k] \in Nat
             /\ L[k-1] - L[k] <= AvailableCNY(order[k])
             /\ L[k] > 0 => L[k-1] - L[k] = AvailableCNY(order[k])
  <2>1. k - 1 \in 0 .. n
    OBVIOUS
  <2>2. L[k-1] \in Nat /\ AvailableCNY(order[k]) \in Nat
    BY <1>5, <2>1
  <2> QED BY <1>2, <2>2 DEF Lesser
<1>7. QED
  BY <1>1, <1>5, <1>6 DEF SplitsRight

\* Everybody gives within what they have, and where the members have enough
\* between them the whole amount is given.
LEMMA AllocateGives ==
  ASSUME StoreTypeOK, NEW M \in SUBSET Token, NEW cny \in Nat,
         NEW order \in [1 .. Cardinality(M) -> M],
         \A u \in M : \E k \in DOMAIN order : order[k] = u,
         cny <= SumFunctionOnSet([u \in Token |-> AvailableCNY(u)], M)
  PROVE  /\ Allocate(order, cny) \in [Token -> Nat]
         /\ \A u \in Token : Allocate(order, cny)[u] <= AvailableCNY(u)
         /\ SumFunctionOnSet(Allocate(order, cny), Token) = cny
<1> DEFINE n == Cardinality(M)
           a == [u \in Token |-> AvailableCNY(u)]
           shares == Allocate(order, cny)
           L == CHOOSE l : Splits(order, cny, l, n)
<1>1. IsFiniteSet(M) /\ n \in Nat /\ IsFiniteSet(Token)
  BY FiniteStore, FS_Subset, FS_CardinalityType
<1>2. Len(order) = n /\ DOMAIN order = 1 .. n /\ \A k \in 1 .. n : order[k] \in M
  BY <1>1
<1>3. Splits(order, cny, L, n)
  BY <1>1, SplitExists
<1>4. shares = [t \in Token |->
                  IF \E k \in 1 .. n : order[k] = t
                  THEN LET k == CHOOSE j \in 1 .. n : order[j] = t IN L[k-1] - L[k]
                  ELSE 0]
  BY <1>2 DEF Allocate, Splits
<1>5. \A u \in Token : AvailableCNY(u) \in Nat /\ a[u] = AvailableCNY(u)
  BY ClaimsType
<1> HIDE DEF n, a, L, shares
<1>6. \A k \in 1 .. n : AvailableCNY(order[k]) \in Nat
  BY <1>2, <1>5
<1>7. /\ L[0] = cny /\ \A k \in 0 .. n : L[k] \in Nat
      /\ \A k \in 1 .. n : /\ L[k-1] - L[k] \in Nat
                           /\ L[k-1] - L[k] <= AvailableCNY(order[k])
                           /\ L[k] > 0 => L[k-1] - L[k] = AvailableCNY(order[k])
  <2>1. SplitsRight(order, cny, L, n)
    BY <1>1, <1>3, <1>6, SplitStep
  <2> QED BY <2>1 DEF SplitsRight
<1>8. \A j, k \in 1 .. n : order[j] = order[k] => j = k
  <2>1. order \in Surjection(1 .. n, M)
    BY <1>2 DEF Surjection, n
  <2>2. IsFiniteSet(1 .. n) /\ Cardinality(1 .. n) = n
    BY <1>1, FS_Interval
  <2>3. order \in Injection(1 .. n, M)
    BY <2>1, <2>2, FS_SurjSameCardinalityImpliesInj DEF n
  <2> QED BY <1>2, <2>3 DEF Injection, IsInjective
<1>9. \A k \in 1 .. n : shares[order[k]] = L[k-1] - L[k]
  <2> SUFFICES ASSUME NEW k \in 1 .. n PROVE shares[order[k]] = L[k-1] - L[k]
    OBVIOUS
  <2>1. (CHOOSE j \in 1 .. n : order[j] = order[k]) = k
    BY <1>8
  <2>2. order[k] \in Token
    BY <1>2
  <2> QED BY <1>4, <2>1, <2>2
<1>10. \A u \in Token : (\E k \in 1 .. n : order[k] = u) \/ shares[u] = 0
  BY <1>4
<1>11. \A u \in Token : shares[u] \in Nat /\ shares[u] <= AvailableCNY(u)
  BY <1>5, <1>7, <1>9, <1>10
<1>12. shares \in [Token -> Nat]
  BY <1>4, <1>11
<1> DEFINE Front(k) == {order[j] : j \in 1 .. k}
           G == {k \in 0 .. n : /\ SumFunctionOnSet(shares, Front(k)) = cny - L[k]
                                /\ L[k] = 0 \/ \A u \in Front(k) : shares[u] = a[u]}
<1>13. n \in G
  <2>1. 0 \in G
    <3>1. Front(0) = {}
      OBVIOUS
    <3>2. L[0] = cny /\ 0 \in 0 .. n /\ SumFunctionOnSet(shares, {}) = 0
      BY <1>1, <1>7, SumEmpty
    <3> HIDE DEF Front
    <3> QED BY <3>1, <3>2
  <2>2. ASSUME NEW k \in 0 .. n, k < n, k \in G
        PROVE  k + 1 \in G
    <3>1. k + 1 \in 1 .. n /\ (k + 1) - 1 = k
      BY <1>1, <2>2
    <3>2. Front(k + 1) = Front(k) \cup {order[k + 1]}
      OBVIOUS
    <3>3. order[k + 1] \notin Front(k) /\ Front(k) \subseteq M
      BY <1>2, <1>8, <3>1
    <3>4. IsFiniteSet(Front(k))
      BY <1>1, <3>3, FS_Subset
    <3>5. \A u \in Front(k) \cup {order[k + 1]} : shares[u] \in Int
      BY <1>2, <1>11, <3>1, <3>3
    <3>6. shares[order[k + 1]] = L[k] - L[k + 1]
      BY <1>9, <3>1
    <3>7. /\ SumFunctionOnSet(shares, Front(k)) = cny - L[k]
          /\ L[k] = 0 \/ \A u \in Front(k) : shares[u] = a[u]
      BY <2>2
    <3> HIDE DEF Front
    <3>8. SumFunctionOnSet(shares, Front(k + 1)) = shares[order[k + 1]] + SumFunctionOnSet(shares, Front(k))
      BY <3>2, <3>3, <3>4, <3>5, SumInsert
    <3>9. L[k] \in Nat /\ L[k + 1] \in Nat
      BY <1>7, <3>1
    <3>10. SumFunctionOnSet(shares, Front(k + 1)) = cny - L[k + 1]
      BY <3>6, <3>7, <3>8, <3>9
    <3>11. L[k + 1] = 0 \/ \A u \in Front(k + 1) : shares[u] = a[u]
      <4> SUFFICES ASSUME L[k + 1] > 0 PROVE \A u \in Front(k + 1) : shares[u] = a[u]
        BY <3>9
      <4>1. L[k] - L[k + 1] = AvailableCNY(order[k + 1]) /\ L[k] - L[k + 1] \in Nat
        BY <1>7, <3>1
      <4>2. L[k] # 0
        BY <3>9, <4>1
      <4>3. order[k + 1] \in Token
        BY <1>2, <3>1
      <4> QED BY <1>5, <3>2, <3>6, <3>7, <4>1, <4>2, <4>3
    <3> QED BY <3>1, <3>10, <3>11
  <2> HIDE DEF G
  <2> QED BY <1>1, <2>1, <2>2, CountUp
<1>14. Front(n) = M
  BY <1>2
<1>15. SumFunctionOnSet(shares, M) = cny - L[n] /\ (L[n] = 0 \/ \A u \in M : shares[u] = a[u])
  BY <1>13, <1>14
<1>16. SumFunctionOnSet(shares, M) = cny
  <2>1. L[n] \in Nat
    BY <1>1, <1>7
  <2>2. CASE L[n] = 0
    BY <1>15, <2>2
  <2>3. CASE L[n] # 0
    <3>1. \A u \in M : shares[u] \in Int /\ shares[u] = a[u]
      BY <1>11, <1>15, <2>3
    <3>2. SumFunctionOnSet(shares, M) = SumFunctionOnSet(a, M)
      BY <1>1, <3>1, SumSame
    <3>3. cny <= SumFunctionOnSet(a, M)
      BY DEF a
    <3> QED BY <1>15, <2>1, <2>3, <3>2, <3>3
  <2> QED BY <2>2, <2>3
<1>17. SumFunctionOnSet(shares, Token) = cny
  <2> DEFINE rest == Token \ M
  <2>1. /\ IsFiniteSet(rest) /\ M \cup rest = Token /\ rest \cap M = {}
        /\ \A u \in rest : shares[u] = 0
    BY <1>1, <1>2, <1>10, FS_Subset
  <2>2. \A u \in M \cup rest : shares[u] \in Int
    BY <1>11
  <2> HIDE DEF rest
  <2>3. SumFunctionOnSet(shares, rest) = 0
    BY <2>1, SumZero
  <2>4. SumFunctionOnSet(shares, M \cup rest)
          = SumFunctionOnSet(shares, M) + SumFunctionOnSet(shares, rest)
    BY <1>1, <2>1, <2>2, SumUnion
  <2> QED BY <1>16, <2>1, <2>3, <2>4
<1>18. QED
  BY <1>11, <1>12, <1>17 DEF shares

\* A step that takes away nobody's paid orders and touches no invoice.
LEMMA OthersKeepClaims ==
  ASSUME ClaimsInv, StoreTypeOK', UNCHANGED <<invoice, alloc>>,
         \A u \in Token : PaidOrders(u) \subseteq PaidOrders(u)'
  PROVE  ClaimsInv'
<1>1. NeverOverInvoiced'
  <2> SUFFICES ASSUME NEW u \in Token PROVE ClaimedCNY(u)' <= PaidCNY(u)'
    BY DEF NeverOverInvoiced
  <2>1. ClaimedCNY(u)' = ClaimedCNY(u)
    BY DEF ClaimedCNY, PersonalCNY, SharesCNY, PersonalClaims, Claiming
  <2>2. PaidOrders(u)' \subseteq Order
    BY DEF PaidOrders
  <2>3. PaidCNY(u) <= PaidCNY(u)'
    <3>1. IsFiniteSet(PaidOrders(u)')
      BY <2>2, FiniteStore, FS_Subset
    <3>2. \A o \in PaidOrders(u)' : Cny[o] \in Nat
      BY <2>2, StoreAssumption
    <3>3. SumFunctionOnSet(Cny, PaidOrders(u)) <= SumFunctionOnSet(Cny, PaidOrders(u)')
      BY <3>1, <3>2, SumWithin
    <3> QED BY <3>3 DEF PaidCNY
  <2>4. ClaimedCNY(u) <= PaidCNY(u) /\ ClaimedCNY(u) \in Nat /\ PaidCNY(u) \in Nat /\ PaidCNY(u)' \in Nat
    BY ClaimsType, ClaimsTypeNext DEF ClaimsInv, NeverOverInvoiced, SumsOK
  <2> QED BY <2>1, <2>3, <2>4
<1>2. SharesMakeFaceValue'
  BY DEF ClaimsInv, SharesMakeFaceValue
<1>3. QED
  BY <1>1, <1>2 DEF ClaimsInv

\* Filing, by one person and by a team.
LEMMA CreatesKeep ==
  ASSUME ClaimsInv, StoreTypeOK', NEW i \in Invoice, NEW t \in Token, NEW cny \in Nat,
         \/ CreateInvoice(i, t, cny)
         \/ \E w \in workspaces : CreateWorkspaceInvoice(i, w, t, cny)
  PROVE  ClaimsInv'
<1>1. CASE CreateInvoice(i, t, cny)
  <2> DEFINE none == [u \in Token |-> 0]
  <2>1. \A u \in Token : AvailableCNY(u) \in Nat
    BY ClaimsType DEF ClaimsInv
  <2>2. /\ none \in [Token -> Nat]
        /\ \A u \in Token :
             none[u] + (IF u = t /\ NoWorkspace = NoWorkspace THEN cny ELSE 0) <= AvailableCNY(u)
        /\ FileInvoice(i, t, NoWorkspace, cny, none)
    BY <1>1, <2>1 DEF CreateInvoice
  <2> HIDE DEF none
  <2> QED BY <2>2, FilingKeeps
<1>2. CASE \E w \in workspaces : CreateWorkspaceInvoice(i, w, t, cny)
  <2> PICK w \in workspaces : CreateWorkspaceInvoice(i, w, t, cny)
    BY <1>2
  <2> PICK order \in [1 .. Cardinality(Members(w)) -> Members(w)] :
        /\ \A u \in Members(w) : \E k \in DOMAIN order : order[k] = u
        /\ FileInvoice(i, t, w, cny, Allocate(order, cny))
    BY DEF CreateWorkspaceInvoice
  <2>1. Members(w) \in SUBSET Token /\ StoreTypeOK
    BY DEF Members, ClaimsInv
  <2>2. cny <= SumFunctionOnSet([u \in Token |-> AvailableCNY(u)], Members(w))
    BY DEF CreateWorkspaceInvoice
  <2> DEFINE shares == Allocate(order, cny)
  <2>3. /\ shares \in [Token -> Nat]
        /\ \A u \in Token : shares[u] <= AvailableCNY(u)
        /\ SumFunctionOnSet(shares, Token) = cny
    BY <2>1, <2>2, AllocateGives
  <2>4. w # NoWorkspace /\ w \in workspaces \cup {NoWorkspace}
    BY <2>1, StoreAssumption DEF StoreTypeOK, RowsTypeOK
  <2>5. FileInvoice(i, t, w, cny, shares)
    OBVIOUS
  <2> HIDE DEF shares
  <2>6. \A u \in Token : shares[u] + (IF u = t /\ w = NoWorkspace THEN cny ELSE 0) <= AvailableCNY(u)
    BY <2>3, <2>4
  <2> QED BY <2>3, <2>4, <2>5, <2>6, FilingKeeps
<1>3. QED
  BY <1>1, <1>2

\* The columns of the shares stay a table of amounts.
LEMMA SharesType ==
  ASSUME StoreTypeOK, StoreNext
  PROVE  alloc' \in [Invoice -> [Token -> Nat]]
<1>1. CASE UNCHANGED alloc
  BY <1>1 DEF StoreTypeOK
<1>2. ASSUME NEW i \in Invoice, NEW t, NEW w, NEW cny, NEW shares \in [Token -> Nat],
             FileInvoice(i, t, w, cny, shares)
      PROVE  alloc' \in [Invoice -> [Token -> Nat]]
  BY <1>2 DEF FileInvoice, StoreTypeOK
<1>3. CASE InvoiceOps
  <2> PICK i \in Invoice :
        \/ \E t \in Token, cny \in Claims : CreateInvoice(i, t, cny)
        \/ \E t \in Token, w \in workspaces, cny \in Claims : CreateWorkspaceInvoice(i, w, t, cny)
        \/ MarkInvoiceIssued(i)
        \/ MarkInvoiceRejected(i)
    BY <1>3 DEF InvoiceOps
  <2>1. CASE \E t \in Token, cny \in Claims : CreateInvoice(i, t, cny)
    <3>1. [u \in Token |-> 0] \in [Token -> Nat]
      OBVIOUS
    <3> QED BY <1>2, <2>1, <3>1 DEF CreateInvoice
  <2>2. CASE \E t \in Token, w \in workspaces, cny \in Claims : CreateWorkspaceInvoice(i, w, t, cny)
    <3> PICK t \in Token, w \in workspaces, cny \in Claims : CreateWorkspaceInvoice(i, w, t, cny)
      BY <2>2
    <3> PICK order \in [1 .. Cardinality(Members(w)) -> Members(w)] :
          /\ \A u \in Members(w) : \E k \in DOMAIN order : order[k] = u
          /\ FileInvoice(i, t, w, cny, Allocate(order, cny))
      BY DEF CreateWorkspaceInvoice
    <3>1. Members(w) \in SUBSET Token /\ cny \in Nat
      BY StoreAssumption DEF Members
    <3>2. cny <= SumFunctionOnSet([u \in Token |-> AvailableCNY(u)], Members(w))
      BY DEF CreateWorkspaceInvoice
    <3>3. Allocate(order, cny) \in [Token -> Nat]
      BY <3>1, <3>2, AllocateGives
    <3> QED BY <1>2, <3>3
  <2>3. CASE MarkInvoiceIssued(i) \/ MarkInvoiceRejected(i)
    BY <1>1, <2>3 DEF MarkInvoiceIssued, MarkInvoiceRejected, CloseInvoice
  <2> QED BY <2>1, <2>2, <2>3
<1>4. CASE \E old, new \in Token : RekeyToken(old, new)
  <2> PICK old \in Token, new \in Token : RekeyToken(old, new)
    BY <1>4
  <2>1. alloc' = [i \in Invoice |-> MoveSum(alloc[i], old, new)]
    BY DEF RekeyToken, RekeyInvoices
  <2> QED BY <2>1, MoveSumNat DEF StoreTypeOK
<1>5. CASE ~InvoiceOps /\ \A old, new \in Token : ~RekeyToken(old, new)
  BY <1>1, <1>5 DEF StoreNext, WalletOps, OrderOps, WorkspaceOps, MemberOps, EnsureWallet, AddBalance,
     ChargeMemberFirst, CreateOrder, CreditPaidOrder, CreditPaidOrderToWorkspace, CloseOrders,
     MarkOrderExpired, DeletePendingOrder, ExpirePendingOrdersBefore, CreateWorkspace,
     SetWorkspaceDisabled, AdjustWorkspaceBalance, DayStart, AddMember, UpdateMemberRole,
     UpdateMemberDayCap, UpdateMemberMonthCap, RemoveMember, invoiceVars
<1>6. QED
  BY <1>3, <1>4, <1>5

\* Money and claims: what every operation of the store keeps.
BooksInv == MoneyInv /\ ClaimsInv

LEMMA StoreOpKeeps ==
  ASSUME BooksInv, StoreNext
  PROVE  BooksInv'
<1>1. MoneyInv' /\ MoneyInv /\ ClaimsInv /\ StoreTypeOK
  BY StoreNextKeeps DEF BooksInv, ClaimsInv
<1>2. StoreTypeOK'
  BY <1>1, SharesType DEF MoneyInv, StoreTypeOK
<1>3. CASE InvoiceOps
  <2>1. Claims \subseteq Nat
    BY StoreAssumption
  <2> QED BY <1>1, <1>2, <1>3, <2>1, CreatesKeep, ClosingKeeps
          DEF InvoiceOps, BooksInv, MarkInvoiceIssued, MarkInvoiceRejected
<1>4. CASE \E old, new \in Token : RekeyToken(old, new)
  BY <1>1, <1>2, <1>4, RekeyKeeps DEF BooksInv
<1>5. CASE ~InvoiceOps /\ \A old, new \in Token : ~RekeyToken(old, new)
  <2>1. UNCHANGED <<invoice, alloc>>
    BY <1>5 DEF StoreNext, WalletOps, OrderOps, WorkspaceOps, MemberOps, EnsureWallet, AddBalance,
       ChargeMemberFirst, CreateOrder, CreditPaidOrder, CreditPaidOrderToWorkspace, CloseOrders,
       MarkOrderExpired, DeletePendingOrder, ExpirePendingOrdersBefore, CreateWorkspace,
       SetWorkspaceDisabled, AdjustWorkspaceBalance, DayStart, AddMember, UpdateMemberRole,
       UpdateMemberDayCap, UpdateMemberMonthCap, RemoveMember, invoiceVars
  <2>2. \/ UNCHANGED <<ordStatus, ordToken>>
        \/ \E o \in Order, t \in Token, w \in workspaces \cup {NoWorkspace} : CreateOrder(o, t, w)
        \/ \E o \in Order, owner \in Token \cup Workspace : MarkOrderPaid(o, owner)
        \/ \E S \in SUBSET Order, st \in {"expired", "deleted"} : CloseOrders(S, st)
    <3>1. CASE OrderOps
      <4>1. \A o \in Order : ordToken[o] \in Token /\ (ordWs[o] \in workspaces => ordWs[o] \in Workspace)
        BY <1>1 DEF MoneyInv, RowsTypeOK
      <4>2. ASSUME NEW o \in Order, CreditPaidOrder(o, ordToken[o]) \/ CreditPaidOrderToWorkspace(o, ordWs[o])
            PROVE  \E owner \in Token \cup Workspace : MarkOrderPaid(o, owner)
        BY <4>1, <4>2 DEF CreditPaidOrder, CreditPaidOrderToWorkspace
      <4> QED BY <3>1, <4>2 DEF OrderOps, MarkOrderExpired, DeletePendingOrder, ExpirePendingOrdersBefore
    <3>2. CASE WalletOps \/ WorkspaceOps \/ MemberOps
      BY <1>5, <3>2 DEF WalletOps, WorkspaceOps, MemberOps, EnsureWallet, AddBalance,
         ChargeMemberFirst, CreateWorkspace, SetWorkspaceDisabled, AdjustWorkspaceBalance, DayStart,
         AddMember, UpdateMemberRole, UpdateMemberDayCap, UpdateMemberMonthCap, RemoveMember, orderVars
    <3> QED BY <1>5, <3>1, <3>2 DEF StoreNext
  <2>3. \A u \in Token : PaidOrders(u) \subseteq PaidOrders(u)'
    <3>1. ASSUME NEW o \in Order, ordStatus[o] = "paid"
          PROVE  ordStatus'[o] = "paid" /\ ordToken'[o] = ordToken[o]
      BY <1>1, <2>2, <3>1 DEF MoneyInv, RowsTypeOK, CreateOrder, MarkOrderPaid, CloseOrders
    <3> QED BY <3>1 DEF PaidOrders
  <2>4. ClaimsInv'
    BY <1>1, <1>2, <2>1, <2>3, OthersKeepClaims
  <2> QED BY <1>1, <2>4 DEF BooksInv
<1>6. QED
  BY <1>3, <1>4, <1>5

\* The inductive invariant of the store.
THEOREM BooksInvariant == StoreSpec => []BooksInv
<1>1. StoreInit => BooksInv
  <2> SUFFICES ASSUME StoreInit PROVE BooksInv
    OBVIOUS
  <2>1. MoneyInv /\ StoreTypeOK
    BY InitMoney DEF StoreInit, MoneyInv, StoreTypeOK
  <2>2. \A i \in Invoice : invoice[i].status = "absent"
    BY DEF StoreInit
  <2>3. NeverOverInvoiced
    <3> SUFFICES ASSUME NEW u \in Token PROVE ClaimedCNY(u) <= PaidCNY(u)
      BY DEF NeverOverInvoiced
    <3>1. PersonalClaims(u) = {} /\ Claims0 = {}
      BY <2>2 DEF PersonalClaims, Claims0, Claiming
    <3>2. SharesCNY(u) = SumFunctionOnSet(SharesOf(u), Claims0)
      BY DEF SharesCNY, SharesOf, Claims0
    <3>3. PersonalCNY(u) = 0 /\ SharesCNY(u) = 0
      BY <3>1, <3>2, SumEmpty DEF PersonalCNY
    <3>4. ClaimedCNY(u) = 0
      BY <3>3 DEF ClaimedCNY
    <3>5. PaidCNY(u) \in Nat
      BY <2>1, ClaimsType
    <3> QED BY <3>4, <3>5
  <2>4. SharesMakeFaceValue
    BY <2>2 DEF SharesMakeFaceValue
  <2> QED BY <2>1, <2>3, <2>4 DEF BooksInv, ClaimsInv
<1>2. BooksInv /\ [StoreNext]_storeVars => BooksInv'
  <2> SUFFICES ASSUME BooksInv, [StoreNext]_storeVars PROVE BooksInv'
    OBVIOUS
  <2>1. CASE UNCHANGED storeVars
    <3>1. MoneyInv' /\ StoreTypeOK'
      BY <2>1, StutterKeeps DEF BooksInv, MoneyInv, ClaimsInv, StoreTypeOK, storeVars
    <3>2. UNCHANGED <<invoice, alloc>> /\ \A u \in Token : PaidOrders(u) \subseteq PaidOrders(u)'
      BY <2>1 DEF storeVars, PaidOrders
    <3> QED BY <3>1, <3>2, OthersKeepClaims DEF BooksInv
  <2> QED BY <2>1, StoreOpKeeps
<1>3. QED
  BY <1>1, <1>2, PTL DEF StoreSpec

(***************************************************************************)
(* However people pay, join and leave teams, file, and rotate their        *)
(* tokens, nobody's invoices, shares in team invoices included, ever come  *)
(* to more than what they paid.                                            *)
(***************************************************************************)
THEOREM NobodyOverInvoiced == StoreSpec => []NeverOverInvoiced
<1>1. BooksInv => NeverOverInvoiced
  BY DEF BooksInv, ClaimsInv
<1>2. QED
  BY <1>1, BooksInvariant, PTL

(***************************************************************************)
(* The shares of a team invoice always add up to it: the greedy split      *)
(* leaves nothing over, and rotations move shares without changing them.   *)
(***************************************************************************)
THEOREM SharesAddUp == StoreSpec => []SharesMakeFaceValue
<1>1. BooksInv => SharesMakeFaceValue
  BY DEF BooksInv, ClaimsInv
<1>2. QED
  BY <1>1, BooksInvariant, PTL
=============================================================================
