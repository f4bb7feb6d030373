---------------------------- MODULE StoreProofs ----------------------------
(***************************************************************************)
(* What the game server keeps in the database and in memory meanwhile: the *)
(* rents and the items of WorldSave, the transactions of Database and the  *)
(* items of Decay, for every number of players, items, kinds of item,      *)
(* tables, rows and writers, and every number of saves, lost connections   *)
(* and crashes.                                                            *)
(*                                                                         *)
(* Of the items that decay the induction counts the entries: how often an  *)
(* item is on a list makes up its references, and the passes until its     *)
(* entry is visited make up its time.  Of the world it needs what holds in *)
(* the middle of a save: what has been written of it agrees with memory,   *)
(* for nothing else moves until it ends.  Of the handle it needs the       *)
(* lock's holder, from where savePlayer and the writers are, and how far   *)
(* an open transaction has got.                                            *)
(***************************************************************************)
EXTENDS Database, WorldSave, Decay, FiniteSetTheorems, TLAPS

-----------------------------------------------------------------------------
(* How often an item is on a list.                                         *)

SpotsOf(list, i) == {n \in DOMAIN list : list[n] = i}

LEMMA TimesIsNat ==
    ASSUME NEW S, NEW list \in Seq(S), NEW i
    PROVE  /\ IsFiniteSet(SpotsOf(list, i)) /\ Times(list, i) = Cardinality(SpotsOf(list, i))
           /\ Times(list, i) \in Nat
           /\ Times(list, i) = 0 <=> \A n \in DOMAIN list : list[n] # i
<1>1. DOMAIN list = 1 .. Len(list) /\ Len(list) \in Nat
  OBVIOUS
<1>2. IsFiniteSet(1 .. Len(list))
  BY <1>1, FS_Interval
<1>3. SpotsOf(list, i) \in SUBSET (1 .. Len(list))
  BY <1>1 DEF SpotsOf
<1>4. IsFiniteSet(SpotsOf(list, i)) /\ Times(list, i) = Cardinality(SpotsOf(list, i))
  BY <1>2, <1>3, FS_Subset DEF Times, SpotsOf
<1>5. Times(list, i) \in Nat /\ (Times(list, i) = 0 <=> SpotsOf(list, i) = {})
  BY <1>4, FS_CardinalityType, FS_EmptySet
<1>6. SpotsOf(list, i) = {} <=> \A n \in DOMAIN list : list[n] # i
  BY DEF SpotsOf
<1> QED
  BY <1>4, <1>5, <1>6

\* What is on a list once is at one place of it.
LEMMA TimesOnce ==
    ASSUME NEW S, NEW list \in Seq(S), NEW i, Times(list, i) <= 1,
           NEW m \in DOMAIN list, NEW n \in DOMAIN list, list[m] = i, list[n] = i
    PROVE  m = n
<1>1. /\ IsFiniteSet(SpotsOf(list, i)) /\ Times(list, i) = Cardinality(SpotsOf(list, i))
      /\ Times(list, i) \in Nat /\ Times(list, i) # 0
  BY TimesIsNat
<1>2. Cardinality(SpotsOf(list, i)) = 1
  BY <1>1
<1>3. \E x : SpotsOf(list, i) = {x}
  BY <1>1, <1>2, FS_Singleton
<1>4. m \in SpotsOf(list, i) /\ n \in SpotsOf(list, i)
  BY DEF SpotsOf
<1> QED
  BY <1>3, <1>4

LEMMA SameSize ==
    ASSUME NEW A, NEW B, IsFiniteSet(A), NEW f \in [A -> B],
           \A x, y \in A : f[x] = f[y] => x = y, \A y \in B : \E x \in A : f[x] = y
    PROVE  IsFiniteSet(B) /\ Cardinality(B) = Cardinality(A)
<1>1. f \in Bijection(A, B)
  BY DEF Bijection, Injection, Surjection, IsInjective
<1>2. ExistsBijection(A, B)
  BY <1>1 DEF ExistsBijection
<1> QED
  BY <1>2, FS_Bijection

LEMMA Joined ==
    ASSUME NEW S, NEW s \in Seq(S), NEW t \in Seq(S)
    PROVE  /\ s \o t \in Seq(S) /\ Len(s \o t) = Len(s) + Len(t)
           /\ DOMAIN (s \o t) = 1 .. Len(s) + Len(t)
           /\ \A n \in 1 .. Len(s) + Len(t) :
                 (s \o t)[n] = IF n <= Len(s) THEN s[n] ELSE t[n - Len(s)]
  OBVIOUS

LEMMA TimesConcat ==
    ASSUME NEW S, NEW s \in Seq(S), NEW t \in Seq(S), NEW i
    PROVE  Times(s \o t, i) = Times(s, i) + Times(t, i)
<1> DEFINE A == SpotsOf(s, i)
           B == SpotsOf(t, i)
           C == {n \in 1 .. Len(s) + Len(t) : n > Len(s) /\ t[n - Len(s)] = i}
           f == [n \in B |-> n + Len(s)]
<1>1. /\ IsFiniteSet(A) /\ Times(s, i) = Cardinality(A)
      /\ IsFiniteSet(B) /\ Times(t, i) = Cardinality(B)
      /\ Times(s, i) \in Nat /\ Times(t, i) \in Nat
  BY TimesIsNat
<1>2. /\ Len(s) \in Nat /\ DOMAIN s = 1 .. Len(s) /\ Len(t) \in Nat /\ DOMAIN t = 1 .. Len(t)
      /\ s \o t \in Seq(S) /\ DOMAIN (s \o t) = 1 .. Len(s) + Len(t)
      /\ \A n \in 1 .. Len(s) + Len(t) : (s \o t)[n] = IF n <= Len(s) THEN s[n] ELSE t[n - Len(s)]
  OBVIOUS
<1>3. IsFiniteSet(C) /\ Cardinality(C) = Cardinality(B)
  <2>1. f \in [B -> C]
    BY <1>2 DEF SpotsOf
  <2>2. \A x, y \in B : f[x] = f[y] => x = y
    BY <1>2 DEF SpotsOf
  <2>3. ASSUME NEW y \in C PROVE \E x \in B : f[x] = y
    <3>1. y - Len(s) \in B /\ f[y - Len(s)] = y
      BY <1>2 DEF SpotsOf
    <3> QED
      BY <3>1
  <2> HIDE DEF B, C, f
  <2> QED
    BY <1>1, <2>1, <2>2, <2>3, SameSize
<1>4. SpotsOf(s \o t, i) = A \cup C /\ A \cap C = {}
  BY <1>2 DEF SpotsOf
<1>5. Times(s \o t, i) = Cardinality(SpotsOf(s \o t, i))
  BY <1>2, TimesIsNat
<1> HIDE DEF A, B, C, f
<1>6. Cardinality(A \cup C) = Cardinality(A) + Cardinality(C) - Cardinality(A \cap C)
  BY <1>1, <1>3, FS_Union
<1>7. Cardinality(A \cap C) = 0
  BY <1>4, FS_EmptySet
<1> QED
  BY <1>1, <1>3, <1>4, <1>5, <1>6, <1>7

LEMMA TimesOfOne ==
    ASSUME NEW S, NEW j \in S, NEW i
    PROVE  /\ <<j>> \in Seq(S)
           /\ Times(<<j>>, i) = IF i = j THEN 1 ELSE 0
<1>1. <<j>> \in Seq(S) /\ DOMAIN <<j>> = {1} /\ <<j>>[1] = j
  OBVIOUS
<1>2. SpotsOf(<<j>>, i) = IF i = j THEN {1} ELSE {}
  BY <1>1 DEF SpotsOf
<1>3. Times(<<j>>, i) = Cardinality(SpotsOf(<<j>>, i))
  BY <1>1, TimesIsNat
<1> QED
  BY <1>1, <1>2, <1>3, FS_EmptySet, FS_Singleton

LEMMA TimesAppended ==
    ASSUME NEW S, NEW list \in Seq(S), NEW j \in S, NEW i
    PROVE  Times(Append(list, j), i) = Times(list, i) + (IF i = j THEN 1 ELSE 0)
<1>1. /\ <<j>> \in Seq(S) /\ Times(<<j>>, i) = IF i = j THEN 1 ELSE 0
  BY TimesOfOne
<1>2. Append(list, j) = list \o <<j>>
  OBVIOUS
<1>3. Times(list \o <<j>>, i) = Times(list, i) + Times(<<j>>, i)
  BY <1>1, TimesConcat
<1> QED
  BY <1>1, <1>2, <1>3

LEMMA TimesInFront ==
    ASSUME NEW S, NEW list \in Seq(S), NEW j \in S, NEW i
    PROVE  Times(<<j>> \o list, i) = Times(list, i) + (IF i = j THEN 1 ELSE 0)
<1>1. /\ <<j>> \in Seq(S) /\ Times(<<j>>, i) = IF i = j THEN 1 ELSE 0
  BY TimesOfOne
<1>2. Times(<<j>> \o list, i) = Times(<<j>>, i) + Times(list, i)
  BY <1>1, TimesConcat
<1>3. Times(list, i) \in Nat
  BY TimesIsNat
<1> QED
  BY <1>1, <1>2, <1>3

LEMMA RemovedAt ==
    ASSUME NEW S, NEW list \in Seq(S), NEW k \in DOMAIN list
    PROVE  /\ RemoveAt(list, k) \in Seq(S) /\ Len(RemoveAt(list, k)) = Len(list) - 1
           /\ DOMAIN RemoveAt(list, k) = 1 .. (Len(list) - 1)
           /\ \A n \in DOMAIN RemoveAt(list, k) :
                 RemoveAt(list, k)[n] = IF n < k THEN list[n] ELSE list[n + 1]
<1> DEFINE s == SubSeq(list, 1, k - 1)
           t == SubSeq(list, k + 1, Len(list))
<1>1. Len(list) \in Nat /\ k \in 1 .. Len(list)
  OBVIOUS
<1>2. /\ s \in Seq(S) /\ Len(s) = k - 1 /\ \A n \in 1 .. k - 1 : s[n] = list[n]
      /\ t \in Seq(S) /\ Len(t) = Len(list) - k /\ \A n \in 1 .. Len(list) - k : t[n] = list[k + n]
  BY <1>1
<1>3. RemoveAt(list, k) = s \o t
  BY DEF RemoveAt
<1> HIDE DEF s, t
<1>4. /\ s \o t \in Seq(S) /\ Len(s \o t) = Len(list) - 1 /\ DOMAIN (s \o t) = 1 .. (Len(list) - 1)
      /\ \A n \in 1 .. (Len(list) - 1) : (s \o t)[n] = IF n <= k - 1 THEN s[n] ELSE t[n - (k - 1)]
  <2>1. /\ s \o t \in Seq(S) /\ Len(s \o t) = Len(s) + Len(t) /\ DOMAIN (s \o t) = 1 .. Len(s) + Len(t)
        /\ \A n \in 1 .. Len(s) + Len(t) :
              (s \o t)[n] = IF n <= Len(s) THEN s[n] ELSE t[n - Len(s)]
    <3>1. s \in Seq(S) /\ t \in Seq(S)
      BY <1>2
    <3> QED
      BY <3>1, Joined
  <2>2. Len(s) + Len(t) = Len(list) - 1
    BY <1>1, <1>2
  <2> QED
    BY <1>2, <2>1, <2>2
<1>5. ASSUME NEW n \in 1 .. (Len(list) - 1)
      PROVE  (s \o t)[n] = IF n < k THEN list[n] ELSE list[n + 1]
  <2> DEFINE u == s \o t
  <2>0. u[n] = IF n <= k - 1 THEN s[n] ELSE t[n - (k - 1)]
    BY <1>4
  <2> HIDE DEF u
  <2>1. CASE n < k
    <3>1. n <= k - 1 /\ n \in 1 .. k - 1
      BY <1>1, <2>1
    <3> QED
      BY <1>2, <2>0, <2>1, <3>1 DEF u
  <2>2. CASE n >= k
    <3>1. n - (k - 1) \in 1 .. Len(list) - k /\ k + (n - (k - 1)) = n + 1 /\ ~(n <= k - 1) /\ ~(n < k)
      BY <1>1, <2>2
    <3>2. u[n] = list[n + 1]
      BY <1>2, <2>0, <3>1
    <3> QED
      BY <3>1, <3>2 DEF u
  <2>3. n < k \/ n >= k
    BY <1>1
  <2> QED
    BY <2>1, <2>2, <2>3
<1> DEFINE u == s \o t
<1>6. /\ u \in Seq(S) /\ Len(u) = Len(list) - 1 /\ DOMAIN u = 1 .. (Len(list) - 1)
      /\ \A n \in 1 .. (Len(list) - 1) : u[n] = IF n < k THEN list[n] ELSE list[n + 1]
  BY <1>4, <1>5
<1>7. RemoveAt(list, k) = u
  BY <1>3
<1> HIDE DEF u
<1> QED
  BY <1>6, <1>7

LEMMA TimesRemoved ==
    ASSUME NEW S, NEW list \in Seq(S), NEW k \in DOMAIN list, NEW i
    PROVE  Times(list, i) = Times(RemoveAt(list, k), i) + IF list[k] = i THEN 1 ELSE 0
<1> DEFINE R == RemoveAt(list, k)
           A == SpotsOf(R, i)
           B == SpotsOf(list, i) \ {k}
           f == [n \in A |-> IF n < k THEN n ELSE n + 1]
<1>1. Len(list) \in Nat /\ k \in 1 .. Len(list) /\ DOMAIN list = 1 .. Len(list)
  OBVIOUS
<1>2. /\ R \in Seq(S) /\ DOMAIN R = 1 .. (Len(list) - 1)
      /\ \A n \in DOMAIN R : R[n] = IF n < k THEN list[n] ELSE list[n + 1]
  BY RemovedAt
<1> HIDE DEF R
<1>3. /\ IsFiniteSet(A) /\ Times(R, i) = Cardinality(A) /\ Times(R, i) \in Nat
      /\ IsFiniteSet(SpotsOf(list, i)) /\ Times(list, i) = Cardinality(SpotsOf(list, i))
      /\ Times(list, i) \in Nat
  BY <1>2, TimesIsNat
<1>4. Cardinality(B) = Cardinality(A)
  <2>1. f \in [A -> B]
    BY <1>1, <1>2 DEF SpotsOf
  <2>2. \A x, y \in A : f[x] = f[y] => x = y
    BY <1>1, <1>2 DEF SpotsOf
  <2>3. ASSUME NEW y \in B PROVE \E x \in A : f[x] = y
    <3>1. CASE y < k
      <4>1. y \in A /\ f[y] = y
        BY <1>1, <1>2, <3>1 DEF SpotsOf
      <4> QED
        BY <4>1
    <3>2. CASE y > k
      <4>1. y - 1 \in A /\ f[y - 1] = y
        BY <1>1, <1>2, <3>2 DEF SpotsOf
      <4> QED
        BY <4>1
    <3>3. y \in 1 .. Len(list) /\ y # k
      BY <1>1 DEF SpotsOf
    <3> QED
      BY <1>1, <3>1, <3>2, <3>3
  <2> HIDE DEF A, B, f
  <2> QED
    BY <1>3, <2>1, <2>2, <2>3, SameSize
<1>5. k \in SpotsOf(list, i) <=> list[k] = i
  BY DEF SpotsOf
<1>6. Cardinality(B) = IF k \in SpotsOf(list, i) THEN Cardinality(SpotsOf(list, i)) - 1
                       ELSE Cardinality(SpotsOf(list, i))
  BY <1>3, FS_RemoveElement
<1> HIDE DEF A, B, f
<1> QED
  BY <1>3, <1>4, <1>5, <1>6 DEF R

-----------------------------------------------------------------------------
(* EntriesAt() is about places of a list: the entry that comes k-th is     *)
(* that of the place with k places of P up to it.                          *)

LEMMA UpTo ==
    ASSUME NEW len \in Nat, NEW S \in SUBSET (1 .. len)
    PROVE  /\ IsFiniteSet(S) /\ Cardinality(S) \in 0 .. len
           /\ \A n \in S : /\ IsFiniteSet(S \cap (1 .. n))
                           /\ Cardinality(S \cap (1 .. n)) \in 1 .. Cardinality(S)
           /\ \A m, n \in S : m < n => Cardinality(S \cap (1 .. m)) < Cardinality(S \cap (1 .. n))
<1>1. IsFiniteSet(1 .. len) /\ Cardinality(1 .. len) = len
  BY FS_Interval
<1>2. IsFiniteSet(S) /\ Cardinality(S) <= len /\ Cardinality(S) \in Nat
  BY <1>1, FS_Subset, FS_CardinalityType
<1>3. ASSUME NEW n \in S
      PROVE  /\ IsFiniteSet(S \cap (1 .. n))
             /\ Cardinality(S \cap (1 .. n)) \in 1 .. Cardinality(S)
  <2>1. S \cap (1 .. n) \in SUBSET S /\ S \cap (1 .. n) # {}
    OBVIOUS
  <2>2. IsFiniteSet(S \cap (1 .. n)) /\ Cardinality(S \cap (1 .. n)) <= Cardinality(S)
    BY <1>2, <2>1, FS_Subset
  <2>3. Cardinality(S \cap (1 .. n)) \in Nat /\ Cardinality(S \cap (1 .. n)) # 0
    BY <2>1, <2>2, FS_CardinalityType, FS_EmptySet
  <2> QED
    BY <1>2, <2>2, <2>3
<1>4. ASSUME NEW m \in S, NEW n \in S, m < n
      PROVE  Cardinality(S \cap (1 .. m)) < Cardinality(S \cap (1 .. n))
  <2>1. S \cap (1 .. m) \in SUBSET (S \cap (1 .. n)) /\ n \in S \cap (1 .. n) /\ n \notin S \cap (1 .. m)
    BY <1>4
  <2>2. /\ Cardinality(S \cap (1 .. m)) <= Cardinality(S \cap (1 .. n))
        /\ Cardinality(S \cap (1 .. m)) # Cardinality(S \cap (1 .. n))
    BY <1>3, <2>1, FS_Subset
  <2> QED
    BY <1>2, <1>3, <2>2
<1> QED
  BY <1>2, <1>3, <1>4

LEMMA RankOnto ==
    ASSUME NEW len \in Nat, NEW P \in SUBSET (1 .. len)
    PROVE  /\ \A m, n \in P : Cardinality(P \cap (1 .. m)) = Cardinality(P \cap (1 .. n)) => m = n
           /\ \A k \in 1 .. Cardinality(P) : \E n \in P : Cardinality(P \cap (1 .. n)) = k
<1> DEFINE c == Cardinality(P)
           rank == [n \in P |-> Cardinality(P \cap (1 .. n))]
<1>1. c \in Nat /\ IsFiniteSet(P)
  BY UpTo
<1>2. rank \in [P -> 1 .. c]
  BY UpTo
<1>3. \A m, n \in P : m < n => rank[m] < rank[n]
  BY UpTo
<1>4. \A m, n \in P : m \in Int /\ n \in Int
  OBVIOUS
<1>5. \A m, n \in P : rank[m] = rank[n] => m = n
  <2>1. \A m, n \in P : rank[m] \in Int /\ rank[n] \in Int
    BY <1>1, <1>2
  <2> HIDE DEF rank
  <2> QED
    BY <1>3, <1>4, <2>1
<1>6. rank \in Injection(P, 1 .. c)
  BY <1>2, <1>5 DEF Injection, IsInjective
<1>7. IsFiniteSet(1 .. c) /\ Cardinality(1 .. c) = c
  BY <1>1, FS_Interval
<1>8. rank \in Surjection(P, 1 .. c)
  BY <1>6, <1>7, FS_Injection
<1>9. \A k \in 1 .. c : \E n \in P : rank[n] = k
  BY <1>8 DEF Surjection
<1> QED
  BY <1>5, <1>9

LEMMA EntriesAtIs ==
    ASSUME NEW S, NEW L \in Seq(S), NEW P \in SUBSET (DOMAIN L)
    PROVE  /\ EntriesAt(L, P) \in Seq(S) /\ DOMAIN EntriesAt(L, P) = 1 .. Cardinality(P)
           /\ IsFiniteSet(P) /\ Cardinality(P) \in Nat
           /\ \A n \in P : /\ Cardinality(P \cap (1 .. n)) \in 1 .. Cardinality(P)
                           /\ EntriesAt(L, P)[Cardinality(P \cap (1 .. n))] = L[n]
           /\ \A k \in 1 .. Cardinality(P) :
                 \E n \in P : Cardinality(P \cap (1 .. n)) = k /\ EntriesAt(L, P)[k] = L[n]
<1> DEFINE c == Cardinality(P)
           E == EntriesAt(L, P)
<1>1. Len(L) \in Nat /\ DOMAIN L = 1 .. Len(L) /\ P \in SUBSET (1 .. Len(L))
      /\ \A n \in 1 .. Len(L) : L[n] \in S
  OBVIOUS
<1>2. c \in Nat /\ IsFiniteSet(P) /\ \A n \in P : Cardinality(P \cap (1 .. n)) \in 1 .. c
  BY <1>1, UpTo
<1>3. /\ \A m, n \in P : Cardinality(P \cap (1 .. m)) = Cardinality(P \cap (1 .. n)) => m = n
      /\ \A k \in 1 .. c : \E n \in P : Cardinality(P \cap (1 .. n)) = k
  BY <1>1, RankOnto
<1>4. E = [k \in 1 .. c |-> L[CHOOSE n \in P : Cardinality(P \cap (1 .. n)) = k]]
  BY DEF EntriesAt
<1>5. ASSUME NEW n \in P PROVE E[Cardinality(P \cap (1 .. n))] = L[n]
  <2> DEFINE k == Cardinality(P \cap (1 .. n))
             m == CHOOSE x \in P : Cardinality(P \cap (1 .. x)) = k
  <2>1. k \in 1 .. c
    BY <1>2
  <2>2. m \in P /\ Cardinality(P \cap (1 .. m)) = k
    OBVIOUS
  <2>3. m = n
    BY <1>3, <2>2
  <2>4. E[k] = L[m]
    BY <1>4, <2>1
  <2> QED
    BY <2>3, <2>4
<1>6. ASSUME NEW k \in 1 .. c
      PROVE  \E n \in P : Cardinality(P \cap (1 .. n)) = k /\ E[k] = L[n]
  BY <1>3, <1>5
<1>7. DOMAIN E = 1 .. c /\ \A k \in 1 .. c : E[k] \in S
  BY <1>1, <1>4, <1>6
<1>8. E \in Seq(S)
  <2>1. E = [k \in 1 .. c |-> E[k]]
    BY <1>4
  <2> HIDE DEF E, c
  <2>2. E \in [1 .. c -> S]
    BY <1>7, <2>1
  <2> QED
    BY <1>2, <2>2
<1> QED
  BY <1>2, <1>5, <1>6, <1>7, <1>8

LEMMA TimesAt ==
    ASSUME NEW S, NEW L \in Seq(S), NEW P \in SUBSET (DOMAIN L), NEW i
    PROVE  /\ Times(EntriesAt(L, P), i) = Cardinality(P \cap SpotsOf(L, i))
           /\ IsFiniteSet(P \cap SpotsOf(L, i))
<1> DEFINE E == EntriesAt(L, P)
           A == P \cap SpotsOf(L, i)
           B == SpotsOf(E, i)
           f == [n \in A |-> Cardinality(P \cap (1 .. n))]
<1>1. /\ E \in Seq(S) /\ DOMAIN E = 1 .. Cardinality(P) /\ IsFiniteSet(P)
      /\ \A n \in P : /\ Cardinality(P \cap (1 .. n)) \in 1 .. Cardinality(P)
                      /\ E[Cardinality(P \cap (1 .. n))] = L[n]
      /\ \A k \in 1 .. Cardinality(P) :
            \E n \in P : Cardinality(P \cap (1 .. n)) = k /\ E[k] = L[n]
  <2>1. E \in Seq(S) /\ DOMAIN E = 1 .. Cardinality(P) /\ IsFiniteSet(P)
    BY EntriesAtIs
  <2>2. ASSUME NEW n \in P
        PROVE  /\ Cardinality(P \cap (1 .. n)) \in 1 .. Cardinality(P)
               /\ E[Cardinality(P \cap (1 .. n))] = L[n]
    <3>1. Cardinality(P \cap (1 .. n)) \in 1 .. Cardinality(P)
      BY EntriesAtIs
    <3>2. E[Cardinality(P \cap (1 .. n))] = L[n]
      BY EntriesAtIs
    <3> QED
      BY <3>1, <3>2
  <2>3. \A k \in 1 .. Cardinality(P) :
          \E n \in P : Cardinality(P \cap (1 .. n)) = k /\ E[k] = L[n]
    BY EntriesAtIs
  <2> QED
    BY <2>1, <2>2, <2>3
<1>2. \A m, n \in P : Cardinality(P \cap (1 .. m)) = Cardinality(P \cap (1 .. n)) => m = n
  <2>1. Len(L) \in Nat /\ P \in SUBSET (1 .. Len(L))
    OBVIOUS
  <2> QED
    BY <2>1, RankOnto
<1> HIDE DEF E
<1>3. f \in [A -> B]
  BY <1>1 DEF SpotsOf
<1>4. \A x, y \in A : f[x] = f[y] => x = y
  BY <1>2
<1>5. ASSUME NEW k \in B PROVE \E x \in A : f[x] = k
  <2>1. k \in 1 .. Cardinality(P) /\ E[k] = i
    BY <1>1 DEF SpotsOf
  <2>2. PICK n \in P : Cardinality(P \cap (1 .. n)) = k /\ E[k] = L[n]
    BY <1>1, <2>1
  <2>3. n \in A /\ f[n] = k
    BY <2>1, <2>2 DEF SpotsOf
  <2> QED
    BY <2>3
<1>6. IsFiniteSet(A)
  BY <1>1, FS_Subset
<1> HIDE DEF A, B, f
<1>7. Cardinality(B) = Cardinality(A)
  BY <1>3, <1>4, <1>5, <1>6, SameSize
<1>8. Times(E, i) = Cardinality(SpotsOf(E, i))
  BY <1>1, TimesIsNat
<1> QED
  BY <1>6, <1>7, <1>8 DEF A, B, E

-----------------------------------------------------------------------------
(* The invariant.                                                          *)

States == {"none", "world", "out", "freed"}
Object ==
    [state : States, kind : Kinds \cup {Unused.kind}, duration : Int, decaying : BOOLEAN,
     refs : Nat, age : Nat, total : Int, once : BOOLEAN]
Lists == [1..Buckets -> Seq(Items)]
ItemStates == [of : [Items -> Object], new : Seq(Items), release : Seq(Items)]

InWorld(own) == own.state = "world"

\* An object by itself: a kind that counts time has some left.
ObjectOK(own) ==
    /\ own.state \in {"none", "freed"} <=> own.refs = 0
    /\ InWorld(own) => /\ own.kind \in Kinds /\ (own.duration = NoTime \/ own.duration > 0)
                       /\ decayTime[own.kind] > 0 => own.duration > 0
\* startDecay() has been called for it.
Started(own) == CanDecay(own) => own.decaying

\* The references that neither the world nor what waits accounts for.
InUse(own) == IF InWorld(own) THEN 1 ELSE 0
Owed(S, i) == S.of[i].refs - InUse(S.of[i]) - Times(S.new, i) - Times(S.release, i)

Listings(i) == Entries(i) + Waiting(ItemState, i)
Marked(own) == InWorld(own) /\ own.decaying

DecayTypeOK ==
    /\ item \in [Items -> Object] /\ decayItems \in Lists
    /\ toDecayItems \in Seq(Items) /\ toReleaseItems \in Seq(Items)
    /\ lastBucket \in 1..Buckets /\ visit \in Nat

Accounted == \A i \in Items : Owed(ItemState, i) = Entries(i)
AllStarted == \A i \in Items : ObjectOK(item[i]) /\ Started(item[i])
MarkedListed ==
    \A i \in Items : Marked(item[i]) =>
        Listings(i) > 0 /\ (item[i].once => Listings(i) = 1)

\* The passes that begin until the entry p of list b is visited.
Ahead(b, p, last, at) ==
    LET turns == ((b - last + 3) % 4) + 1
    IN  IF at = 0 THEN turns
        ELSE IF b = Next(last) /\ p < at THEN 4 ELSE turns - 1

\* An item with that age at its next visit.
OnTime(own, age) ==
    \/ own.duration < 8 /\ own.total = own.duration /\ age \in {1, 2}
    \/ own.duration >= 8 /\ 2 * age \in {own.total - own.duration + 8, own.total - own.duration + 10}
    \/ own.duration = 7 /\ 2 * age \in {own.total - 5, own.total - 3}

WaitsInTime(i) ==
    Times(toDecayItems, i) > 0 => /\ item[i].total = item[i].duration
                                  /\ item[i].age \in IF visit = 0 THEN {0} ELSE {0, 1}
IsInTime(i, b, p) ==
    decayItems[b][p] = i => OnTime(item[i], item[i].age + Ahead(b, p, lastBucket, visit))
InTime ==
    \A i \in Items : Marked(item[i]) /\ item[i].once =>
        WaitsInTime(i) /\ \A b \in 1..4 : \A p \in DOMAIN decayItems[b] : IsInTime(i, b, p)

DecayInv == DecayTypeOK /\ Accounted /\ AllStarted /\ MarkedListed /\ InTime

-----------------------------------------------------------------------------
(* What the operations make of an object and of the lists.                 *)

LEMMA ObjectKept ==
    ASSUME NEW own \in Object, NEW k \in Kinds, NEW d \in Int
    PROVE  [own EXCEPT !.kind = k, !.decaying = FALSE, !.duration = d] \in Object
  BY DEF Object

LEMMA ObjectEnlisted ==
    ASSUME NEW own \in Object, NEW t \in Int, NEW b \in BOOLEAN, NEW n \in Nat
    PROVE  [own EXCEPT !.refs = n, !.decaying = TRUE, !.age = 0,
                       !.once = b, !.total = t] \in Object
  BY DEF Object

LEMMA CreatedIs ==
    ASSUME NEW k \in Kinds
    PROVE  /\ Created(k) \in Object /\ ObjectOK(Created(k)) /\ InWorld(Created(k))
           /\ ~Created(k).decaying /\ Created(k).refs = 1 /\ Created(k).kind = k
           /\ Created(k).duration = IF decayTime[k] > 0 THEN decayTime[k] ELSE NoTime
<1>1. decayTime[k] \in Nat
  BY DecayAssumption DEF DecayAssumption
<1>2. Unused \in Object
  BY DEF Unused, Object, States, NoTime
<1> DEFINE d == IF decayTime[k] > 0 THEN decayTime[k] ELSE NoTime
           new == [Unused EXCEPT !.state = "world", !.kind = k, !.refs = 1, !.duration = d]
<1>3. d \in Int /\ Created(k) = new
  BY <1>1 DEF Created, NoTime
<1>4. /\ new \in Object /\ new.state = "world" /\ new.refs = 1 /\ new.kind = k /\ new.duration = d
  BY <1>2, <1>3 DEF Object, States
<1>5. ~new.decaying
  BY DEF Unused
<1> HIDE DEF new
<1>6. InWorld(new) /\ ObjectOK(new)
  BY <1>1, <1>4 DEF ObjectOK, InWorld, NoTime
<1> QED
  BY <1>3, <1>4, <1>5, <1>6

LEMMA SetIDIs ==
    ASSUME NEW own \in Object, NEW k \in Kinds, InWorld(own), own.kind \in Kinds, own.refs # 0,
           \/ ObjectOK(own)
           \/ decayTime[own.kind] > 0 /\ decayTo[own.kind] = k
    PROVE  LET new == SetID(own, k) IN
           /\ new \in Object /\ ObjectOK(new) /\ InWorld(new) /\ new.refs = own.refs
           /\ new.decaying => /\ ~(decayTime[own.kind] > 0 /\ decayTo[own.kind] = k)
                              /\ own.decaying /\ new.duration = own.duration
           /\ new.age = own.age /\ new.total = own.total /\ new.once = own.once
<1> DEFINE stays == decayTime[k] = 0 /\ k \notin stopTime /\ decayTo[k] = Stays
           resets == decayTime[k] > 0 /\ (own.kind \notin stopTime \/ own.duration = NoTime)
<1>1. decayTime[k] \in Nat /\ decayTime[own.kind] \in Nat
  BY DecayAssumption DEF DecayAssumption
<1>2. decayTime[own.kind] > 0 /\ decayTo[own.kind] = k => stays \/ resets
  BY DecayedKindsAssumption DEF DecayedKindsAssumption
<1>3. CASE stays
  <2>1. SetID(own, k) = [own EXCEPT !.kind = k, !.decaying = FALSE, !.duration = NoTime]
    BY <1>3 DEF SetID
  <2> DEFINE new == [own EXCEPT !.kind = k, !.decaying = FALSE, !.duration = NoTime]
  <2>2. /\ new \in Object /\ new.kind = k /\ new.duration = NoTime /\ new.state = own.state
        /\ new.refs = own.refs /\ new.age = own.age /\ new.total = own.total /\ new.once = own.once
    <3>1. new \in Object
      <4>1. NoTime \in Int /\ decayTime[k] \in Int
        BY <1>1 DEF NoTime
      <4> QED
        BY <4>1, ObjectKept, Zenon
    <3>2. /\ new.kind = k /\ new.duration = NoTime /\ new.state = own.state
          /\ new.refs = own.refs /\ new.age = own.age /\ new.total = own.total
      BY DEF Object
    <3>3. new.once = own.once
      BY DEF Object
    <3> QED
      BY <3>1, <3>2, <3>3
  <2>3. ~new.decaying
    BY DEF Object
  <2>4. SetID(own, k) = new
    BY <2>1
  <2> HIDE DEF new
  <2>5. InWorld(new) /\ ObjectOK(new)
    BY <1>1, <1>3, <2>2 DEF ObjectOK, InWorld, NoTime
  <2> QED
    BY <2>2, <2>3, <2>4, <2>5
<1>4. CASE ~stays /\ resets
  <2>1. SetID(own, k) = [own EXCEPT !.kind = k, !.decaying = FALSE, !.duration = decayTime[k]]
    BY <1>4 DEF SetID
  <2> DEFINE new == [own EXCEPT !.kind = k, !.decaying = FALSE, !.duration = decayTime[k]]
  <2>2. /\ new \in Object /\ new.kind = k /\ new.duration = decayTime[k] /\ new.state = own.state
        /\ new.refs = own.refs /\ new.age = own.age /\ new.total = own.total /\ new.once = own.once
    <3>1. new \in Object
      <4>1. NoTime \in Int /\ decayTime[k] \in Int
        BY <1>1 DEF NoTime
      <4> QED
        BY <4>1, ObjectKept, Zenon
    <3>2. /\ new.kind = k /\ new.duration = decayTime[k] /\ new.state = own.state
          /\ new.refs = own.refs /\ new.age = own.age /\ new.total = own.total
      BY DEF Object
    <3>3. new.once = own.once
      BY DEF Object
    <3> QED
      BY <3>1, <3>2, <3>3
  <2>3. ~new.decaying
    BY DEF Object
  <2>4. SetID(own, k) = new
    BY <2>1
  <2> HIDE DEF new
  <2>5. InWorld(new) /\ ObjectOK(new)
    BY <1>1, <1>4, <2>2 DEF ObjectOK, InWorld, NoTime
  <2> QED
    BY <2>2, <2>3, <2>4, <2>5
<1>5. CASE ~stays /\ ~resets
  <2>1. SetID(own, k) = [own EXCEPT !.kind = k]
    BY <1>5 DEF SetID
  <2>2. ObjectOK(own) /\ ~(decayTime[own.kind] > 0 /\ decayTo[own.kind] = k)
    BY <1>2, <1>5
  <2>3. decayTime[k] > 0 => own.duration > 0
    BY <1>5, <2>2 DEF ObjectOK
  <2> QED
    BY <1>1, <2>1, <2>2, <2>3 DEF Object, ObjectOK, InWorld, NoTime
<1> QED
  BY <1>3, <1>4, <1>5

LEMMA TakenOutIs ==
    ASSUME NEW S \in ItemStates, NEW i \in Items, InWorld(S.of[i]), S.of[i].refs # 0
    PROVE  LET T == TakenOut(S, i) IN
           /\ T \in ItemStates /\ T.new = S.new
           /\ \A y \in Items \ {i} : T.of[y] = S.of[y]
           /\ T.of[i].state = "out" /\ ObjectOK(T.of[i]) /\ Started(T.of[i])
           /\ \A y \in Items : Owed(T, y) = Owed(S, y)
<1> DEFINE own == [S.of[i] EXCEPT !.state = "out"]
           of == [S.of EXCEPT ![i] = own]
           T == [S EXCEPT !.of = of, !.release = Append(S.release, i)]
<1>1. S.of \in [Items -> Object] /\ S.new \in Seq(Items) /\ S.release \in Seq(Items)
  BY DEF ItemStates
<1>2. TakenOut(S, i) = T
  BY DEF TakenOut, ItemStates
<1>3. own \in Object /\ own.state = "out" /\ own.refs = S.of[i].refs
  BY <1>1 DEF Object, States
<1> HIDE DEF own
<1>4. of \in [Items -> Object] /\ of[i] = own /\ \A y \in Items \ {i} : of[y] = S.of[y]
  BY <1>1, <1>3
<1> HIDE DEF of
<1>5. Append(S.release, i) \in Seq(Items)
  BY <1>1
<1>6. T \in ItemStates /\ T.of = of /\ T.new = S.new /\ T.release = Append(S.release, i)
  BY <1>4, <1>5 DEF ItemStates
<1> HIDE DEF T
<1>7. ASSUME NEW y \in Items PROVE Owed(T, y) = Owed(S, y)
  <2>1. Times(T.release, y) = Times(S.release, y) + IF y = i THEN 1 ELSE 0
    <3>1. Times(Append(S.release, i), y) = Times(S.release, y) + IF y = i THEN 1 ELSE 0
      BY <1>1, TimesAppended
    <3> QED
      BY <1>6, <3>1
  <2>2. Times(S.release, y) \in Nat /\ Times(S.new, y) \in Nat /\ S.of[y].refs \in Nat
    BY <1>1, TimesIsNat DEF Object
  <2>3. InUse(S.of[i]) = 1 /\ InUse(own) = 0
    BY <1>3 DEF InUse, InWorld
  <2>4. InUse(S.of[y]) \in Int
    BY DEF InUse
  <2>5. T.of[y].refs = S.of[y].refs /\ InUse(T.of[y]) = InUse(S.of[y]) - (IF y = i THEN 1 ELSE 0)
    BY <1>3, <1>4, <1>6, <2>3, <2>4
  <2> QED
    BY <1>6, <2>1, <2>2, <2>4, <2>5 DEF Owed
<1>8. ObjectOK(own) /\ Started(own)
  BY <1>3 DEF ObjectOK, Started, CanDecay, InWorld
<1> QED
  BY <1>2, <1>3, <1>4, <1>6, <1>7, <1>8

\* One object changes, and neither its references nor whether it is in the world.
LEMMA ChangedIs ==
    ASSUME NEW S \in ItemStates, NEW i \in Items, NEW own \in Object,
           own.refs - InUse(own) = S.of[i].refs - InUse(S.of[i])
    PROVE  LET T == [S EXCEPT !.of[i] = own] IN
           /\ T \in ItemStates /\ T.new = S.new /\ T.of[i] = own
           /\ \A y \in Items \ {i} : T.of[y] = S.of[y]
           /\ \A y \in Items : Owed(T, y) = Owed(S, y)
<1> DEFINE T == [S EXCEPT !.of[i] = own]
<1>1. S.of \in [Items -> Object]
  BY DEF ItemStates
<1>2. T \in ItemStates /\ T.of = [S.of EXCEPT ![i] = own] /\ T.new = S.new /\ T.release = S.release
  BY DEF ItemStates
<1> HIDE DEF T
<1>3. T.of[i] = own /\ \A y \in Items \ {i} : T.of[y] = S.of[y]
  BY <1>1, <1>2
<1>4. ASSUME NEW y \in Items PROVE Owed(T, y) = Owed(S, y)
  <2>1. T.of[y].refs - InUse(T.of[y]) = S.of[y].refs - InUse(S.of[y])
    BY <1>3
  <2> QED
    BY <1>2, <2>1 DEF Owed
<1> QED
  BY <1>2, <1>3, <1>4 DEF T

\* startDecay() enlists what can decay and is not enlisted.
LEMMA StartIs ==
    ASSUME NEW S \in ItemStates, NEW i \in Items, NEW e \in Int,
           InWorld(S.of[i]), ObjectOK(S.of[i])
    PROVE  LET T == StartDecay(S, i, e) IN
           /\ T \in ItemStates
           /\ \A y \in Items \ {i} : T.of[y] = S.of[y]
           /\ InWorld(T.of[i]) /\ ObjectOK(T.of[i]) /\ Started(T.of[i])
           /\ \A y \in Items : Owed(T, y) = Owed(S, y)
           /\ \/ T = S
              \/ /\ T.new = <<i>> \o S.new /\ T.of[i].age = 0
                 /\ T.of[i].once => e + Times(S.new, i) = 0 /\ T.of[i].total = T.of[i].duration
<1> DEFINE T == StartDecay(S, i, e)
           own == S.of[i]
<1>1. S.of \in [Items -> Object] /\ S.new \in Seq(Items) /\ S.release \in Seq(Items)
  BY DEF ItemStates
<1>2. own \in Object /\ own.kind \in Kinds /\ decayTime[own.kind] \in Nat
  BY <1>1, DecayAssumption DEF DecayAssumption, ObjectOK
<1>3. CASE ~CanDecay(own) \/ own.decaying
  <2>1. T = S
    BY <1>3 DEF StartDecay
  <2>2. Started(own)
    BY <1>3 DEF Started
  <2> QED
    BY <2>1, <2>2
<1>4. CASE CanDecay(own) /\ ~own.decaying
  <2>1. own.duration > 0 /\ own.duration # NoTime /\ Duration(own) = own.duration
    BY <1>2, <1>4 DEF CanDecay, ObjectOK, InWorld, Duration, NoTime, Object
  <2>2. T = Enlisted(S, i, e + Waiting(S, i))
    BY <1>4, <2>1 DEF StartDecay
  <2> DEFINE n == e + Waiting(S, i)
             first == n = 0
             total == IF first THEN own.duration ELSE 0
             new == [own EXCEPT !.refs = own.refs + 1, !.decaying = TRUE, !.age = 0,
                                !.once = first, !.total = total]
             of == [S.of EXCEPT ![i] = new]
             U == [S EXCEPT !.new = <<i>> \o S.new, !.of = of]
  <2>3. T = U
    <3>3. T = [S EXCEPT !.new = <<i>> \o S.new, !.of[i] =
                 [own EXCEPT !.refs = own.refs + 1, !.decaying = TRUE, !.age = 0,
                             !.once = n = 0, !.total = IF n = 0 THEN Duration(S.of[i]) ELSE 0]]
      BY <2>2 DEF Enlisted
    <3>4. total = IF n = 0 THEN Duration(S.of[i]) ELSE 0
      BY <2>1
    <3> HIDE DEF n, first, total, T
    <3>5. [S EXCEPT !.new = <<i>> \o S.new, !.of[i] = new] = U
      BY <1>1 DEF ItemStates
    <3> QED
      BY <3>3, <3>4, <3>5 DEF first, total
  <2>4. n = e + Times(S.new, i) /\ first \in BOOLEAN /\ total \in Int /\ (first => total = own.duration)
    BY <1>2 DEF Waiting, Object
  <2> HIDE DEF T, n, first, total
  <2>5. /\ new \in Object /\ new.state = own.state /\ new.kind = own.kind
        /\ new.duration = own.duration /\ new.age = 0 /\ new.refs = own.refs + 1
        /\ new.once = first /\ new.total = total
    <3>1. new \in Object
      <4>1. own.refs + 1 \in Nat
        BY <1>2 DEF Object
      <4> QED
        BY <1>2, <2>4, <4>1, ObjectEnlisted
    <3>2. /\ new.state = own.state /\ new.kind = own.kind /\ new.duration = own.duration
          /\ new.age = 0 /\ new.refs = own.refs + 1 /\ new.total = total
      BY <1>2, <2>4 DEF Object
    <3>3. new.once = first
      BY <1>2, <2>4 DEF Object
    <3> QED
      BY <3>1, <3>2, <3>3
  <2>6. new.decaying
    BY <1>2 DEF Object
  <2> HIDE DEF new
  <2>7. of \in [Items -> Object] /\ of[i] = new /\ \A y \in Items \ {i} : of[y] = S.of[y]
    BY <1>1, <2>5
  <2>8. <<i>> \o S.new \in Seq(Items)
    BY <1>1
  <2> HIDE DEF of
  <2>9. U \in ItemStates /\ U.of = of /\ U.new = <<i>> \o S.new /\ U.release = S.release
    BY <2>7, <2>8 DEF ItemStates
  <2> HIDE DEF U
  <2>10. InWorld(new) /\ ObjectOK(new) /\ Started(new)
    BY <1>2, <2>5, <2>6 DEF InWorld, ObjectOK, Started, Object
  <2>11. ASSUME NEW y \in Items PROVE Owed(U, y) = Owed(S, y)
    <3>1. Times(U.new, y) = Times(S.new, y) + IF y = i THEN 1 ELSE 0
      BY <1>1, <2>9, TimesInFront
    <3>2. Times(S.release, y) \in Nat /\ Times(S.new, y) \in Nat /\ S.of[y].refs \in Nat
      BY <1>1, TimesIsNat DEF Object
    <3>3. InUse(U.of[y]) = InUse(S.of[y]) /\ InUse(S.of[y]) \in Int
      BY <2>5, <2>7, <2>9 DEF InUse, InWorld
    <3>4. U.of[y].refs = S.of[y].refs + IF y = i THEN 1 ELSE 0
      BY <2>5, <2>7, <2>9, <3>2
    <3> QED
      BY <2>9, <3>1, <3>2, <3>3, <3>4 DEF Owed
  <2>12. new.once => e + Times(S.new, i) = 0 /\ new.total = new.duration
    BY <2>4, <2>5 DEF first
  <2> QED
    BY <2>3, <2>5, <2>7, <2>9, <2>10, <2>11, <2>12 DEF T
<1> QED
  BY <1>3, <1>4

-----------------------------------------------------------------------------
(* What a task makes of the items: at most j is enlisted, and who else     *)
(* changes leaves the world.                                               *)

SameClock(own, new) ==
    /\ Marked(own) /\ new.duration = own.duration /\ new.age = own.age
    /\ new.total = own.total /\ (new.once => own.once)

Outcome(S, T, j, e) ==
    /\ T \in ItemStates
    /\ \A y \in Items : Owed(T, y) = Owed(S, y) /\ ObjectOK(T.of[y]) /\ Started(T.of[y])
    /\ \A y \in Items \ {j} : T.of[y] = S.of[y] \/ ~InWorld(T.of[y])
    /\ \/ T.new = S.new /\ (Marked(T.of[j]) => SameClock(S.of[j], T.of[j]))
       \/ /\ T.new = <<j>> \o S.new /\ T.of[j].age = 0
          /\ T.of[j].once => e + Times(S.new, j) = 0 /\ T.of[j].total = T.of[j].duration

OthersOK(S, i) == \A y \in Items \ {i} : ObjectOK(S.of[y]) /\ Started(S.of[y])

LEMMA RemovedIs ==
    ASSUME NEW S \in ItemStates, NEW i \in Items, InWorld(S.of[i]), S.of[i].refs # 0,
           OthersOK(S, i), NEW e
    PROVE  LET T == TakenOut(S, i) IN Outcome(S, T, i, e) /\ T.new = S.new /\ ~Marked(T.of[i])
<1> DEFINE T == TakenOut(S, i)
<1>1. /\ T \in ItemStates /\ T.new = S.new
      /\ \A y \in Items \ {i} : T.of[y] = S.of[y]
      /\ T.of[i].state = "out" /\ ObjectOK(T.of[i]) /\ Started(T.of[i])
      /\ \A y \in Items : Owed(T, y) = Owed(S, y)
  BY TakenOutIs
<1> HIDE DEF T
<1>2. ~Marked(T.of[i])
  BY <1>1 DEF Marked, InWorld
<1>3. \A y \in Items : ObjectOK(T.of[y]) /\ Started(T.of[y])
  BY <1>1 DEF OthersOK
<1> QED
  BY <1>1, <1>2, <1>3 DEF Outcome, T

LEMMA AddedIs ==
    ASSUME NEW S \in ItemStates, NEW i \in Items, S.of[i].state = "none", S.of[i].refs = 0,
           OthersOK(S, i), NEW own \in Object, ObjectOK(own), InWorld(own), own.refs = 1,
           ~own.decaying, NEW e \in Int
    PROVE  LET T == StartDecay([S EXCEPT !.of[i] = own], i, e) IN
           Outcome(S, T, i, e)
<1> DEFINE U == [S EXCEPT !.of[i] = own]
           T == StartDecay(U, i, e)
<1>1. own.refs - InUse(own) = S.of[i].refs - InUse(S.of[i])
  BY DEF InUse, InWorld
<1>2. /\ U \in ItemStates /\ U.new = S.new /\ U.of[i] = own
      /\ \A y \in Items \ {i} : U.of[y] = S.of[y]
      /\ \A y \in Items : Owed(U, y) = Owed(S, y)
  BY <1>1, ChangedIs
<1> HIDE DEF U
<1>3. InWorld(U.of[i]) /\ ObjectOK(U.of[i])
  BY <1>2
<1>4. /\ T \in ItemStates
      /\ \A y \in Items \ {i} : T.of[y] = U.of[y]
      /\ InWorld(T.of[i]) /\ ObjectOK(T.of[i]) /\ Started(T.of[i])
      /\ \A y \in Items : Owed(T, y) = Owed(U, y)
      /\ \/ T = U
         \/ /\ T.new = <<i>> \o U.new /\ T.of[i].age = 0
            /\ T.of[i].once => e + Times(U.new, i) = 0 /\ T.of[i].total = T.of[i].duration
  BY <1>2, <1>3, StartIs
<1> HIDE DEF T
<1>5. \A y \in Items : ObjectOK(T.of[y]) /\ Started(T.of[y])
  BY <1>2, <1>4 DEF OthersOK
<1>6. ~Marked(U.of[i])
  BY <1>2 DEF Marked
<1> QED
  BY <1>2, <1>4, <1>5, <1>6 DEF Outcome, T, U

DecaysTo(own, k) == decayTime[own.kind] > 0 /\ decayTo[own.kind] = k

LEMMA TurnedIs ==
    ASSUME NEW S \in ItemStates, NEW i \in Items, NEW j \in Items, NEW k \in Kinds, NEW e \in Int,
           InWorld(S.of[i]), S.of[i].kind \in Kinds, S.of[i].refs # 0,
           ObjectOK(S.of[i]) \/ DecaysTo(S.of[i], k),
           OthersOK(S, i),
           j # i => S.of[j].state = "none" /\ S.of[j].refs = 0
    PROVE  LET T == StartDecay(Transformed(S, i, k, j), j, e) IN
           /\ Outcome(S, T, j, e)
           /\ DecaysTo(S.of[i], k) /\ T.new = S.new => ~Marked(T.of[j])
           /\ j # i => ~InWorld(T.of[i])
<1> DEFINE U == Transformed(S, i, k, j)
           T == StartDecay(U, j, e)
<1>0. S.of \in [Items -> Object]
  BY DEF ItemStates
<1>1. CASE j = i
  <2> DEFINE own == SetID(S.of[i], k)
  <2>1. U = [S EXCEPT !.of[i] = own]
    BY <1>1 DEF Transformed
  <2>2. /\ own \in Object /\ ObjectOK(own) /\ InWorld(own) /\ own.refs = S.of[i].refs
        /\ own.decaying => /\ ~DecaysTo(S.of[i], k)
                           /\ S.of[i].decaying /\ own.duration = S.of[i].duration
        /\ own.age = S.of[i].age /\ own.total = S.of[i].total /\ own.once = S.of[i].once
    <3> DEFINE own0 == S.of[i]
    <3>1. own0 \in Object
      BY <1>0
    <3>2. InWorld(own0) /\ own0.kind \in Kinds /\ own0.refs # 0
          /\ (ObjectOK(own0) \/ (decayTime[own0.kind] > 0 /\ decayTo[own0.kind] = k))
      BY DEF DecaysTo
    <3> HIDE DEF own0
    <3>3. LET new == SetID(own0, k) IN
           /\ new \in Object /\ ObjectOK(new) /\ InWorld(new) /\ new.refs = own0.refs
           /\ new.decaying => /\ ~(decayTime[own0.kind] > 0 /\ decayTo[own0.kind] = k)
                              /\ own0.decaying /\ new.duration = own0.duration
           /\ new.age = own0.age /\ new.total = own0.total /\ new.once = own0.once
      BY <3>1, <3>2, SetIDIs
    <3> QED
      BY <3>3 DEF own0, DecaysTo
  <2> HIDE DEF own, U
  <2>3. own.refs - InUse(own) = S.of[i].refs - InUse(S.of[i])
    BY <2>2 DEF InUse
  <2>4. /\ U \in ItemStates /\ U.new = S.new /\ U.of[i] = own
        /\ \A y \in Items \ {i} : U.of[y] = S.of[y]
        /\ \A y \in Items : Owed(U, y) = Owed(S, y)
    BY <2>1, <2>2, <2>3, ChangedIs
  <2>5. InWorld(U.of[i]) /\ ObjectOK(U.of[i])
    BY <2>2, <2>4
  <2>6. /\ T \in ItemStates
        /\ \A y \in Items \ {j} : T.of[y] = U.of[y]
        /\ InWorld(T.of[j]) /\ ObjectOK(T.of[j]) /\ Started(T.of[j])
        /\ \A y \in Items : Owed(T, y) = Owed(U, y)
        /\ \/ T = U
           \/ /\ T.new = <<j>> \o U.new /\ T.of[j].age = 0
              /\ T.of[j].once => e + Times(U.new, j) = 0 /\ T.of[j].total = T.of[j].duration
    <3>1. InWorld(U.of[j]) /\ ObjectOK(U.of[j])
      BY <1>1, <2>5
    <3> QED
      BY <2>4, <3>1, StartIs, Zenon
  <2> HIDE DEF T
  <2>7. \A y \in Items : ObjectOK(T.of[y]) /\ Started(T.of[y])
    BY <1>1, <2>4, <2>6 DEF OthersOK
  <2>8. Marked(U.of[j]) => SameClock(S.of[j], U.of[j]) /\ ~DecaysTo(S.of[i], k)
    BY <1>1, <2>2, <2>4 DEF Marked, SameClock
  <2>9. T.new = S.new => T = U
    <3>1. S.new \in Seq(Items)
      BY DEF ItemStates
    <3>2. Len(<<j>> \o S.new) # Len(S.new)
      BY <3>1
    <3> QED
      BY <2>4, <2>6, <3>2
  <2>10. Outcome(S, T, j, e)
    BY <1>1, <2>4, <2>6, <2>7, <2>8 DEF Outcome
  <2> QED
    BY <1>1, <2>8, <2>9, <2>10 DEF T, U
<1>2. CASE j # i
  <2> DEFINE V == TakenOut(S, i)
             own == Created(k)
  <2>1. /\ V \in ItemStates /\ V.new = S.new
        /\ \A y \in Items \ {i} : V.of[y] = S.of[y]
        /\ V.of[i].state = "out" /\ ObjectOK(V.of[i]) /\ Started(V.of[i])
        /\ \A y \in Items : Owed(V, y) = Owed(S, y)
    BY TakenOutIs
  <2>2. U = [V EXCEPT !.of[j] = own]
    BY <1>2 DEF Transformed
  <2>3. own \in Object /\ ObjectOK(own) /\ InWorld(own) /\ own.refs = 1 /\ ~own.decaying
    BY CreatedIs
  <2> HIDE DEF V, own, U
  <2>4. V.of[j].state = "none" /\ V.of[j].refs = 0 /\ OthersOK(V, j)
    BY <1>2, <2>1 DEF OthersOK
  <2>5. Outcome(V, StartDecay([V EXCEPT !.of[j] = own], j, e), j, e)
    BY <2>1, <2>3, <2>4, AddedIs
  <2>6. Outcome(V, T, j, e)
    BY <2>2, <2>5
  <2> HIDE DEF T
  <2>7. T.of[i] = V.of[i] \/ ~InWorld(T.of[i])
    BY <1>2, <2>6 DEF Outcome
  <2>8. ~InWorld(T.of[i])
    BY <2>1, <2>7 DEF InWorld
  <2>9. T.new = V.new => ~Marked(T.of[j])
    <3>1. V.new \in Seq(Items)
      BY <2>1 DEF ItemStates
    <3>2. Len(<<j>> \o V.new) # Len(V.new)
      BY <3>1
    <3>3. ~SameClock(V.of[j], T.of[j])
      BY <2>4 DEF SameClock, Marked, InWorld
    <3> QED
      BY <2>6, <3>2, <3>3 DEF Outcome
  <2>10. Outcome(S, T, j, e)
    <3>1. \A y \in Items : Owed(T, y) = Owed(S, y)
      BY <2>1, <2>6 DEF Outcome
    <3>2. \A y \in Items \ {j} : T.of[y] = S.of[y] \/ ~InWorld(T.of[y])
      BY <2>1, <2>6, <2>8 DEF Outcome
    <3> QED
      BY <2>1, <2>6, <2>9, <3>1, <3>2 DEF Outcome
  <2> QED
    BY <1>2, <2>1, <2>8, <2>9, <2>10 DEF T, U
<1> QED
  BY <1>1, <1>2

-----------------------------------------------------------------------------
(* The tasks between two passes.                                           *)

\* The parts of the invariant at one item, the timing aside.
ItemOK(i) ==
    /\ Owed(ItemState, i) = Entries(i)
    /\ ObjectOK(item[i]) /\ Started(item[i])
    /\ Marked(item[i]) => Listings(i) > 0 /\ (item[i].once => Listings(i) = 1)

LEMMA InvByItem ==
    DecayInv <=> DecayTypeOK /\ InTime /\ \A y \in Items : ItemOK(y)
  BY DEF DecayInv, ItemOK, Accounted, AllStarted, MarkedListed

\* Entries(i), of any lists.
EntriesIn(L, i) == Times(L[1], i) + Times(L[2], i) + Times(L[3], i) + Times(L[4], i)

LEMMA FourLists ==
    ASSUME NEW L \in Lists, NEW i
    PROVE  /\ Times(L[1], i) \in Nat /\ Times(L[2], i) \in Nat
           /\ Times(L[3], i) \in Nat /\ Times(L[4], i) \in Nat
           /\ EntriesIn(L, i) \in Nat
           /\ \A b \in 1..4 : /\ L[b] \in Seq(Items) /\ Times(L[b], i) \in Nat
                              /\ b = 1 \/ b = 2 \/ b = 3 \/ b = 4
<1>1. \A b \in 1..4 : L[b] \in Seq(Items)
  BY DEF Lists, Buckets
<1>2. \A b \in 1..4 : Times(L[b], i) \in Nat
  BY <1>1, TimesIsNat
<1>3. /\ Times(L[1], i) \in Nat /\ Times(L[2], i) \in Nat
      /\ Times(L[3], i) \in Nat /\ Times(L[4], i) \in Nat
  BY <1>2
<1> QED
  BY <1>1, <1>2, <1>3 DEF EntriesIn

LEMMA NoEntries ==
    ASSUME NEW L \in Lists, NEW i, EntriesIn(L, i) = 0
    PROVE  \A b \in 1..4 : \A p \in DOMAIN L[b] : L[b][p] # i
<1>1. Times(L[1], i) = 0 /\ Times(L[2], i) = 0 /\ Times(L[3], i) = 0 /\ Times(L[4], i) = 0
  <2>1. /\ Times(L[1], i) \in Nat /\ Times(L[2], i) \in Nat
        /\ Times(L[3], i) \in Nat /\ Times(L[4], i) \in Nat
    BY FourLists
  <2>2. Times(L[1], i) + Times(L[2], i) + Times(L[3], i) + Times(L[4], i) = 0
    BY DEF EntriesIn
  <2> QED
    BY <2>1, <2>2
<1>2. \A b \in 1..4 : Times(L[b], i) = 0
  BY <1>1, FourLists
<1>3. \A b \in 1..4 : L[b] \in Seq(Items)
  BY FourLists
<1> QED
  BY <1>2, <1>3, TimesIsNat

\* Who has one entry is at that place only.
LEMMA OneEntry ==
    ASSUME NEW L \in Lists, NEW i, EntriesIn(L, i) <= 1,
           NEW b \in 1..4, NEW p \in DOMAIN L[b], L[b][p] = i
    PROVE  /\ EntriesIn(L, i) = 1
           /\ \A c \in 1..4 : \A q \in DOMAIN L[c] : L[c][q] = i => c = b /\ q = p
<1> DEFINE t == [c \in 1..4 |-> Times(L[c], i)]
<1>1. \A c \in 1..4 : t[c] \in Nat /\ t[c] = Times(L[c], i) /\ L[c] \in Seq(Items)
  BY FourLists
<1>2. \A c \in 1..4 : \A q \in DOMAIN L[c] : L[c][q] = i => t[c] # 0
  BY <1>1, TimesIsNat
<1>3. EntriesIn(L, i) = t[1] + t[2] + t[3] + t[4]
  BY DEF EntriesIn
<1> HIDE DEF t
<1>5. t[1] \in Nat /\ t[2] \in Nat /\ t[3] \in Nat /\ t[4] \in Nat
  BY <1>1
<1>6. t[b] # 0
  BY <1>2
<1>7. EntriesIn(L, i) = 1 /\ t[b] = 1 /\ \A c \in 1..4 : t[c] # 0 => c = b
  <2>1. b = 1 \/ b = 2 \/ b = 3 \/ b = 4
    OBVIOUS
  <2>2. EntriesIn(L, i) = 1 /\ t[b] = 1
    <3>1. t[1] + t[2] + t[3] + t[4] <= 1
      BY <1>3
    <3>2. t[b] >= 1 /\ t[b] <= t[1] + t[2] + t[3] + t[4]
      BY <1>5, <1>6, <2>1
    <3>3. t[1] + t[2] + t[3] + t[4] \in Nat /\ t[b] \in Nat
      BY <1>5, <2>1
    <3> HIDE DEF EntriesIn
    <3> QED
      BY <1>3, <3>1, <3>2, <3>3
  <2>3. t[1] + t[2] + t[3] + t[4] = 1
    BY <1>3, <2>2
  <2>4. ASSUME NEW c \in 1..4, t[c] # 0 PROVE c = b
    <3>1. c = 1 \/ c = 2 \/ c = 3 \/ c = 4
      OBVIOUS
    <3> QED
      BY <1>5, <1>6, <2>1, <2>3, <2>4, <3>1
  <2> QED
    BY <2>2, <2>4
<1>8. ASSUME NEW c \in 1..4, NEW q \in DOMAIN L[c], L[c][q] = i
      PROVE  c = b /\ q = p
  <2>1. c = b
    BY <1>2, <1>7, <1>8
  <2>2. Times(L[b], i) <= 1
    BY <1>1, <1>7
  <2>3. L[b] \in Seq(Items) /\ q \in DOMAIN L[b] /\ L[b][q] = i
    BY <1>1, <1>8, <2>1
  <2>4. q = p
    BY <2>2, <2>3, TimesOnce
  <2> QED
    BY <2>1, <2>4
<1> QED
  BY <1>7, <1>8

LEMMA EntriesTyped ==
    ASSUME DecayTypeOK, NEW i
    PROVE  /\ Entries(i) \in Nat /\ Waiting(ItemState, i) = Times(toDecayItems, i)
           /\ Times(toDecayItems, i) \in Nat /\ Times(toReleaseItems, i) \in Nat
           /\ Entries(i) = EntriesIn(decayItems, i) /\ decayItems \in Lists
<1>1. Times(toDecayItems, i) \in Nat /\ Times(toReleaseItems, i) \in Nat
  BY TimesIsNat DEF DecayTypeOK
<1>2. Waiting(ItemState, i) = Times(toDecayItems, i)
  BY DEF Waiting, ItemState
<1>3. decayItems \in Lists /\ Entries(i) = EntriesIn(decayItems, i)
  BY DEF DecayTypeOK, Entries, EntriesIn
<1> QED
  BY <1>1, <1>2, <1>3, FourLists

LEMMA StateIs ==
    ASSUME DecayTypeOK
    PROVE  /\ ItemState \in ItemStates /\ ItemState.of = item
           /\ ItemState.new = toDecayItems /\ ItemState.release = toReleaseItems
  BY DEF ItemState, ItemStates, DecayTypeOK

\* An object that is in the world or leaves it has references.
LEMMA WorldHasRefs ==
    ASSUME DecayInv, NEW i \in Items, InWorld(item[i])
    PROVE  item[i].refs # 0 /\ item[i].kind \in Kinds
  BY DEF DecayInv, AllStarted, ObjectOK, InWorld

LEMMA TaskKeeps ==
    ASSUME DecayInv, NEW T, NEW j \in Items, Outcome(ItemState, T, j, Entries(j)),
           ItemsBecome(T), UNCHANGED <<decayItems, lastBucket, visit>>
    PROVE  DecayInv'
<1>1. DecayTypeOK /\ InTime /\ \A y \in Items : ItemOK(y)
  BY InvByItem
<1>2. /\ item' = T.of /\ toDecayItems' = T.new /\ toReleaseItems' = T.release
      /\ decayItems' = decayItems /\ lastBucket' = lastBucket /\ visit' = visit
  BY DEF ItemsBecome
<1>3. /\ ItemState.of = item /\ ItemState.new = toDecayItems /\ ItemState.release = toReleaseItems
  BY <1>1, StateIs
<1>4. /\ T \in ItemStates
      /\ \A y \in Items : Owed(T, y) = Owed(ItemState, y) /\ ObjectOK(T.of[y]) /\ Started(T.of[y])
      /\ \A y \in Items \ {j} : T.of[y] = item[y] \/ ~InWorld(T.of[y])
      /\ \/ T.new = toDecayItems /\ (Marked(T.of[j]) => SameClock(item[j], T.of[j]))
         \/ /\ T.new = <<j>> \o toDecayItems /\ T.of[j].age = 0
            /\ T.of[j].once => Entries(j) + Times(toDecayItems, j) = 0
                               /\ T.of[j].total = T.of[j].duration
  BY <1>3 DEF Outcome
<1>5. DecayTypeOK'
  BY <1>1, <1>2, <1>4 DEF DecayTypeOK, ItemStates, Lists
<1>6. \A y \in Items : Entries(y)' = Entries(y)
  BY <1>2 DEF Entries
<1>7. \A y \in Items : Entries(y) \in Nat /\ Times(toDecayItems, y) \in Nat
                       /\ Waiting(ItemState, y) = Times(toDecayItems, y)
  BY <1>1, EntriesTyped
<1>8. \A y \in Items : Listings(y)' = Entries(y) + Times(T.new, y)
                       /\ Listings(y) = Entries(y) + Times(toDecayItems, y)
  BY <1>2, <1>6, <1>7 DEF Listings, Waiting, ItemState
<1>9. \A y \in Items : \/ T.new = toDecayItems
                       \/ T.new = <<j>> \o toDecayItems
                          /\ Times(T.new, y) = Times(toDecayItems, y) + (IF y = j THEN 1 ELSE 0)
  <2>1. toDecayItems \in Seq(Items)
    BY <1>1 DEF DecayTypeOK
  <2>2. \A y \in Items :
          Times(<<j>> \o toDecayItems, y) = Times(toDecayItems, y) + (IF y = j THEN 1 ELSE 0)
    BY <2>1, TimesInFront
  <2> QED
    BY <1>4, <2>2
\* An item that is marked afterwards.
<1>10. ASSUME NEW y \in Items, Marked(T.of[y])
       PROVE  \/ /\ SameClock(item[y], T.of[y]) /\ Times(T.new, y) = Times(toDecayItems, y)
              \/ /\ y = j /\ Times(T.new, y) = Times(toDecayItems, y) + 1 /\ T.of[y].age = 0
                 /\ T.of[y].once => Entries(y) + Times(toDecayItems, y) = 0
                                    /\ T.of[y].total = T.of[y].duration
  <2>1. CASE y # j
    <3>1. T.of[y] = item[y]
      BY <1>4, <1>10, <2>1 DEF Marked
    <3>2. SameClock(item[y], T.of[y])
      BY <1>10, <3>1 DEF SameClock
    <3>3. Times(T.new, y) = Times(toDecayItems, y)
      BY <1>7, <1>9, <2>1
    <3> QED
      BY <3>2, <3>3
  <2>2. CASE y = j
    <3>1. CASE T.new = toDecayItems /\ (Marked(T.of[j]) => SameClock(item[j], T.of[j]))
      BY <1>10, <2>2, <3>1
    <3>2. CASE /\ T.new = <<j>> \o toDecayItems /\ T.of[j].age = 0
               /\ T.of[j].once => Entries(j) + Times(toDecayItems, j) = 0
                                  /\ T.of[j].total = T.of[j].duration
      <4>1. Times(T.new, j) = Times(toDecayItems, j) + 1
        <5>1. toDecayItems \in Seq(Items)
          BY <1>1 DEF DecayTypeOK
        <5>2. Times(<<j>> \o toDecayItems, j) = Times(toDecayItems, j) + (IF j = j THEN 1 ELSE 0)
          BY <5>1, TimesInFront
        <5> QED
          BY <3>2, <5>2
      <4> QED
        BY <2>2, <3>2, <4>1
    <3> QED
      BY <1>4, <3>1, <3>2
  <2> QED
    BY <2>1, <2>2
<1>11. ASSUME NEW y \in Items PROVE ItemOK(y)'
  <2>1. Owed(ItemState, y)' = Owed(T, y)
    BY <1>2 DEF Owed, ItemState
  <2>2. Owed(ItemState, y)' = Entries(y)'
    BY <1>1, <1>4, <1>6, <2>1 DEF ItemOK
  <2>3. ASSUME Marked(T.of[y])
        PROVE  Listings(y)' > 0 /\ (T.of[y].once => Listings(y)' = 1)
    BY <1>1, <1>7, <1>8, <1>10, <2>3 DEF ItemOK, SameClock
  <2> QED
    BY <1>2, <1>4, <2>2, <2>3 DEF ItemOK
<1>12. ASSUME NEW y \in Items, Marked(T.of[y]), T.of[y].once
       PROVE  WaitsInTime(y)' /\ \A b \in 1..4 : \A p \in DOMAIN decayItems'[b] : IsInTime(y, b, p)'
  <2>1. CASE SameClock(item[y], T.of[y]) /\ Times(T.new, y) = Times(toDecayItems, y)
    <3>1. Marked(item[y]) /\ item[y].once
      BY <1>12, <2>1 DEF SameClock
    <3>2. WaitsInTime(y) /\ \A b \in 1..4 : \A p \in DOMAIN decayItems[b] : IsInTime(y, b, p)
      BY <1>1, <3>1 DEF InTime
    <3>3. /\ T.of[y].duration = item[y].duration /\ T.of[y].age = item[y].age
          /\ T.of[y].total = item[y].total
      BY <2>1 DEF SameClock
    <3>4. WaitsInTime(y)'
      BY <1>2, <2>1, <3>2, <3>3 DEF WaitsInTime
    <3>5. \A b \in 1..4 : \A p \in DOMAIN decayItems'[b] : IsInTime(y, b, p)'
      BY <1>2, <3>2, <3>3 DEF IsInTime, OnTime
    <3> QED
      BY <3>4, <3>5
  <2>2. CASE /\ y = j /\ Times(T.new, y) = Times(toDecayItems, y) + 1 /\ T.of[y].age = 0
             /\ T.of[y].once => Entries(y) + Times(toDecayItems, y) = 0
                                /\ T.of[y].total = T.of[y].duration
    <3>1. WaitsInTime(y)'
      BY <1>2, <1>12, <2>2 DEF WaitsInTime
    <3>2. Entries(y) = 0
      BY <1>7, <1>12, <2>2
    <3>4. \A b \in 1..4 : \A p \in DOMAIN decayItems[b] : decayItems[b][p] # y
      BY <1>1, <3>2, EntriesTyped, NoEntries
    <3>5. \A b \in 1..4 : \A p \in DOMAIN decayItems'[b] : IsInTime(y, b, p)'
      BY <1>2, <3>4 DEF IsInTime
    <3> QED
      BY <3>1, <3>5
  <2> QED
    BY <1>10, <1>12, <2>1, <2>2
<1>13. InTime'
  BY <1>2, <1>12 DEF InTime
<1>14. (DecayTypeOK /\ InTime /\ \A y \in Items : ItemOK(y))'
  BY <1>5, <1>11, <1>13
<1> QED
  BY <1>14, InvByItem, PTL

LEMMA OtherItemsOK ==
    ASSUME DecayInv, NEW S, S.of = item, NEW i
    PROVE  OthersOK(S, i)
  BY DEF DecayInv, AllStarted, OthersOK

LEMMA EntriesInt ==
    ASSUME DecayInv
    PROVE  DecayTypeOK /\ ItemState \in ItemStates /\ \A i \in Items : Entries(i) \in Int
  BY EntriesTyped, StateIs DEF DecayInv

LEMMA AddStep == ASSUME DecayInv, NEW i \in Items, AddItem(i) PROVE DecayInv'
<1>1. PICK k \in Kinds : \E d \in Remaining \cup {NoTime} :
         LET own == Created(k)
             S == [ItemState EXCEPT !.of[i] =
                      IF own.duration # NoTime /\ d # NoTime
                      THEN [own EXCEPT !.duration = d] ELSE own]
         IN  ItemTask(StartDecay(S, i, 0))
  BY DEF AddItem
<1>2. PICK d \in Remaining \cup {NoTime} :
         LET own == Created(k)
             S == [ItemState EXCEPT !.of[i] =
                      IF own.duration # NoTime /\ d # NoTime
                      THEN [own EXCEPT !.duration = d] ELSE own]
         IN  ItemTask(StartDecay(S, i, 0))
  BY <1>1
<1> DEFINE first == Created(k)
           own == IF first.duration # NoTime /\ d # NoTime
                  THEN [first EXCEPT !.duration = d] ELSE first
           T == StartDecay([ItemState EXCEPT !.of[i] = own], i, 0)
<1>3. ItemTask(T)
  BY <1>2
<1>4. /\ first \in Object /\ ObjectOK(first) /\ InWorld(first)
      /\ ~first.decaying /\ first.refs = 1 /\ first.kind = k
  BY CreatedIs
<1>5. d \in Nat \ {0} \/ d = NoTime
  BY DecayAssumption DEF DecayAssumption
<1> HIDE DEF first
<1>6. own \in Object /\ ObjectOK(own) /\ InWorld(own) /\ own.refs = 1 /\ ~own.decaying
  <2>1. CASE first.duration # NoTime /\ d # NoTime
    <3> DEFINE new == [first EXCEPT !.duration = d]
    <3>1. new \in Object /\ new.state = first.state /\ new.kind = k /\ new.refs = 1 /\ new.duration = d
      BY <1>4, <1>5, <2>1 DEF Object
    <3>2. ~new.decaying
      BY <1>4 DEF Object
    <3>3. own = new
      BY <2>1
    <3> HIDE DEF new, own
    <3>4. ObjectOK(new) /\ InWorld(new)
      BY <1>4, <1>5, <2>1, <3>1 DEF ObjectOK, InWorld
    <3> QED
      BY <3>1, <3>2, <3>3, <3>4
  <2>2. CASE ~(first.duration # NoTime /\ d # NoTime)
    BY <1>4, <2>2
  <2> QED
    BY <2>1, <2>2
<1> HIDE DEF own, T
<1>7. /\ DecayTypeOK /\ ItemState \in ItemStates /\ ItemState.of = item /\ ItemState.new = toDecayItems
      /\ item[i].state = "none" /\ item[i].refs = 0
  BY EntriesInt, StateIs DEF DecayInv, AllStarted, ObjectOK, AddItem
<1>8. OthersOK(ItemState, i)
  BY <1>7, OtherItemsOK
<1>9. Outcome(ItemState, T, i, 0)
  <2>1. ItemState.of[i].state = "none" /\ ItemState.of[i].refs = 0
    BY <1>7
  <2> QED
    BY <1>6, <1>7, <1>8, <2>1, AddedIs DEF T
<1>10. Entries(i) = 0
  <2>1. Owed(ItemState, i) = Entries(i)
    BY DEF DecayInv, Accounted
  <2>2. InUse(item[i]) = 0
    BY <1>7 DEF InUse, InWorld
  <2>3. Times(toDecayItems, i) \in Nat /\ Times(toReleaseItems, i) \in Nat /\ Entries(i) \in Nat
    BY <1>7, EntriesTyped
  <2> QED
    BY <1>7, <2>1, <2>2, <2>3, StateIs DEF Owed
<1>11. ItemsBecome(T) /\ UNCHANGED <<decayItems, lastBucket, visit>>
  BY <1>3 DEF ItemTask
<1> QED
  BY <1>9, <1>10, <1>11, TaskKeeps

LEMMA RemoveStep == ASSUME DecayInv, NEW i \in Items, RemoveItem(i) PROVE DecayInv'
<1> DEFINE T == TakenOut(ItemState, i)
<1>1. ItemState \in ItemStates /\ ItemState.of = item
  BY EntriesInt, StateIs
<1>2. InWorld(item[i]) /\ item[i].refs # 0
  BY WorldHasRefs DEF RemoveItem, InWorld
<1>3. OthersOK(ItemState, i)
  BY <1>1, OtherItemsOK
<1>4. Outcome(ItemState, T, i, Entries(i))
  BY <1>1, <1>2, <1>3, RemovedIs
<1>5. ItemsBecome(T) /\ UNCHANGED <<decayItems, lastBucket, visit>>
  BY DEF RemoveItem, ItemTask
<1> QED
  BY <1>4, <1>5, TaskKeeps

\* What is not created yet is on no list.
LEMMA NoneUnlisted ==
    ASSUME DecayInv, NEW j \in Items, item[j].state = "none"
    PROVE  item[j].refs = 0 /\ Entries(j) = 0
<1>1. DecayTypeOK /\ item[j].refs = 0 /\ InUse(item[j]) = 0
  BY DEF DecayInv, AllStarted, ObjectOK, InUse, InWorld
<1>2. Owed(ItemState, j) = Entries(j)
  BY DEF DecayInv, Accounted
<1>3. Times(toDecayItems, j) \in Nat /\ Times(toReleaseItems, j) \in Nat /\ Entries(j) \in Nat
  BY <1>1, EntriesTyped
<1> QED
  BY <1>1, <1>2, <1>3, StateIs DEF Owed

LEMMA TransformStep == ASSUME DecayInv, NEW i \in Items, TransformItem(i) PROVE DecayInv'
<1>1. PICK k \in Kinds : \E j \in Objects(i) :
          /\ <<item[i].kind, k>> \in Scripted
          /\ ItemTask(StartDecay(Transformed(ItemState, i, k, j), j, IF j = i THEN Entries(i) ELSE 0))
  BY DEF TransformItem
<1>2. PICK j \in Objects(i) :
          ItemTask(StartDecay(Transformed(ItemState, i, k, j), j, IF j = i THEN Entries(i) ELSE 0))
  BY <1>1
<1> DEFINE e == IF j = i THEN Entries(i) ELSE 0
           T == StartDecay(Transformed(ItemState, i, k, j), j, e)
<1>3. j \in Items /\ (j # i => item[j].state = "none")
  BY DEF Objects
<1>4. e = Entries(j) /\ e \in Int /\ (j # i => item[j].refs = 0)
  BY <1>3, EntriesInt, NoneUnlisted
<1>5. ItemsBecome(T) /\ UNCHANGED <<decayItems, lastBucket, visit>>
  BY <1>2 DEF ItemTask
<1>6. ItemState \in ItemStates /\ ItemState.of = item /\ InWorld(item[i]) /\ ObjectOK(item[i])
  BY EntriesInt, StateIs DEF TransformItem, InWorld, DecayInv, AllStarted
<1>7. item[i].refs # 0 /\ item[i].kind \in Kinds
  BY <1>6, WorldHasRefs
<1>8. OthersOK(ItemState, i)
  BY <1>6, OtherItemsOK
<1> HIDE DEF e
<1>9. Outcome(ItemState, T, j, e)
  BY <1>3, <1>4, <1>6, <1>7, <1>8, TurnedIs
<1> HIDE DEF T
<1>10. Outcome(ItemState, T, j, Entries(j))
  BY <1>4, <1>9
<1> QED
  BY <1>3, <1>5, <1>10, TaskKeeps

-----------------------------------------------------------------------------
(* The visit of an item that leaves the list.                              *)

Same(L, b, p, M, q, at) ==
    /\ q \in DOMAIN M[b] /\ M[b][q] = L[b][p]
    /\ b = Visited /\ p < at <=> b = Visited /\ q < at

LEMMA VisitIs ==
    ASSUME DecayTypeOK, Visiting
    PROVE  /\ Visited \in 1..4 /\ visit \in DOMAIN decayItems[Visited]
           /\ visit \in Nat \ {0} /\ VisitedItem \in Items /\ decayItems \in Lists
           /\ Visited = Next(lastBucket) /\ lastBucket \in 1..4
<1>1. lastBucket \in 1..4 /\ decayItems \in Lists /\ visit \in Nat \ {0}
  BY DEF DecayTypeOK, Buckets, Visiting
<1>2. Visited \in 1..4 /\ Visited = Next(lastBucket)
  BY <1>1 DEF Visited, Next, Buckets
<1>3. decayItems[Visited] \in Seq(Items)
  BY <1>1, <1>2, FourLists
<1>4. visit \in DOMAIN decayItems[Visited]
  BY <1>1, <1>3 DEF Visiting
<1> QED
  BY <1>1, <1>2, <1>3, <1>4 DEF VisitedItem

LEMMA ErasedIs ==
    ASSUME DecayTypeOK, Visiting
    PROVE  /\ Erased \in Lists
           /\ \A y : EntriesIn(Erased, y) = Entries(y) - (IF y = VisitedItem THEN 1 ELSE 0)
           /\ \A b \in 1..4 : \A p \in DOMAIN Erased[b] :
                 \E q : Same(Erased, b, p, decayItems, q, visit) /\ ~(b = Visited /\ q = visit)
<1> DEFINE v == Visited
           list == decayItems[v]
           R == RemoveAt(list, visit)
<1>1. v \in 1..4 /\ visit \in DOMAIN list /\ decayItems \in Lists /\ visit \in Nat \ {0}
  BY VisitIs
<1>2. list \in Seq(Items) /\ \A b \in 1..4 : decayItems[b] \in Seq(Items)
  BY <1>1, FourLists
<1>3. /\ R \in Seq(Items) /\ DOMAIN R = 1 .. (Len(list) - 1)
      /\ \A n \in DOMAIN R : R[n] = IF n < visit THEN list[n] ELSE list[n + 1]
  BY <1>1, <1>2, RemovedAt
<1> HIDE DEF v
<1>4. /\ Erased = [decayItems EXCEPT ![v] = R] /\ Erased[v] = R
      /\ \A b \in 1..4 \ {v} : Erased[b] = decayItems[b]
  BY <1>1 DEF Erased, v, Lists, Buckets
<1> HIDE DEF R
<1>5. Erased \in Lists
  BY <1>1, <1>3, <1>4 DEF Lists, Buckets
<1>6. ASSUME NEW y PROVE EntriesIn(Erased, y) = Entries(y) - (IF y = VisitedItem THEN 1 ELSE 0)
  <2>1. Times(list, y) = Times(R, y) + IF list[visit] = y THEN 1 ELSE 0
    BY <1>1, <1>2, TimesRemoved DEF R
  <2>2. list[visit] = VisitedItem
    BY DEF VisitedItem, v
  <2>3. Times(list, y) \in Nat /\ Times(R, y) \in Nat
    BY <1>2, <1>3, TimesIsNat
  <2>4. Times(Erased[v], y) = Times(decayItems[v], y) - (IF y = VisitedItem THEN 1 ELSE 0)
    BY <1>4, <2>1, <2>2, <2>3
  <2>5. \A b \in 1..4 \ {v} : Times(Erased[b], y) = Times(decayItems[b], y)
    BY <1>4
  <2>6. v = 1 \/ v = 2 \/ v = 3 \/ v = 4
    BY <1>1
  <2>7. /\ Times(decayItems[1], y) \in Nat /\ Times(decayItems[2], y) \in Nat
        /\ Times(decayItems[3], y) \in Nat /\ Times(decayItems[4], y) \in Nat
    BY <1>1, FourLists
  <2>8. Entries(y) = EntriesIn(decayItems, y)
    BY EntriesTyped
  <2> HIDE DEF list
  <2>9. CASE v = 1
    BY <2>4, <2>5, <2>7, <2>8, <2>9 DEF EntriesIn
  <2>10. CASE v = 2
    BY <2>4, <2>5, <2>7, <2>8, <2>10 DEF EntriesIn
  <2>11. CASE v = 3
    BY <2>4, <2>5, <2>7, <2>8, <2>11 DEF EntriesIn
  <2>12. CASE v = 4
    BY <2>4, <2>5, <2>7, <2>8, <2>12 DEF EntriesIn
  <2> QED
    BY <2>6, <2>9, <2>10, <2>11, <2>12
<1>7. ASSUME NEW b \in 1..4, NEW p \in DOMAIN Erased[b]
      PROVE  \E q : Same(Erased, b, p, decayItems, q, visit) /\ ~(b = Visited /\ q = visit)
  <2>1. CASE b # v
    <3>1. Same(Erased, b, p, decayItems, p, visit) /\ ~(b = Visited /\ p = visit)
      BY <1>4, <2>1 DEF Same, v
    <3> QED
      BY <3>1
  <2>2. CASE b = v
    <3>1. p \in 1 .. (Len(list) - 1) /\ DOMAIN list = 1 .. Len(list) /\ Len(list) \in Nat
      BY <1>2, <1>3, <1>4, <2>2
    <3>2. CASE p < visit
      <4>1. Same(Erased, b, p, decayItems, p, visit) /\ p # visit
        BY <1>1, <1>3, <1>4, <2>2, <3>1, <3>2 DEF Same, v
      <4> QED
        BY <4>1
    <3>3. CASE p >= visit
      <4>1. p + 1 \in DOMAIN list /\ ~(p + 1 < visit) /\ ~(p < visit) /\ p + 1 # visit
        BY <1>1, <3>1, <3>3
      <4>2. Same(Erased, b, p, decayItems, p + 1, visit)
        BY <1>3, <1>4, <2>2, <3>1, <4>1 DEF Same, v
      <4> QED
        BY <4>1, <4>2
    <3> QED
      BY <1>1, <3>1, <3>2, <3>3
  <2> QED
    BY <2>1, <2>2
<1> QED
  BY <1>5, <1>6, <1>7

\* The item leaves the list for what came of it, and its reference is released.
LEMMA LeavesList ==
    ASSUME DecayInv, Visiting, NEW S \in ItemStates, NEW U, NEW j \in Items, NEW e \in Int,
           S.new = toDecayItems, \A y \in Items \ {VisitedItem} : S.of[y] = item[y],
           \A y \in Items : Owed(S, y) = Owed(ItemState, y),
           Outcome(S, U, j, e), e = Entries(j) - (IF j = VisitedItem THEN 1 ELSE 0),
           U.new = S.new => ~Marked(U.of[j]),
           j # VisitedItem => ~InWorld(U.of[VisitedItem]),
           ItemsBecome(ReleaseItem(U, VisitedItem)), decayItems' = Erased,
           UNCHANGED <<lastBucket, visit>>
    PROVE  DecayInv'
<1> DEFINE i == VisitedItem
           T == ReleaseItem(U, i)
<1>1. DecayTypeOK /\ InTime /\ \A y \in Items : ItemOK(y)
  BY InvByItem
<1>2. /\ Visited \in 1..4 /\ i \in Items /\ decayItems \in Lists /\ Visited = Next(lastBucket)
      /\ visit \in Nat \ {0}
  BY <1>1, VisitIs
<1>3. /\ Erased \in Lists
      /\ \A y : EntriesIn(Erased, y) = Entries(y) - (IF y = i THEN 1 ELSE 0)
      /\ \A b \in 1..4 : \A p \in DOMAIN Erased[b] :
            \E q : Same(Erased, b, p, decayItems, q, visit) /\ ~(b = Visited /\ q = visit)
  BY <1>1, ErasedIs
<1> HIDE DEF i
<1>4. /\ U \in ItemStates
      /\ \A y \in Items : Owed(U, y) = Owed(ItemState, y) /\ ObjectOK(U.of[y]) /\ Started(U.of[y])
      /\ \A y \in Items \ {j} : U.of[y] = S.of[y] \/ ~InWorld(U.of[y])
      /\ \/ U.new = toDecayItems /\ ~Marked(U.of[j])
         \/ /\ U.new = <<j>> \o toDecayItems /\ U.of[j].age = 0
            /\ U.of[j].once => e + Times(toDecayItems, j) = 0 /\ U.of[j].total = U.of[j].duration
  BY DEF Outcome
<1>5. /\ T.of = U.of /\ T.new = U.new /\ T.release = Append(U.release, i)
      /\ U.of \in [Items -> Object] /\ U.new \in Seq(Items) /\ U.release \in Seq(Items)
      /\ T.release \in Seq(Items)
  BY <1>2, <1>4 DEF ReleaseItem, ItemStates
<1>6. T = ReleaseItem(U, VisitedItem)
  BY DEF i
<1> HIDE DEF T
<1>7. /\ item' = U.of /\ toDecayItems' = U.new /\ toReleaseItems' = T.release
      /\ decayItems' = Erased /\ lastBucket' = lastBucket /\ visit' = visit
  BY <1>5, <1>6 DEF ItemsBecome
<1>8. DecayTypeOK'
  BY <1>1, <1>3, <1>5, <1>7 DEF DecayTypeOK
<1>9. \A y \in Items : Entries(y)' = Entries(y) - (IF y = i THEN 1 ELSE 0)
  <2>1. \A y \in Items : Entries(y)' = EntriesIn(Erased, y)
    BY <1>7 DEF Entries, EntriesIn
  <2> QED
    BY <1>3, <2>1
<1>10. \A y \in Items : /\ Entries(y) \in Nat /\ Times(toDecayItems, y) \in Nat
                        /\ Times(toReleaseItems, y) \in Nat
                        /\ Waiting(ItemState, y) = Times(toDecayItems, y)
  BY <1>1, EntriesTyped
<1>11. \A y \in Items : Listings(y)' = Entries(y)' + Times(U.new, y)
                        /\ Listings(y) = Entries(y) + Times(toDecayItems, y)
  BY <1>7, <1>10 DEF Listings, Waiting, ItemState
\* Who is marked afterwards was so before, elsewhere, or has just been enlisted.
<1>12. ASSUME NEW y \in Items, Marked(U.of[y])
       PROVE  \/ /\ y # i /\ U.of[y] = item[y] /\ Times(U.new, y) = Times(toDecayItems, y)
              \/ /\ Times(U.new, y) = Times(toDecayItems, y) + 1 /\ U.of[y].age = 0
                 /\ U.of[y].once => /\ Entries(y)' + Times(toDecayItems, y) = 0
                                    /\ U.of[y].total = U.of[y].duration
  <2>1. toDecayItems \in Seq(Items)
    BY <1>1 DEF DecayTypeOK
  <2>2. Times(<<j>> \o toDecayItems, y) = Times(toDecayItems, y) + (IF y = j THEN 1 ELSE 0)
    BY <2>1, TimesInFront
  <2>3. CASE y # j
    <3>1. U.of[y] = S.of[y] /\ y # i
      BY <1>4, <1>12, <2>3 DEF Marked, i
    <3>2. U.of[y] = item[y]
      BY <3>1 DEF i
    <3>3. Times(U.new, y) = Times(toDecayItems, y)
      <4>1. Times(<<j>> \o toDecayItems, y) = Times(toDecayItems, y)
        BY <1>10, <2>2, <2>3
      <4>2. U.new = toDecayItems \/ U.new = <<j>> \o toDecayItems
        BY <1>4
      <4> QED
        BY <4>1, <4>2
    <3> QED
      BY <3>1, <3>2, <3>3
  <2>4. CASE y = j
    <3>1. /\ U.new = <<j>> \o toDecayItems /\ U.of[j].age = 0
          /\ U.of[j].once => e + Times(toDecayItems, j) = 0 /\ U.of[j].total = U.of[j].duration
      BY <1>4, <1>12, <2>4
    <3>2. Entries(y)' = e
      BY <1>9, <2>4 DEF i
    <3> QED
      BY <2>2, <2>4, <3>1, <3>2
  <2> QED
    BY <2>3, <2>4
<1>13. ASSUME NEW y \in Items PROVE ItemOK(y)'
  <2>1. Owed(ItemState, y)' = Owed(U, y) - (IF y = i THEN 1 ELSE 0)
    <3>1. Times(T.release, y) = Times(U.release, y) + (IF y = i THEN 1 ELSE 0)
      BY <1>2, <1>5, TimesAppended
    <3>2. /\ Times(U.release, y) \in Nat /\ Times(U.new, y) \in Nat
          /\ U.of[y].refs \in Nat /\ InUse(U.of[y]) \in Int
      <4>1. U.of[y].refs \in Nat
        BY <1>5 DEF Object
      <4>2. InUse(U.of[y]) \in Int
        BY DEF InUse
      <4> QED
        BY <1>5, <4>1, <4>2, TimesIsNat
    <3>3. Owed(ItemState, y)' = U.of[y].refs - InUse(U.of[y]) - Times(U.new, y) - Times(T.release, y)
      BY <1>7 DEF Owed, ItemState
    <3> QED
      BY <3>1, <3>2, <3>3 DEF Owed
  <2>2. Owed(ItemState, y)' = Entries(y)'
    BY <1>1, <1>4, <1>9, <2>1 DEF ItemOK
  <2>3. ASSUME Marked(U.of[y])
        PROVE  Listings(y)' > 0 /\ (U.of[y].once => Listings(y)' = 1)
    <3>1. Entries(y)' \in Nat
      BY <1>3, <1>9, FourLists
    <3> QED
      BY <1>1, <1>9, <1>10, <1>11, <1>12, <2>3, <3>1 DEF ItemOK
  <2> QED
    BY <1>4, <1>7, <2>2, <2>3 DEF ItemOK
<1>14. ASSUME NEW y \in Items, Marked(U.of[y]), U.of[y].once
       PROVE  WaitsInTime(y)' /\ \A b \in 1..4 : \A p \in DOMAIN Erased[b] : IsInTime(y, b, p)'
  <2>1. CASE y # i /\ U.of[y] = item[y] /\ Times(U.new, y) = Times(toDecayItems, y)
    <3>1. WaitsInTime(y) /\ \A b \in 1..4 : \A p \in DOMAIN decayItems[b] : IsInTime(y, b, p)
      BY <1>1, <1>14, <2>1 DEF InTime
    <3>2. WaitsInTime(y)'
      BY <1>7, <2>1, <3>1 DEF WaitsInTime
    <3>3. ASSUME NEW b \in 1..4, NEW p \in DOMAIN Erased[b], Erased[b][p] = y
          PROVE  OnTime(item[y], item[y].age + Ahead(b, p, lastBucket, visit))
      <4>1. PICK q : Same(Erased, b, p, decayItems, q, visit)
        BY <1>3
      <4>2. q \in DOMAIN decayItems[b] /\ decayItems[b][q] = y
        BY <3>3, <4>1 DEF Same
      <4>3. OnTime(item[y], item[y].age + Ahead(b, q, lastBucket, visit))
        BY <3>1, <4>2 DEF IsInTime
      <4>4. Ahead(b, q, lastBucket, visit) = Ahead(b, p, lastBucket, visit)
        BY <1>2, <4>1 DEF Same, Ahead
      <4> QED
        BY <4>3, <4>4
    <3>4. \A b \in 1..4 : \A p \in DOMAIN Erased[b] : IsInTime(y, b, p)'
      BY <1>7, <2>1, <3>3 DEF IsInTime
    <3> QED
      BY <3>2, <3>4
  <2>2. CASE /\ Times(U.new, y) = Times(toDecayItems, y) + 1 /\ U.of[y].age = 0
             /\ U.of[y].once => /\ Entries(y)' + Times(toDecayItems, y) = 0
                                /\ U.of[y].total = U.of[y].duration
    <3>1. WaitsInTime(y)'
      BY <1>7, <1>14, <2>2 DEF WaitsInTime
    <3>2. EntriesIn(Erased, y) \in Nat /\ Entries(y)' = EntriesIn(Erased, y)
      BY <1>3, <1>9, FourLists
    <3>3. EntriesIn(Erased, y) = 0
      BY <1>10, <1>14, <2>2, <3>2
    <3>4. \A b \in 1..4 : \A p \in DOMAIN Erased[b] : Erased[b][p] # y
      BY <1>3, <3>3, NoEntries
    <3>5. \A b \in 1..4 : \A p \in DOMAIN Erased[b] : IsInTime(y, b, p)'
      BY <1>7, <3>4 DEF IsInTime
    <3> QED
      BY <3>1, <3>5
  <2> QED
    BY <1>12, <1>14, <2>1, <2>2
<1>15. InTime'
  BY <1>7, <1>14 DEF InTime
<1> QED
  BY <1>8, <1>13, <1>15 DEF DecayInv, ItemOK, Accounted, AllStarted, MarkedListed

LEMMA DroppedStep == ASSUME DecayInv, CheckDropped PROVE DecayInv'
<1> DEFINE i == VisitedItem
           own == [item[i] EXCEPT !.decaying = FALSE]
           U == [ItemState EXCEPT !.of[i] = own]
<1>1. DecayTypeOK /\ Visiting /\ ~CanDecay(item[i])
  BY DEF CheckDropped, DecayInv
<1>2. i \in Items
  BY <1>1, VisitIs
<1>3. /\ ItemState \in ItemStates /\ ItemState.of = item /\ ItemState.new = toDecayItems
      /\ item \in [Items -> Object] /\ item[i] \in Object /\ ObjectOK(item[i])
      /\ OthersOK(ItemState, i) /\ Entries(i) \in Nat
  BY <1>1, <1>2, StateIs, OtherItemsOK, EntriesTyped DEF DecayTypeOK, DecayInv, AllStarted
<1>4. /\ own \in Object /\ own.state = item[i].state /\ own.refs = item[i].refs
      /\ own.kind = item[i].kind /\ own.duration = item[i].duration
  BY <1>3 DEF Object
<1>5. ~own.decaying
  BY <1>3 DEF Object
<1>6. [ItemState EXCEPT !.of[i].decaying = FALSE] = U
  BY <1>3
<1> HIDE DEF own
<1>7. own.refs - InUse(own) = item[i].refs - InUse(item[i])
  BY <1>4 DEF InUse, InWorld
<1>8. /\ U \in ItemStates /\ U.new = toDecayItems /\ U.of[i] = own
      /\ \A y \in Items \ {i} : U.of[y] = item[y]
      /\ \A y \in Items : Owed(U, y) = Owed(ItemState, y)
  <2> HIDE DEF i
  <2>1. own.refs - InUse(own) = ItemState.of[i].refs - InUse(ItemState.of[i])
    BY <1>3, <1>7
  <2>2. /\ U \in ItemStates /\ U.new = ItemState.new /\ U.of[i] = own
        /\ \A y \in Items \ {i} : U.of[y] = ItemState.of[y]
        /\ \A y \in Items : Owed(U, y) = Owed(ItemState, y)
    BY ZenonT(40), <1>2, <1>3, <1>4, <2>1, ChangedIs
  <2> QED
    BY <1>3, <2>2
<1>9. ObjectOK(own) /\ Started(own) /\ ~Marked(own)
  BY <1>1, <1>3, <1>4, <1>5 DEF ObjectOK, Started, CanDecay, Marked, InWorld
<1>10. ItemsBecome(ReleaseItem(U, VisitedItem)) /\ decayItems' = Erased
       /\ UNCHANGED <<lastBucket, visit>>
  BY <1>6 DEF CheckDropped
<1> HIDE DEF U, i
<1>11. Outcome(ItemState, U, i, Entries(i) - 1)
  BY <1>3, <1>8, <1>9 DEF Outcome, OthersOK
<1>12. Entries(i) - 1 \in Int /\ Entries(i) - 1 = Entries(i) - (IF i = VisitedItem THEN 1 ELSE 0)
  BY <1>3 DEF i
<1>13. \A y \in Items \ {VisitedItem} : ItemState.of[y] = item[y]
  BY <1>3
<1>14. U.new = ItemState.new => ~Marked(U.of[i])
  BY <1>8, <1>9
<1>15. i = VisitedItem
  BY DEF i
<1> QED
  BY <1>1, <1>2, <1>3, <1>10, <1>11, <1>12, <1>13, <1>14, <1>15, LeavesList

\* The duration that is left is taken from the visited item only.
LEMMA SpentIs ==
    ASSUME DecayInv, Visiting, CanDecay(item[VisitedItem])
    PROVE  /\ VisitedItem \in Items /\ InWorld(item[VisitedItem]) /\ item[VisitedItem] \in Object
           /\ item[VisitedItem].kind \in Kinds /\ item[VisitedItem].refs # 0
           /\ decayTime[item[VisitedItem].kind] > 0 /\ decayTo[item[VisitedItem].kind] # Stays
           /\ item[VisitedItem].duration > 0 /\ Marked(item[VisitedItem])
           /\ Left(VisitedItem) = IF item[VisitedItem].duration < 8 THEN 0
                                  ELSE item[VisitedItem].duration - 8
           /\ Spent \in ItemStates /\ Spent.new = toDecayItems
           /\ \A y \in Items \ {VisitedItem} : Spent.of[y] = item[y]
           /\ \A y \in Items : Owed(Spent, y) = Owed(ItemState, y)
           /\ Spent.of[VisitedItem] = [item[VisitedItem] EXCEPT !.duration = Left(VisitedItem)]
           /\ OthersOK(Spent, VisitedItem)
<1> DEFINE v == VisitedItem
           own == item[v]
           new == [own EXCEPT !.duration = Left(v)]
<1>1. DecayTypeOK /\ v \in Items
  BY VisitIs DEF DecayInv
<1>2. /\ ItemState \in ItemStates /\ ItemState.of = item /\ ItemState.new = toDecayItems
      /\ item \in [Items -> Object] /\ own \in Object /\ ObjectOK(own) /\ Started(own)
  BY <1>1, StateIs DEF DecayTypeOK, DecayInv, AllStarted
<1>3. InWorld(own) /\ decayTime[own.kind] > 0 /\ decayTo[own.kind] # Stays
  BY DEF CanDecay, InWorld
<1>4. own.kind \in Kinds /\ own.duration > 0 /\ Marked(own) /\ own.refs # 0
  BY <1>2, <1>3 DEF ObjectOK, Started, Marked, InWorld
<1>5. own.duration \in Int /\ own.duration # NoTime
  BY <1>2, <1>4 DEF Object, NoTime
<1>6. Left(v) = IF own.duration < 8 THEN 0 ELSE own.duration - 8
  BY <1>5 DEF Left, Decrease, Duration, Second, Interval, Buckets
<1> HIDE DEF v
<1>7. new \in Object /\ new.refs = own.refs /\ new.state = own.state
  BY <1>2, <1>5, <1>6 DEF Object
<1>8. Spent = [ItemState EXCEPT !.of[v] = new]
  <2>1. Spent = [ItemState EXCEPT !.of[v].duration = Left(v)]
    BY DEF Spent, v
  <2> QED
    BY <1>1, <1>2, <2>1
<1> HIDE DEF new
<1>9. new.refs - InUse(new) = ItemState.of[v].refs - InUse(ItemState.of[v])
  BY <1>2, <1>7 DEF InUse, InWorld
<1> DEFINE T == [ItemState EXCEPT !.of[v] = new]
<1>10. /\ T \in ItemStates /\ T.new = ItemState.new /\ T.of[v] = new
       /\ \A y \in Items \ {v} : T.of[y] = ItemState.of[y]
       /\ \A y \in Items : Owed(T, y) = Owed(ItemState, y)
  BY <1>1, <1>2, <1>7, <1>9, ChangedIs
<1>11. Spent = T
  BY <1>8
<1> HIDE DEF T
<1>12. OthersOK(Spent, v)
  BY <1>2, <1>10, <1>11, OtherItemsOK DEF OthersOK, DecayInv, AllStarted
<1> QED
  BY <1>1, <1>2, <1>3, <1>4, <1>6, <1>10, <1>11, <1>12 DEF v, new

LEMMA RunsStep == ASSUME DecayInv, CheckRuns PROVE DecayInv'
<1> DEFINE v == VisitedItem
           k == decayTo[Spent.of[v].kind]
<1>1. /\ DecayTypeOK /\ Visiting /\ CanDecay(item[v]) /\ decayItems' = Erased
      /\ UNCHANGED <<lastBucket, visit>>
  BY DEF CheckRuns, DecayInv
<1>2. PICK j \in Objects(v) :
         ItemsBecome(ReleaseItem(InternalDecayItem(Spent, v, j, Entries(v) - 1), VisitedItem))
  BY DEF CheckRuns
<1>3. /\ v \in Items /\ InWorld(item[v]) /\ item[v] \in Object
      /\ item[v].kind \in Kinds /\ item[v].refs # 0
      /\ decayTime[item[v].kind] > 0 /\ decayTo[item[v].kind] # Stays
      /\ Spent \in ItemStates /\ Spent.new = toDecayItems
      /\ \A y \in Items \ {VisitedItem} : Spent.of[y] = item[y]
      /\ \A y \in Items : Owed(Spent, y) = Owed(ItemState, y)
      /\ Spent.of[v] = [item[v] EXCEPT !.duration = Left(VisitedItem)]
      /\ OthersOK(Spent, v)
  BY <1>1, SpentIs
<1>4. Spent.of[v].state = item[v].state /\ Spent.of[v].kind = item[v].kind /\ Spent.of[v].refs = item[v].refs
  BY <1>3 DEF Object
<1>5. k = decayTo[item[v].kind] /\ (k = Gone \/ k \in Kinds) /\ k # Stays
  BY <1>3, <1>4, DecayAssumption DEF DecayAssumption
<1>6. j \in Items /\ (j # v => item[j].state = "none")
  BY <1>3 DEF Objects
<1>7. Entries(v) \in Nat /\ v = VisitedItem
  BY <1>1, EntriesTyped
<1>8. InWorld(Spent.of[v]) /\ Spent.of[v].kind \in Kinds /\ Spent.of[v].refs # 0
  BY <1>3, <1>4 DEF InWorld
<1> HIDE DEF v, k
<1>9. CASE k = Gone
  <2> DEFINE U == TakenOut(Spent, v)
  <2>1. InternalDecayItem(Spent, v, j, Entries(v) - 1) = U
    BY <1>8, <1>9 DEF InternalDecayItem, k, InWorld
  <2>2. Outcome(Spent, U, v, Entries(v) - 1) /\ ~Marked(U.of[v])
    BY <1>3, <1>8, RemovedIs
  <2>3. ItemsBecome(ReleaseItem(U, VisitedItem))
    BY <1>2, <2>1
  <2> HIDE DEF U
  <2>4. Entries(v) - 1 \in Int /\ Entries(v) - 1 = Entries(v) - (IF v = VisitedItem THEN 1 ELSE 0)
    BY <1>7
  <2>5. v # VisitedItem => ~InWorld(U.of[VisitedItem])
    BY <1>7
  <2> QED
    BY <1>1, <1>3, <2>2, <2>3, <2>4, <2>5, LeavesList
<1>10. CASE k # Gone
  <2> DEFINE e == IF j = v THEN Entries(v) - 1 ELSE 0
             U == StartDecay(Transformed(Spent, v, k, j), j, e)
  <2>1. k \in Kinds
    BY <1>5, <1>10
  <2>2. InternalDecayItem(Spent, v, j, Entries(v) - 1) = U
    BY <1>8, <1>10 DEF InternalDecayItem, k, InWorld
  <2>3. j # v => Spent.of[j].state = "none" /\ Spent.of[j].refs = 0 /\ Entries(j) = 0
    BY <1>3, <1>6, <1>7, NoneUnlisted
  <2>4. e \in Int /\ e = Entries(j) - (IF j = VisitedItem THEN 1 ELSE 0)
    BY <1>7, <2>3
  <2>5. DecaysTo(Spent.of[v], k)
    BY <1>3, <1>4, <1>5 DEF DecaysTo
  <2>6. ItemsBecome(ReleaseItem(U, VisitedItem))
    BY <1>2, <2>2
  <2> HIDE DEF e
  <2>7. /\ Outcome(Spent, U, j, e)
        /\ DecaysTo(Spent.of[v], k) /\ U.new = Spent.new => ~Marked(U.of[j])
        /\ j # v => ~InWorld(U.of[v])
    BY <1>3, <1>6, <1>8, <2>1, <2>3, <2>4, <2>5, TurnedIs
  <2> HIDE DEF U
  <2>8. /\ U.new = Spent.new => ~Marked(U.of[j])
        /\ j # VisitedItem => ~InWorld(U.of[VisitedItem])
    BY <1>7, <2>5, <2>7
  <2> QED
    BY <1>1, <1>3, <1>6, <2>4, <2>6, <2>7, <2>8, LeavesList
<1> QED
  BY <1>9, <1>10

-----------------------------------------------------------------------------
(* The visit of an item with time left.                                    *)

Turns(b, last) == ((b - last + 3) % 4) + 1

LEMMA TurnsAre ==
    ASSUME NEW last \in 1..4
    PROVE  /\ Next(last) \in 1..4 /\ Next(Next(last)) \in 1..4 /\ Next(Next(last)) # Next(last)
           /\ Turns(Next(last), last) = 1 /\ Turns(Next(Next(last)), last) = 2
           /\ Turns(last, last) = 4
           /\ \A b \in 1..4 : /\ Turns(b, last) \in 1..4
                              /\ b = Next(last) => Turns(b, Next(last)) = 4
                              /\ b # Next(last) => Turns(b, Next(last)) = Turns(b, last) - 1
<1>1. last = 1 \/ last = 2 \/ last = 3 \/ last = 4
  OBVIOUS
<1>2. Next(1) = 2 /\ Next(2) = 3 /\ Next(3) = 4 /\ Next(4) = 1
  BY DEF Next, Buckets
<1>3. /\ Turns(1, 1) = 4 /\ Turns(2, 1) = 1 /\ Turns(3, 1) = 2 /\ Turns(4, 1) = 3
      /\ Turns(1, 2) = 3 /\ Turns(2, 2) = 4 /\ Turns(3, 2) = 1 /\ Turns(4, 2) = 2
      /\ Turns(1, 3) = 2 /\ Turns(2, 3) = 3 /\ Turns(3, 3) = 4 /\ Turns(4, 3) = 1
      /\ Turns(1, 4) = 1 /\ Turns(2, 4) = 2 /\ Turns(3, 4) = 3 /\ Turns(4, 4) = 4
  BY DEF Turns
<1>4. \A b \in 1..4 : b = 1 \/ b = 2 \/ b = 3 \/ b = 4
  OBVIOUS
<1>5. CASE last = 1
  BY <1>2, <1>3, <1>4, <1>5
<1>6. CASE last = 2
  BY <1>2, <1>3, <1>4, <1>6
<1>7. CASE last = 3
  BY <1>2, <1>3, <1>4, <1>7
<1>8. CASE last = 4
  BY <1>2, <1>3, <1>4, <1>8
<1> QED
  BY <1>1, <1>5, <1>6, <1>7, <1>8

LEMMA AheadIs ==
    ASSUME NEW b, NEW p, NEW last, NEW at
    PROVE  Ahead(b, p, last, at) =
             IF at = 0 THEN Turns(b, last)
             ELSE IF b = Next(last) /\ p < at THEN 4 ELSE Turns(b, last) - 1
  BY DEF Ahead, Turns

\* The visited item, if it was enlisted once, is nowhere else and on time.
LEMMA VisitedOnTime ==
    ASSUME DecayInv, Visiting, Marked(item[VisitedItem]), item[VisitedItem].once
    PROVE  /\ OnTime(item[VisitedItem], item[VisitedItem].age)
           /\ Entries(VisitedItem) = 1 /\ Times(toDecayItems, VisitedItem) = 0
<1> DEFINE v == VisitedItem
<1>1. /\ DecayTypeOK /\ Visited \in 1..4 /\ visit \in DOMAIN decayItems[Visited]
      /\ visit \in Nat \ {0} /\ v \in Items /\ decayItems \in Lists
      /\ Visited = Next(lastBucket) /\ lastBucket \in 1..4 /\ decayItems[Visited][visit] = v
  BY VisitIs DEF DecayInv, VisitedItem
<1>2. /\ Listings(v) = 1 /\ IsInTime(v, Visited, visit)
  BY <1>1 DEF DecayInv, MarkedListed, InTime
<1>3. Turns(Visited, lastBucket) = 1
  BY <1>1, TurnsAre
<1>4. Ahead(Visited, visit, lastBucket, visit) = 0
  <2>1. ~(visit < visit) /\ visit # 0
    BY <1>1
  <2> QED
    BY <1>3, <2>1, AheadIs
<1>5. item[v].age \in Nat
  BY <1>1 DEF DecayTypeOK, Object
<1>6. OnTime(item[v], item[v].age)
  BY <1>1, <1>2, <1>4, <1>5 DEF IsInTime
<1>7. /\ Entries(v) \in Nat /\ Times(toDecayItems, v) \in Nat
      /\ Entries(v) = EntriesIn(decayItems, v) /\ Entries(v) + Times(toDecayItems, v) = 1
  BY <1>1, <1>2, EntriesTyped DEF Listings
<1>8. EntriesIn(decayItems, v) = 1
  <2>1. EntriesIn(decayItems, v) <= 1
    BY <1>7
  <2> HIDE DEF v
  <2> QED
    BY <1>1, <2>1, OneEntry
<1> QED
  BY <1>6, <1>7, <1>8

\* What the visit leaves of the item, wherever it goes on.
LEMMA SpentKeeps ==
    ASSUME DecayInv, Visiting, CanDecay(item[VisitedItem]), Left(VisitedItem) > 0,
           ItemsBecome(Spent)
    PROVE  /\ item' \in [Items -> Object] /\ toDecayItems' = toDecayItems
           /\ toReleaseItems' = toReleaseItems
           /\ \A y \in Items \ {VisitedItem} : item'[y] = item[y]
           /\ item'[VisitedItem] = [item[VisitedItem] EXCEPT !.duration = Left(VisitedItem)]
           /\ \A y \in Items : /\ ObjectOK(item'[y]) /\ Started(item'[y])
                               /\ Marked(item'[y]) = Marked(item[y]) /\ item'[y].once = item[y].once
                               /\ Owed(ItemState, y)' = Owed(ItemState, y)
<1> DEFINE v == VisitedItem
           new == [item[v] EXCEPT !.duration = Left(v)]
<1>1. /\ v \in Items /\ InWorld(item[v]) /\ item[v] \in Object /\ item[v].kind \in Kinds
      /\ Spent \in ItemStates /\ Spent.new = toDecayItems
      /\ \A y \in Items \ {v} : Spent.of[y] = item[y]
      /\ \A y \in Items : Owed(Spent, y) = Owed(ItemState, y)
      /\ Spent.of[v] = new
  BY SpentIs
<1>2. Spent.release = toReleaseItems
  BY StateIs DEF DecayInv, Spent, ItemState
<1>3. item' = Spent.of /\ toDecayItems' = toDecayItems /\ toReleaseItems' = toReleaseItems
  BY <1>1, <1>2 DEF ItemsBecome
<1>4. \A y \in Items : ObjectOK(item[y]) /\ Started(item[y])
  BY DEF DecayInv, AllStarted
<1>5. Left(v) \in Int
  BY <1>1, SpentIs DEF Object
<1> HIDE DEF v
<1>6. /\ new.state = item[v].state /\ new.kind = item[v].kind /\ new.refs = item[v].refs
      /\ new.duration = Left(v)
  BY <1>1 DEF Object
<1>7. new.decaying = item[v].decaying
  BY <1>1 DEF Object
<1>8. new.once = item[v].once
  BY <1>1 DEF Object
<1> HIDE DEF new
<1>9. ObjectOK(new) /\ Started(new) /\ Marked(new) = Marked(item[v])
  <2>1. ObjectOK(new)
    BY <1>1, <1>4, <1>5, <1>6 DEF ObjectOK, InWorld, v
  <2>2. Started(new)
    BY <1>1, <1>4, <1>6, <1>7 DEF Started, CanDecay
  <2>3. Marked(new) = Marked(item[v])
    BY <1>6, <1>7 DEF Marked, InWorld
  <2> QED
    BY <2>1, <2>2, <2>3
<1>10. ASSUME NEW y \in Items
       PROVE  /\ ObjectOK(item'[y]) /\ Started(item'[y])
              /\ Marked(item'[y]) = Marked(item[y]) /\ item'[y].once = item[y].once
  <2>1. CASE y = v
    BY <1>1, <1>3, <1>8, <1>9, <2>1
  <2>2. CASE y # v
    <3>1. item'[y] = item[y]
      BY <1>1, <1>3, <2>2
    <3> QED
      BY <1>4, <3>1
  <2> QED
    BY <2>1, <2>2
<1>11. ASSUME NEW y \in Items PROVE Owed(ItemState, y)' = Owed(ItemState, y)
  <2>1. Owed(ItemState, y)' = Owed(Spent, y)
    BY <1>1, <1>2, <1>3 DEF Owed, ItemState
  <2> QED
    BY <1>1, <2>1
<1>12. item' \in [Items -> Object]
  BY <1>1, <1>3 DEF ItemStates
<1> QED
  BY <1>1, <1>3, <1>10, <1>11, <1>12 DEF v, new

LEMMA KeptStep == ASSUME DecayInv, CheckKept PROVE DecayInv'
<1> DEFINE v == VisitedItem
<1>1. /\ DecayTypeOK /\ InTime /\ Accounted /\ MarkedListed
      /\ Visiting /\ CanDecay(item[v]) /\ Left(v) >= 8 /\ ItemsBecome(Spent)
      /\ visit' = visit + 1 /\ decayItems' = decayItems /\ lastBucket' = lastBucket
  BY DEF CheckKept, DecayInv, Second, Interval, Buckets
<1>2. /\ Visited \in 1..4 /\ visit \in DOMAIN decayItems[Visited]
      /\ visit \in Nat \ {0} /\ v \in Items /\ decayItems \in Lists
      /\ Visited = Next(lastBucket) /\ lastBucket \in 1..4 /\ decayItems[Visited][visit] = v
  BY <1>1, VisitIs DEF VisitedItem
<1>3. /\ item[v] \in Object /\ Marked(item[v])
      /\ Left(v) = IF item[v].duration < 8 THEN 0 ELSE item[v].duration - 8
  BY <1>1, SpentIs
<1>4. Left(v) > 0 /\ Left(v) = item[v].duration - 8 /\ item[v].duration \in Int
  BY <1>1, <1>3 DEF Object
<1>5. /\ item' \in [Items -> Object] /\ toDecayItems' = toDecayItems
      /\ toReleaseItems' = toReleaseItems
      /\ \A y \in Items \ {v} : item'[y] = item[y]
      /\ item'[v] = [item[v] EXCEPT !.duration = Left(v)]
      /\ \A y \in Items : /\ ObjectOK(item'[y]) /\ Started(item'[y])
                          /\ Marked(item'[y]) = Marked(item[y]) /\ item'[y].once = item[y].once
                          /\ Owed(ItemState, y)' = Owed(ItemState, y)
  BY <1>1, <1>4, SpentKeeps
<1>6. item'[v].duration = Left(v) /\ item'[v].age = item[v].age /\ item'[v].total = item[v].total
      /\ item[v].age \in Nat /\ item[v].total \in Int
  BY <1>3, <1>5 DEF Object
<1>7. DecayTypeOK'
  BY <1>1, <1>2, <1>5 DEF DecayTypeOK
<1>8. \A y \in Items : Entries(y)' = Entries(y) /\ Listings(y)' = Listings(y)
  BY <1>1, <1>5 DEF Entries, Listings, Waiting, ItemState
<1>9. Accounted' /\ AllStarted'
  BY <1>1, <1>5, <1>8 DEF Accounted, AllStarted
<1>10. MarkedListed'
  BY <1>1, <1>5, <1>8 DEF MarkedListed
<1> HIDE DEF v
<1>11. ASSUME NEW y \in Items, Marked(item[y]), item[y].once
       PROVE  WaitsInTime(y)' /\ \A b \in 1..4 : \A p \in DOMAIN decayItems[b] : IsInTime(y, b, p)'
  <2>1. WaitsInTime(y) /\ \A b \in 1..4 : \A p \in DOMAIN decayItems[b] : IsInTime(y, b, p)
    BY <1>1, <1>11 DEF InTime
  <2>2. CASE y = v
    <3>1. OnTime(item[v], item[v].age) /\ Entries(v) = 1 /\ Times(toDecayItems, v) = 0
      BY <1>1, <1>11, <2>2, VisitedOnTime DEF v
    <3>2. WaitsInTime(y)'
      BY <1>5, <2>2, <3>1 DEF WaitsInTime
    <3>3. ASSUME NEW b \in 1..4, NEW p \in DOMAIN decayItems[b], decayItems[b][p] = v
          PROVE  b = Visited /\ p = visit
      <4>1. EntriesIn(decayItems, v) <= 1
        BY <1>1, <3>1, EntriesTyped
      <4> QED
        BY <1>2, <3>3, <4>1, OneEntry
    <3>4. Ahead(Visited, visit, lastBucket, visit + 1) = 4
      <4>1. visit < visit + 1 /\ visit + 1 # 0
        BY <1>2
      <4> QED
        BY <1>2, <4>1, AheadIs
    <3>5. OnTime(item'[v], item'[v].age + 4)
      BY <1>1, <1>4, <1>6, <3>1 DEF OnTime
    <3>6. \A b \in 1..4 : \A p \in DOMAIN decayItems[b] : IsInTime(y, b, p)'
      BY <1>1, <2>2, <3>3, <3>4, <3>5 DEF IsInTime
    <3> QED
      BY <3>2, <3>6
  <2>3. CASE y # v
    <3>1. item'[y] = item[y]
      BY <1>5, <2>3
    <3>2. WaitsInTime(y)'
      BY <1>1, <1>2, <1>5, <2>1, <3>1 DEF WaitsInTime
    <3>3. ASSUME NEW b \in 1..4, NEW p \in DOMAIN decayItems[b], decayItems[b][p] = y
          PROVE  OnTime(item[y], item[y].age + Ahead(b, p, lastBucket, visit + 1))
      <4>1. OnTime(item[y], item[y].age + Ahead(b, p, lastBucket, visit))
        BY <2>1, <3>3 DEF IsInTime
      <4>2. ~(b = Visited /\ p = visit) /\ p \in Int
        <5>1. decayItems[b] \in Seq(Items)
          BY <1>2, FourLists
        <5> QED
          BY <1>2, <2>3, <3>3, <5>1
      <4>3. b = Next(lastBucket) => (p < visit <=> p < visit + 1)
        BY <1>2, <4>2
      <4>4. Ahead(b, p, lastBucket, visit + 1) = Ahead(b, p, lastBucket, visit)
        BY <1>2, <4>3, AheadIs
      <4> QED
        BY <4>1, <4>4
    <3>4. \A b \in 1..4 : \A p \in DOMAIN decayItems[b] : IsInTime(y, b, p)'
      BY <1>1, <3>1, <3>3 DEF IsInTime
    <3> QED
      BY <3>2, <3>4
  <2> QED
    BY <2>2, <2>3
<1>12. InTime'
  BY <1>1, <1>5, <1>11 DEF InTime
<1> QED
  BY <1>7, <1>9, <1>10, <1>12 DEF DecayInv

LEMMA MovedStep == ASSUME DecayInv, CheckMoved PROVE DecayInv'
<1> DEFINE v == VisitedItem
           c == LaterBucket(Left(v))
           L == [Erased EXCEPT ![c] = Append(Erased[c], v)]
<1>1. /\ DecayTypeOK /\ InTime /\ Accounted /\ MarkedListed
      /\ Visiting /\ CanDecay(item[v]) /\ ~Runs(v) /\ Left(v) < 8 /\ ItemsBecome(Spent)
      /\ visit' = visit /\ decayItems' = L /\ lastBucket' = lastBucket
  BY DEF CheckMoved, DecayInv, Second, Interval, Buckets
<1>2. /\ Visited \in 1..4 /\ visit \in DOMAIN decayItems[Visited]
      /\ visit \in Nat \ {0} /\ v \in Items /\ decayItems \in Lists
      /\ Visited = Next(lastBucket) /\ lastBucket \in 1..4 /\ decayItems[Visited][visit] = v
  BY <1>1, VisitIs DEF VisitedItem
<1>3. /\ item[v] \in Object /\ Marked(item[v])
      /\ Left(v) = IF item[v].duration < 8 THEN 0 ELSE item[v].duration - 8
  BY <1>1, SpentIs
<1>4. /\ Left(v) = 7 /\ item[v].duration = 15 /\ c = Next(Visited)
  <2>1. item[v].duration \in Int
    BY <1>3 DEF Object
  <2>2. Left(v) # 0 /\ (Left(v) < 8 => LaterBucket(Left(v)) # Visited)
    BY <1>1 DEF Runs, Second, Interval, Buckets
  <2>3. Left(v) \in 1..7
    BY <1>1, <1>3, <2>1, <2>2
  <2>4. \A d \in 1..6 : LaterBucket(d) = Visited
    <3>1. Interval \div 2 = 1
      BY DEF Interval
    <3>2. \A d \in 1..6 : (d + 1) \div 8 = 0
      OBVIOUS
    <3>3. ((Visited - 1 + 0) % 4) + 1 = Visited
      BY <1>2
    <3>4. Second = 8 /\ Buckets = 4
      BY DEF Second, Interval, Buckets
    <3> QED
      BY <3>1, <3>2, <3>3, <3>4 DEF LaterBucket
  <2>5. Left(v) = 7
    <3> DEFINE d == Left(v)
    <3>1. d \in 1..7 /\ d < 8 /\ LaterBucket(d) # Visited
      BY <1>1, <2>2, <2>3
    <3> HIDE DEF d
    <3>2. d = 7
      BY <2>4, <3>1
    <3> QED
      BY <3>2 DEF d
  <2>6. LaterBucket(7) = Next(Visited)
    <3>1. Interval \div 2 = 1 /\ (7 + 1) \div 8 = 1
      BY DEF Interval
    <3>2. Visited - 1 + 1 = Visited
      BY <1>2
    <3>3. Second = 8 /\ Buckets = 4
      BY DEF Second, Interval, Buckets
    <3> QED
      BY <3>1, <3>2, <3>3 DEF LaterBucket, Next
  <2> QED
    BY <1>3, <2>1, <2>5, <2>6
<1>5. c \in 1..4 /\ c # Visited /\ Turns(c, lastBucket) = 2
  BY <1>2, <1>4, TurnsAre
<1>6. /\ item' \in [Items -> Object] /\ toDecayItems' = toDecayItems
      /\ toReleaseItems' = toReleaseItems
      /\ \A y \in Items \ {v} : item'[y] = item[y]
      /\ item'[v] = [item[v] EXCEPT !.duration = Left(v)]
      /\ \A y \in Items : /\ ObjectOK(item'[y]) /\ Started(item'[y])
                          /\ Marked(item'[y]) = Marked(item[y]) /\ item'[y].once = item[y].once
                          /\ Owed(ItemState, y)' = Owed(ItemState, y)
  BY <1>1, <1>4, SpentKeeps
<1>7. item'[v].duration = 7 /\ item'[v].age = item[v].age /\ item'[v].total = item[v].total
      /\ item[v].age \in Nat /\ item[v].total \in Int
  BY <1>3, <1>4, <1>6 DEF Object
<1>8. /\ Erased \in Lists
      /\ \A y : EntriesIn(Erased, y) = Entries(y) - (IF y = v THEN 1 ELSE 0)
      /\ \A b \in 1..4 : \A p \in DOMAIN Erased[b] :
            \E q : Same(Erased, b, p, decayItems, q, visit) /\ ~(b = Visited /\ q = visit)
  BY <1>1, ErasedIs
<1> HIDE DEF v, c
<1>9. /\ Erased[c] \in Seq(Items) /\ Append(Erased[c], v) \in Seq(Items)
      /\ L[c] = Append(Erased[c], v) /\ \A b \in 1..4 \ {c} : L[b] = Erased[b]
      /\ L \in Lists
  <2> DEFINE new == Append(Erased[c], v)
  <2>1. Erased \in [1..4 -> Seq(Items)]
    BY <1>8 DEF Lists, Buckets
  <2>2. Erased[c] \in Seq(Items) /\ new \in Seq(Items)
    <3>1. Erased[c] \in Seq(Items)
      BY <1>5, <2>1
    <3> QED
      BY <1>2, <3>1
  <2> HIDE DEF new
  <2>3. L = [Erased EXCEPT ![c] = new]
    BY DEF new
  <2> HIDE DEF L
  <2>4. L \in [1..4 -> Seq(Items)] /\ L[c] = new /\ \A b \in 1..4 \ {c} : L[b] = Erased[b]
    BY <1>5, <2>1, <2>2, <2>3
  <2> QED
    BY <2>2, <2>4 DEF Lists, Buckets, new
<1> HIDE DEF L
<1>10. ASSUME NEW y PROVE EntriesIn(L, y) = Entries(y)
  <2>1. Times(L[c], y) = Times(Erased[c], y) + (IF y = v THEN 1 ELSE 0)
    BY <1>2, <1>9, TimesAppended
  <2>2. \A b \in 1..4 \ {c} : Times(L[b], y) = Times(Erased[b], y)
    BY <1>9
  <2>3. c = 1 \/ c = 2 \/ c = 3 \/ c = 4
    BY <1>5
  <2>4. /\ Times(Erased[1], y) \in Nat /\ Times(Erased[2], y) \in Nat
        /\ Times(Erased[3], y) \in Nat /\ Times(Erased[4], y) \in Nat
    BY <1>8, FourLists
  <2>5. EntriesIn(L, y) = EntriesIn(Erased, y) + (IF y = v THEN 1 ELSE 0)
    <3>1. CASE c = 1
      BY <2>1, <2>2, <2>4, <3>1 DEF EntriesIn
    <3>2. CASE c = 2
      BY <2>1, <2>2, <2>4, <3>2 DEF EntriesIn
    <3>3. CASE c = 3
      BY <2>1, <2>2, <2>4, <3>3 DEF EntriesIn
    <3>4. CASE c = 4
      BY <2>1, <2>2, <2>4, <3>4 DEF EntriesIn
    <3> QED
      BY <2>3, <3>1, <3>2, <3>3, <3>4
  <2>6. Entries(y) \in Nat
    BY <1>1, EntriesTyped
  <2> QED
    BY <1>8, <2>5, <2>6
<1>11. \A y \in Items : Entries(y)' = Entries(y)
  <2>1. \A y \in Items : Entries(y)' = EntriesIn(L, y)
    BY <1>1 DEF Entries, EntriesIn
  <2> QED
    BY <1>10, <2>1
<1>12. \A y \in Items : Listings(y)' = Listings(y)
  BY <1>6, <1>11 DEF Listings, Waiting, ItemState
<1>13. DecayTypeOK'
  BY <1>1, <1>6, <1>9 DEF DecayTypeOK
<1>14. Accounted' /\ AllStarted'
  BY <1>1, <1>6, <1>11 DEF Accounted, AllStarted
<1>15. MarkedListed'
  BY <1>1, <1>6, <1>12 DEF MarkedListed
<1>16. ASSUME NEW y \in Items, Marked(item[y]), item[y].once
       PROVE  WaitsInTime(y)' /\ \A b \in 1..4 : \A p \in DOMAIN L[b] : IsInTime(y, b, p)'
  <2>1. WaitsInTime(y) /\ \A b \in 1..4 : \A p \in DOMAIN decayItems[b] : IsInTime(y, b, p)
    BY <1>1, <1>16 DEF InTime
  <2>2. CASE y = v
    <3>1. OnTime(item[v], item[v].age) /\ Entries(v) = 1 /\ Times(toDecayItems, v) = 0
      BY <1>1, <1>16, <2>2, VisitedOnTime DEF v
    <3>2. WaitsInTime(y)'
      BY <1>6, <2>2, <3>1 DEF WaitsInTime
    <3>3. EntriesIn(Erased, v) = 0
      BY <1>8, <3>1
    <3>4. \A b \in 1..4 : \A p \in DOMAIN Erased[b] : Erased[b][p] # v
      BY <1>8, <3>3, NoEntries
    <3>5. ASSUME NEW b \in 1..4, NEW p \in DOMAIN L[b], L[b][p] = v PROVE b = c
      BY <1>9, <3>4, <3>5
    <3>6. \A p : Ahead(c, p, lastBucket, visit) = 1
      BY <1>2, <1>5, AheadIs
    <3>7. OnTime(item'[v], item'[v].age + 1)
      BY <1>4, <1>7, <3>1 DEF OnTime
    <3>8. \A b \in 1..4 : \A p \in DOMAIN L[b] : IsInTime(y, b, p)'
      BY <1>1, <2>2, <3>5, <3>6, <3>7 DEF IsInTime
    <3> QED
      BY <3>2, <3>8
  <2>3. CASE y # v
    <3>1. item'[y] = item[y]
      BY <1>6, <2>3
    <3>2. WaitsInTime(y)'
      BY <1>1, <1>6, <2>1, <3>1 DEF WaitsInTime
    <3>3. ASSUME NEW b \in 1..4, NEW p \in DOMAIN L[b], L[b][p] = y
          PROVE  OnTime(item[y], item[y].age + Ahead(b, p, lastBucket, visit))
      <4>1. p \in DOMAIN Erased[b] /\ Erased[b][p] = y
        <5>1. CASE b # c
          BY <1>9, <3>3, <5>1
        <5>2. CASE b = c
          <6> DEFINE s == Erased[c]
          <6>1. s \in Seq(Items) /\ L[b] = Append(s, v)
            BY <1>9, <5>2
          <6> HIDE DEF s
          <6>2. /\ Len(s) \in Nat /\ DOMAIN s = 1 .. Len(s) /\ DOMAIN L[b] = 1 .. (Len(s) + 1)
                /\ L[b][Len(s) + 1] = v /\ \A n \in 1 .. Len(s) : L[b][n] = s[n]
            BY <6>1
          <6>3. p # Len(s) + 1
            BY <2>3, <3>3, <6>2
          <6>4. p \in 1 .. Len(s)
            BY <6>2, <6>3
          <6> QED
            BY <3>3, <5>2, <6>2, <6>4 DEF s
        <5> QED
          BY <5>1, <5>2
      <4>2. PICK q : Same(Erased, b, p, decayItems, q, visit)
        BY <1>8, <4>1
      <4>3. q \in DOMAIN decayItems[b] /\ decayItems[b][q] = y
        BY <4>1, <4>2 DEF Same
      <4>4. OnTime(item[y], item[y].age + Ahead(b, q, lastBucket, visit))
        BY <2>1, <4>3 DEF IsInTime
      <4>5. Ahead(b, q, lastBucket, visit) = Ahead(b, p, lastBucket, visit)
        BY <1>2, <4>2, AheadIs DEF Same
      <4> QED
        BY <4>4, <4>5
    <3>4. \A b \in 1..4 : \A p \in DOMAIN L[b] : IsInTime(y, b, p)'
      BY <1>1, <3>1, <3>3 DEF IsInTime
    <3> QED
      BY <3>2, <3>4
  <2> QED
    BY <2>2, <2>3
<1>17. InTime'
  BY <1>1, <1>6, <1>16 DEF InTime
<1> QED
  BY <1>13, <1>14, <1>15, <1>17 DEF DecayInv

-----------------------------------------------------------------------------
(* A pass begins.                                                          *)

LEMMA BeginsStep == ASSUME DecayInv, CheckDecayBegins PROVE DecayInv'
<1>1. /\ DecayTypeOK /\ Accounted /\ AllStarted /\ MarkedListed /\ InTime
      /\ visit = 0 /\ visit' = 1 /\ decayItems' = decayItems /\ toDecayItems' = toDecayItems
      /\ toReleaseItems' = toReleaseItems /\ lastBucket' = lastBucket
  BY DEF DecayInv, CheckDecayBegins
<1>2. item' = [i \in Items |-> IF item[i].decaying /\ item[i].once
                               THEN [item[i] EXCEPT !.age = item[i].age + 1] ELSE item[i]]
  BY DEF CheckDecayBegins
<1>3. ASSUME NEW y \in Items
      PROVE  /\ item'[y] \in Object /\ item'[y].state = item[y].state /\ item'[y].refs = item[y].refs
             /\ item'[y].kind = item[y].kind /\ item'[y].duration = item[y].duration
             /\ item'[y].total = item[y].total
             /\ item'[y].decaying = item[y].decaying /\ item'[y].once = item[y].once
             /\ item[y].decaying /\ item[y].once => item'[y].age = item[y].age + 1
  <2> DEFINE new == [item[y] EXCEPT !.age = item[y].age + 1]
  <2>1. item[y] \in Object
    BY <1>1 DEF DecayTypeOK
  <2>2. new \in Object
    BY <2>1 DEF Object
  <2>3. /\ new.state = item[y].state /\ new.refs = item[y].refs /\ new.kind = item[y].kind
        /\ new.duration = item[y].duration /\ new.total = item[y].total /\ new.age = item[y].age + 1
    BY <2>1 DEF Object
  <2>4. new.decaying = item[y].decaying
    BY <2>1 DEF Object
  <2>5. new.once = item[y].once
    BY <2>1 DEF Object
  <2>6. item'[y] = IF item[y].decaying /\ item[y].once THEN new ELSE item[y]
    BY <1>2
  <2> HIDE DEF new
  <2> QED
    BY <2>1, <2>2, <2>3, <2>4, <2>5, <2>6
<1>4. DecayTypeOK'
  <2>1. item' \in [Items -> Object]
    <3>1. item' = [y \in Items |-> item'[y]]
      BY <1>2
    <3> QED
      BY <1>3, <3>1
  <2> QED
    BY <1>1, <2>1 DEF DecayTypeOK
<1>5. ASSUME NEW y \in Items
      PROVE  /\ Owed(ItemState, y)' = Owed(ItemState, y) /\ Entries(y)' = Entries(y)
             /\ Listings(y)' = Listings(y) /\ Marked(item'[y]) = Marked(item[y])
             /\ ObjectOK(item'[y]) /\ Started(item'[y])
  <2>1. Entries(y)' = Entries(y) /\ Listings(y)' = Listings(y)
    BY <1>1 DEF Entries, Listings, Waiting, ItemState
  <2>2. Owed(ItemState, y)' = Owed(ItemState, y)
    BY <1>1, <1>3 DEF Owed, ItemState, InUse, InWorld
  <2>3. Marked(item'[y]) = Marked(item[y])
    BY <1>3 DEF Marked, InWorld
  <2>4. ObjectOK(item[y]) /\ Started(item[y])
    BY <1>1 DEF AllStarted
  <2>5. ObjectOK(item'[y])
    BY <1>3, <2>4 DEF ObjectOK, InWorld
  <2>6. Started(item'[y])
    BY <1>3, <2>4 DEF Started, CanDecay
  <2> QED
    BY <2>1, <2>2, <2>3, <2>5, <2>6
<1>6. Accounted' /\ AllStarted'
  BY <1>1, <1>5 DEF Accounted, AllStarted
<1>7. MarkedListed'
  BY <1>1, <1>3, <1>5 DEF MarkedListed
<1>8. ASSUME NEW y \in Items, Marked(item[y]), item[y].once
      PROVE  WaitsInTime(y)' /\ \A b \in 1..4 : \A p \in DOMAIN decayItems[b] : IsInTime(y, b, p)'
  <2>1. WaitsInTime(y) /\ \A b \in 1..4 : \A p \in DOMAIN decayItems[b] : IsInTime(y, b, p)
    BY <1>1, <1>8 DEF InTime
  <2>2. /\ item'[y].age = item[y].age + 1 /\ item'[y].duration = item[y].duration
        /\ item'[y].total = item[y].total /\ item[y].age \in Nat
    BY <1>1, <1>3, <1>8 DEF Marked, DecayTypeOK, Object
  <2>3. WaitsInTime(y)'
    BY <1>1, <2>1, <2>2 DEF WaitsInTime
  <2>4. ASSUME NEW b \in 1..4, NEW p \in DOMAIN decayItems[b], decayItems[b][p] = y
        PROVE  OnTime(item'[y], item'[y].age + Ahead(b, p, lastBucket, 1))
    <3>1. OnTime(item[y], item[y].age + Ahead(b, p, lastBucket, 0))
      BY <1>1, <2>1, <2>4 DEF IsInTime
    <3>2. lastBucket \in 1..4 /\ p >= 1 /\ p \in Int
      <4>1. decayItems \in Lists /\ lastBucket \in 1..4
        BY <1>1 DEF DecayTypeOK, Buckets
      <4>2. decayItems[b] \in Seq(Items)
        BY <4>1, FourLists
      <4> QED
        BY <4>1, <4>2
    <3>3. Turns(b, lastBucket) \in 1..4
      BY <3>2, TurnsAre
    <3>4. Ahead(b, p, lastBucket, 0) = Turns(b, lastBucket)
      BY AheadIs
    <3>5. Ahead(b, p, lastBucket, 1) = Turns(b, lastBucket) - 1
      BY <3>2, AheadIs
    <3>6. item'[y].age + Ahead(b, p, lastBucket, 1) = item[y].age + Ahead(b, p, lastBucket, 0)
      BY <2>2, <3>3, <3>4, <3>5
    <3> QED
      BY <2>2, <3>1, <3>6 DEF OnTime
  <2>5. \A b \in 1..4 : \A p \in DOMAIN decayItems[b] : IsInTime(y, b, p)'
    BY <1>1, <2>4 DEF IsInTime
  <2> QED
    BY <2>3, <2>5
<1>9. InTime'
  BY <1>1, <1>3, <1>5, <1>8 DEF InTime
<1> QED
  BY <1>4, <1>6, <1>7, <1>9 DEF DecayInv

-----------------------------------------------------------------------------
(* cleanup().                                                              *)

LEMMA TwoParts ==
    ASSUME NEW P, NEW Q, IsFiniteSet(P), IsFiniteSet(Q), P \cap Q = {}
    PROVE  /\ IsFiniteSet(P \cup Q) /\ Cardinality(P) \in Nat /\ Cardinality(Q) \in Nat
           /\ Cardinality(P \cup Q) = Cardinality(P) + Cardinality(Q)
<1>1. /\ IsFiniteSet(P \cup Q)
      /\ Cardinality(P \cup Q) = Cardinality(P) + Cardinality(Q) - Cardinality(P \cap Q)
  BY FS_Union
<1>2. Cardinality(P \cap Q) = 0
  BY FS_EmptySet
<1>3. Cardinality(P) \in Nat /\ Cardinality(Q) \in Nat
  BY FS_CardinalityType
<1> QED
  BY <1>1, <1>2, <1>3

LEMMA FourParts ==
    ASSUME NEW A, IsFiniteSet(A),
           NEW P1 \in SUBSET A, NEW P2 \in SUBSET A, NEW P3 \in SUBSET A, NEW P4 \in SUBSET A,
           A = P1 \cup P2 \cup P3 \cup P4,
           P1 \cap P2 = {}, P1 \cap P3 = {}, P1 \cap P4 = {},
           P2 \cap P3 = {}, P2 \cap P4 = {}, P3 \cap P4 = {}
    PROVE  Cardinality(A) =
             Cardinality(P1) + Cardinality(P2) + Cardinality(P3) + Cardinality(P4)
<1> DEFINE Q == P1 \cup P2
           R == Q \cup P3
<1>1. IsFiniteSet(P1) /\ IsFiniteSet(P2) /\ IsFiniteSet(P3) /\ IsFiniteSet(P4)
  BY FS_Subset
<1>2. Q \cap P3 = {} /\ R \cap P4 = {} /\ A = R \cup P4
  OBVIOUS
<1>3. /\ IsFiniteSet(Q) /\ Cardinality(P1) \in Nat /\ Cardinality(P2) \in Nat
      /\ Cardinality(Q) = Cardinality(P1) + Cardinality(P2)
  BY <1>1, TwoParts
<1> HIDE DEF Q
<1>4. /\ IsFiniteSet(R) /\ Cardinality(P3) \in Nat
      /\ Cardinality(R) = Cardinality(Q) + Cardinality(P3)
  BY <1>1, <1>2, <1>3, TwoParts
<1> HIDE DEF R
<1>5. /\ Cardinality(P4) \in Nat
      /\ Cardinality(R \cup P4) = Cardinality(R) + Cardinality(P4)
  BY <1>1, <1>2, <1>4, TwoParts
<1>6. Cardinality(A) = Cardinality(R) + Cardinality(P4)
  BY <1>2, <1>5
<1> QED
  BY <1>3, <1>4, <1>5, <1>6

LEMMA BucketIs ==
    ASSUME NEW last \in 1..4, NEW d \in Int
    PROVE  /\ Bucket(d, last) \in 1..4
           /\ d >= 8 => Bucket(d, last) = last
           /\ d \in 0..7 => Bucket(d, last) = Next(last)
<1>1. Second = 8 /\ Buckets = 4
  BY DEF Second, Interval, Buckets
<1>2. d \div 8 \in Int
  OBVIOUS
<1>3. ASSUME NEW x \in Int PROVE (x % 4) + 1 \in 1..4
  OBVIOUS
<1>4. d \in 0..7 => d \div 8 = 0
  OBVIOUS
<1> QED
  BY <1>1, <1>2, <1>3, <1>4 DEF Bucket, Next

CleanedLists(last) ==
    [b \in 1..4 |-> decayItems[b] \o EntriesAt(toDecayItems, Filed(ItemState, b, last))]

LEMMA FiledIs ==
    ASSUME DecayTypeOK, NEW last \in 1..4
    PROVE  /\ \A b \in 1..4 : Filed(ItemState, b, last) \in SUBSET (DOMAIN toDecayItems)
           /\ \A n \in DOMAIN toDecayItems :
                 /\ toDecayItems[n] \in Items
                 /\ Bucket(Duration(item[toDecayItems[n]]), last) \in 1..4
                 /\ \A b : n \in Filed(ItemState, b, last) <=>
                           b = Bucket(Duration(item[toDecayItems[n]]), last)
<1>1. ItemState.of = item /\ ItemState.new = toDecayItems
  BY StateIs
<1>2. toDecayItems \in Seq(Items) /\ item \in [Items -> Object]
  BY DEF DecayTypeOK
<1>3. \A n \in DOMAIN toDecayItems : toDecayItems[n] \in Items
  BY <1>2
<1>4. ASSUME NEW n \in DOMAIN toDecayItems
      PROVE  Bucket(Duration(item[toDecayItems[n]]), last) \in 1..4
  <2>1. Duration(item[toDecayItems[n]]) \in Int
    BY <1>2, <1>3 DEF Object, Duration
  <2> QED
    BY <2>1, BucketIs
<1> QED
  BY <1>1, <1>3, <1>4 DEF Filed

LEMMA CleanedIs ==
    ASSUME DecayTypeOK, NEW last \in 1..4, NEW i
    PROVE  /\ CleanedLists(last) \in Lists
           /\ EntriesIn(CleanedLists(last), i) = Entries(i) + Times(toDecayItems, i)
           /\ \A b \in 1..4 : \A p \in DOMAIN CleanedLists(last)[b] :
                 CleanedLists(last)[b][p] = i =>
                    \/ p \in DOMAIN decayItems[b] /\ decayItems[b][p] = i
                    \/ Times(toDecayItems, i) # 0 /\ b = Bucket(Duration(item[i]), last)
<1> DEFINE L == CleanedLists(last)
           new == toDecayItems
           F(b) == Filed(ItemState, b, last)
           E(b) == EntriesAt(new, F(b))
           A == SpotsOf(new, i)
           P(b) == F(b) \cap A
<1>1. decayItems \in Lists /\ new \in Seq(Items) /\ \A b \in 1..4 : decayItems[b] \in Seq(Items)
  BY FourLists DEF DecayTypeOK
<1>2. /\ \A b \in 1..4 : F(b) \in SUBSET (DOMAIN new)
      /\ \A n \in DOMAIN new :
            /\ new[n] \in Items
            /\ Bucket(Duration(item[new[n]]), last) \in 1..4
            /\ \A b : n \in F(b) <=> b = Bucket(Duration(item[new[n]]), last)
  BY FiledIs
<1> HIDE DEF new, F
<1>3. \A b \in 1..4 : L[b] = decayItems[b] \o E(b)
  BY DEF CleanedLists, new, F
<1>4. \A b \in 1..4 : /\ E(b) \in Seq(Items) /\ Times(E(b), i) = Cardinality(P(b))
                      /\ IsFiniteSet(P(b))
  <2> TAKE b \in 1..4
  <2>1. F(b) \in SUBSET (DOMAIN new)
    BY <1>2
  <2>2. E(b) \in Seq(Items)
    BY <1>1, <2>1, EntriesAtIs
  <2>3. Times(E(b), i) = Cardinality(P(b)) /\ IsFiniteSet(P(b))
    BY <1>1, <2>1, TimesAt
  <2> QED
    BY <2>2, <2>3
<1> HIDE DEF E
<1>5. \A b \in 1..4 : L[b] \in Seq(Items) /\ Times(L[b], i) = Times(decayItems[b], i) + Times(E(b), i)
  <2> TAKE b \in 1..4
  <2> DEFINE s == decayItems[b]
             t == E(b)
  <2>1. s \in Seq(Items) /\ t \in Seq(Items) /\ L[b] = s \o t
    BY <1>1, <1>3, <1>4
  <2> HIDE DEF s, t, L
  <2>2. s \o t \in Seq(Items) /\ Times(s \o t, i) = Times(s, i) + Times(t, i)
    BY <2>1, TimesConcat, Joined
  <2> QED
    BY <2>1, <2>2 DEF s, t
<1>6. L \in Lists
  <2>1. L = [b \in 1..4 |-> L[b]]
    BY DEF CleanedLists
  <2> HIDE DEF L
  <2> QED
    BY <1>5, <2>1 DEF Lists, Buckets
<1>7. IsFiniteSet(A) /\ Times(new, i) = Cardinality(A) /\ Times(new, i) \in Nat
  BY <1>1, TimesIsNat
<1>8. Cardinality(A) = Cardinality(P(1)) + Cardinality(P(2)) + Cardinality(P(3)) + Cardinality(P(4))
  <2>1. A \in SUBSET (DOMAIN new)
    BY DEF SpotsOf
  <2> HIDE DEF A
  <2>2. \A n \in A : n \in F(1) \/ n \in F(2) \/ n \in F(3) \/ n \in F(4)
    <3> TAKE n \in A
    <3>1. PICK b \in 1..4 : n \in F(b)
      BY <1>2, <2>1
    <3>2. b = 1 \/ b = 2 \/ b = 3 \/ b = 4
      OBVIOUS
    <3> QED
      BY <3>1, <3>2
  <2>3. \A n \in A : \A b, c \in 1..4 : n \in F(b) /\ n \in F(c) => b = c
    BY <1>2, <2>1
  <2>4. /\ P(1) \cap P(2) = {} /\ P(1) \cap P(3) = {} /\ P(1) \cap P(4) = {}
        /\ P(2) \cap P(3) = {} /\ P(2) \cap P(4) = {} /\ P(3) \cap P(4) = {}
    BY <2>3
  <2>5. A = P(1) \cup P(2) \cup P(3) \cup P(4)
    BY <2>2
  <2>6. P(1) \in SUBSET A /\ P(2) \in SUBSET A /\ P(3) \in SUBSET A /\ P(4) \in SUBSET A
    OBVIOUS
  <2> HIDE DEF P
  <2> QED
    BY <1>7, <2>4, <2>5, <2>6, FourParts DEF A
<1>9. EntriesIn(L, i) = Entries(i) + Times(new, i)
  <2> DEFINE t(b) == Times(decayItems[b], i)
             u(b) == Times(E(b), i)
  <2>1. t(1) \in Nat /\ t(2) \in Nat /\ t(3) \in Nat /\ t(4) \in Nat
    BY <1>1, FourLists
  <2>2. u(1) \in Nat /\ u(2) \in Nat /\ u(3) \in Nat /\ u(4) \in Nat
    <3>1. \A b \in 1..4 : u(b) \in Nat
      BY <1>4, TimesIsNat
    <3> QED
      BY <3>1
  <2>3. /\ Times(L[1], i) = t(1) + u(1) /\ Times(L[2], i) = t(2) + u(2)
        /\ Times(L[3], i) = t(3) + u(3) /\ Times(L[4], i) = t(4) + u(4)
    BY <1>5
  <2>4. Times(new, i) = u(1) + u(2) + u(3) + u(4)
    <3>1. /\ u(1) = Cardinality(P(1)) /\ u(2) = Cardinality(P(2))
          /\ u(3) = Cardinality(P(3)) /\ u(4) = Cardinality(P(4))
      BY <1>4
    <3> HIDE DEF P, A
    <3> QED
      BY <1>7, <1>8, <3>1
  <2>5. Entries(i) = t(1) + t(2) + t(3) + t(4)
    BY DEF Entries
  <2>6. EntriesIn(L, i) = Times(L[1], i) + Times(L[2], i) + Times(L[3], i) + Times(L[4], i)
    BY DEF EntriesIn
  <2> HIDE DEF t, u, L
  <2> QED
    BY <2>1, <2>2, <2>3, <2>4, <2>5, <2>6
<1>10. ASSUME NEW b \in 1..4, NEW p \in DOMAIN L[b], L[b][p] = i
       PROVE  \/ p \in DOMAIN decayItems[b] /\ decayItems[b][p] = i
              \/ Times(new, i) # 0 /\ b = Bucket(Duration(item[i]), last)
  <2> DEFINE s == decayItems[b]
             t == E(b)
  <2>1. s \in Seq(Items) /\ t \in Seq(Items) /\ L[b] = s \o t
    BY <1>1, <1>3, <1>4
  <2>2. t = EntriesAt(new, F(b)) /\ F(b) \in SUBSET (DOMAIN new)
    BY <1>2 DEF E
  <2> HIDE DEF s, t, L
  <2>3. /\ DOMAIN L[b] = 1 .. Len(s) + Len(t) /\ Len(s) \in Nat /\ Len(t) \in Nat
        /\ DOMAIN s = 1 .. Len(s) /\ DOMAIN t = 1 .. Len(t)
        /\ \A n \in 1 .. Len(s) + Len(t) : L[b][n] = IF n <= Len(s) THEN s[n] ELSE t[n - Len(s)]
    BY <2>1, Joined
  <2>4. CASE p <= Len(s)
    <3>1. p \in 1 .. Len(s) /\ s[p] = i
      BY <1>10, <2>3, <2>4
    <3> QED
      BY <2>3, <3>1 DEF s
  <2>5. CASE ~(p <= Len(s))
    <3>1. p - Len(s) \in 1 .. Len(t) /\ t[p - Len(s)] = i
      BY <1>10, <2>3, <2>5
    <3>2. PICK k \in DOMAIN t : t[k] = i
      BY <2>3, <3>1
    <3>3. \E n \in F(b) : t[k] = new[n]
      <4>1. DOMAIN t = 1 .. Cardinality(F(b))
        BY <1>1, <2>2, EntriesAtIs
      <4>2. \A m \in 1 .. Cardinality(F(b)) :
               \E n \in F(b) : Cardinality(F(b) \cap (1 .. n)) = m /\ t[m] = new[n]
        BY ZenonT(40), <1>1, <2>2, EntriesAtIs
      <4> QED
        BY <3>2, <4>1, <4>2
    <3>4. PICK n \in F(b) : t[k] = new[n]
      BY <3>3
    <3>5. n \in DOMAIN new /\ new[n] = i
      BY <2>2, <3>2, <3>4
    <3>6. b = Bucket(Duration(item[i]), last)
      BY <1>2, <3>4, <3>5
    <3>7. Times(new, i) # 0
      BY <1>1, <3>5, TimesIsNat
    <3> QED
      BY <3>6, <3>7
  <2> QED
    BY <2>4, <2>5
<1> QED
  BY <1>6, <1>9, <1>10 DEF new

\* cleanup() frees an item with its last reference, and that is no entry's.
LEMMA FreedIs ==
    ASSUME DecayInv, NEW i \in Items
    PROVE  LET own == Freed(ItemState, i) IN
           /\ own \in Object /\ ObjectOK(own) /\ Started(own)
           /\ own.refs = item[i].refs - Times(toReleaseItems, i)
           /\ InUse(own) = InUse(item[i]) /\ InUse(own) \in Int
           /\ Marked(own) => own.duration = item[i].duration /\ own.age = item[i].age
                             /\ own.total = item[i].total /\ own.once = item[i].once
                             /\ Marked(item[i])
<1> DEFINE own == Freed(ItemState, i)
           r == Times(toReleaseItems, i)
           n == item[i].refs - r
<1>1. /\ DecayTypeOK /\ ItemState.of = item /\ ItemState.release = toReleaseItems
      /\ ItemState.new = toDecayItems
  BY StateIs DEF DecayInv
<1>2. item[i] \in Object /\ ObjectOK(item[i]) /\ Started(item[i]) /\ item[i].refs \in Nat
  BY <1>1 DEF DecayTypeOK, DecayInv, AllStarted, Object
<1>3. r \in Nat /\ Times(toDecayItems, i) \in Nat /\ Entries(i) \in Nat
  BY <1>1, EntriesTyped
<1>4. n = InUse(item[i]) + Times(toDecayItems, i) + Entries(i) /\ InUse(item[i]) \in Nat
  <2>1. Owed(ItemState, i) = Entries(i)
    BY DEF DecayInv, Accounted
  <2>2. InUse(item[i]) \in Nat
    BY DEF InUse
  <2>3. item[i].refs - InUse(item[i]) - Times(toDecayItems, i) - r = Entries(i)
    BY <1>1, <2>1 DEF Owed
  <2> QED
    BY <1>2, <1>3, <2>2, <2>3
<1>5. own = IF r = 0 THEN item[i]
            ELSE IF n = 0 THEN [Unused EXCEPT !.state = "freed"]
            ELSE [item[i] EXCEPT !.refs = n]
  BY <1>1 DEF Freed
<1> HIDE DEF r, n, own
<1>6. n = item[i].refs - r /\ n \in Nat
  BY <1>3, <1>4 DEF n
<1>7. CASE r = 0
  BY <1>2, <1>4, <1>5, <1>6, <1>7 DEF own, r
<1>8. CASE r # 0 /\ n = 0
  <2> DEFINE new == [Unused EXCEPT !.state = "freed"]
  <2>1. Unused \in Object
    BY DEF Unused, Object, States, NoTime
  <2>2. new \in Object /\ new.state = "freed" /\ new.refs = 0
    BY <2>1 DEF Object, States, Unused
  <2> HIDE DEF new
  <2>3. InUse(item[i]) = 0 /\ InUse(new) = 0
    BY <1>3, <1>4, <1>8, <2>2 DEF InUse, InWorld
  <2>4. ObjectOK(new) /\ Started(new) /\ ~Marked(new)
    BY <2>2 DEF ObjectOK, Started, CanDecay, Marked, InWorld
  <2>5. own = new
    BY <1>5, <1>8 DEF new
  <2> QED
    BY <1>6, <1>8, <2>2, <2>3, <2>4, <2>5 DEF own, r
<1>9. CASE r # 0 /\ n # 0
  <2> DEFINE new == [item[i] EXCEPT !.refs = n]
  <2>1. /\ new \in Object /\ new.state = item[i].state /\ new.refs = n /\ new.kind = item[i].kind
        /\ new.duration = item[i].duration /\ new.age = item[i].age /\ new.total = item[i].total
    BY <1>2, <1>6 DEF Object
  <2>2. new.decaying = item[i].decaying
    BY <1>2 DEF Object
  <2>3. new.once = item[i].once
    BY <1>2 DEF Object
  <2> HIDE DEF new
  <2>4. ObjectOK(new)
    BY <1>2, <1>3, <1>6, <1>9, <2>1 DEF ObjectOK, InWorld
  <2>5. Started(new)
    BY <1>2, <2>1, <2>2 DEF Started, CanDecay
  <2>6. InUse(new) = InUse(item[i]) /\ (Marked(new) => Marked(item[i]))
    BY <2>1, <2>2 DEF InUse, Marked, InWorld
  <2>7. own = new
    BY <1>5, <1>9 DEF new
  <2> QED
    BY <1>4, <1>6, <2>1, <2>3, <2>4, <2>5, <2>6, <2>7 DEF own, r
<1> QED
  BY <1>7, <1>8, <1>9

\* The pass is over, or there was none.
LEMMA CleanupStep ==
    ASSUME DecayInv, NEW last \in 1..4, CleanedUp(last, ItemState), lastBucket' = last, visit' = 0,
           \/ visit = 0 /\ last = lastBucket
           \/ visit > 0 /\ ~Visiting /\ last = Visited
    PROVE  DecayInv'
<1> DEFINE L == CleanedLists(last)
<1>1. /\ DecayTypeOK /\ Accounted /\ AllStarted /\ MarkedListed /\ InTime
      /\ visit \in Nat /\ lastBucket \in 1..4 /\ decayItems \in Lists /\ item \in [Items -> Object]
  BY DEF DecayInv, DecayTypeOK, Buckets
<1>2. /\ item' = [i \in Items |-> Freed(ItemState, i)]
      /\ toReleaseItems' = <<>> /\ toDecayItems' = <<>> /\ decayItems' = L
  <2>1. ItemState.new = toDecayItems
    BY <1>1, StateIs
  <2> QED
    BY <2>1 DEF CleanedUp, CleanedLists, Buckets
<1>3. \A i : /\ L \in Lists
             /\ EntriesIn(L, i) = Entries(i) + Times(toDecayItems, i)
             /\ \A b \in 1..4 : \A p \in DOMAIN L[b] :
                   L[b][p] = i =>
                      \/ p \in DOMAIN decayItems[b] /\ decayItems[b][p] = i
                      \/ Times(toDecayItems, i) # 0 /\ b = Bucket(Duration(item[i]), last)
  BY <1>1, CleanedIs
<1> HIDE DEF L
<1>4. ASSUME NEW i \in Items
      PROVE  /\ item'[i] \in Object /\ ObjectOK(item'[i]) /\ Started(item'[i])
             /\ item'[i].refs = item[i].refs - Times(toReleaseItems, i)
             /\ InUse(item'[i]) = InUse(item[i]) /\ InUse(item'[i]) \in Int
             /\ Marked(item'[i]) => item'[i].duration = item[i].duration /\ item'[i].age = item[i].age
                                    /\ item'[i].total = item[i].total
                                    /\ item'[i].once = item[i].once /\ Marked(item[i])
  <2>1. item'[i] = Freed(ItemState, i)
    BY <1>2
  <2> QED
    BY <2>1, FreedIs
<1>5. DecayTypeOK'
  <2>1. item' \in [Items -> Object]
    <3>1. item' = [i \in Items |-> item'[i]]
      BY <1>2
    <3> QED
      BY <1>4, <3>1
  <2> QED
    BY <1>1, <1>2, <1>3, <2>1 DEF DecayTypeOK, Buckets
<1>6. ASSUME NEW i
      PROVE  /\ Times(toDecayItems, i)' = 0 /\ Times(toReleaseItems, i)' = 0
             /\ Entries(i)' = Entries(i) + Times(toDecayItems, i)
             /\ Entries(i) \in Nat /\ Times(toDecayItems, i) \in Nat /\ Times(toReleaseItems, i) \in Nat
             /\ Listings(i) = Entries(i) + Times(toDecayItems, i) /\ Listings(i)' = Listings(i)
  <2>1. <<>> \in Seq(Items) /\ \A n \in DOMAIN <<>> : <<>>[n] # i
    OBVIOUS
  <2>2. Times(<<>>, i) = 0
    BY <2>1, TimesIsNat
  <2>3. Times(toDecayItems, i)' = 0 /\ Times(toReleaseItems, i)' = 0
    BY <1>2, <2>2 DEF Times
  <2>4. Entries(i)' = Entries(i) + Times(toDecayItems, i)
    BY <1>2, <1>3 DEF Entries, EntriesIn, Times
  <2>5. Entries(i) \in Nat /\ Times(toDecayItems, i) \in Nat /\ Times(toReleaseItems, i) \in Nat
    BY <1>1, EntriesTyped
  <2>6. Waiting(ItemState, i) = Times(toDecayItems, i)
    BY <1>1, EntriesTyped
  <2>7. Waiting(ItemState, i)' = 0
    BY <2>3 DEF Waiting, ItemState
  <2>8. Listings(i) = Entries(i) + Times(toDecayItems, i)
    BY <2>6 DEF Listings
  <2>9. Listings(i)' = Entries(i)' + 0
    BY <2>7 DEF Listings
  <2> QED
    BY <2>3, <2>4, <2>5, <2>8, <2>9
<1>7. Accounted'
  <2>1. ASSUME NEW i \in Items PROVE Owed(ItemState, i)' = Entries(i)'
    <3>1. Owed(ItemState, i)' = item'[i].refs - InUse(item'[i]) - Times(toDecayItems, i)'
                                - Times(toReleaseItems, i)'
      BY DEF Owed, ItemState
    <3>2. Owed(ItemState, i) = item[i].refs - InUse(item[i]) - Times(toDecayItems, i)
                               - Times(toReleaseItems, i)
      BY DEF Owed, ItemState
    <3>3. Owed(ItemState, i) = Entries(i)
      BY <1>1 DEF Accounted
    <3>4. item[i].refs \in Nat
      BY <1>1 DEF Object
    <3>5. /\ Times(toDecayItems, i)' = 0 /\ Times(toReleaseItems, i)' = 0
          /\ Entries(i)' = Entries(i) + Times(toDecayItems, i)
          /\ Entries(i) \in Nat /\ Times(toDecayItems, i) \in Nat /\ Times(toReleaseItems, i) \in Nat
      BY <1>6
    <3>6. /\ item'[i].refs = item[i].refs - Times(toReleaseItems, i)
          /\ InUse(item'[i]) = InUse(item[i]) /\ InUse(item[i]) \in Int
      BY <1>4
    <3> QED
      BY <3>1, <3>2, <3>3, <3>4, <3>5, <3>6
  <2> QED
    BY <2>1 DEF Accounted
<1>8. AllStarted'
  BY <1>4 DEF AllStarted
<1>9. MarkedListed'
  <2>1. ASSUME NEW i \in Items, Marked(item'[i])
        PROVE  Listings(i)' > 0 /\ (item'[i].once => Listings(i)' = 1)
    <3>1. Listings(i) > 0 /\ (item[i].once => Listings(i) = 1)
      BY <1>1, <1>4, <2>1 DEF MarkedListed
    <3> QED
      BY <1>4, <1>6, <2>1, <3>1
  <2> QED
    BY <2>1 DEF MarkedListed
<1>10. ASSUME NEW i \in Items, Marked(item[i]), item[i].once,
              NEW b \in 1..4, NEW p \in DOMAIN L[b], L[b][p] = i
       PROVE  OnTime(item[i], item[i].age + Ahead(b, p, last, 0))
  <2>1. WaitsInTime(i) /\ \A c \in 1..4 : \A q \in DOMAIN decayItems[c] : IsInTime(i, c, q)
    BY <1>1, <1>10 DEF InTime
  <2>2. Ahead(b, p, last, 0) = Turns(b, last)
    BY AheadIs
  <2>3. CASE p \in DOMAIN decayItems[b] /\ decayItems[b][p] = i
    <3>1. OnTime(item[i], item[i].age + Ahead(b, p, lastBucket, visit))
      BY <2>1, <2>3 DEF IsInTime
    <3>2. Ahead(b, p, lastBucket, visit) = Turns(b, last)
      <4>1. CASE visit = 0 /\ last = lastBucket
        BY <4>1, AheadIs
      <4>2. CASE visit > 0 /\ ~Visiting /\ last = Visited
        <5>1. visit # 0 /\ last = Next(lastBucket)
          BY <1>1, <4>2 DEF Visited
        <5>2. b = Next(lastBucket) => p < visit
          <6>1. decayItems[b] \in Seq(Items)
            BY <1>1, FourLists
          <6>2. b = Next(lastBucket) => ~(visit <= Len(decayItems[b]))
            BY <4>2 DEF Visiting, Visited
          <6>3. p \in 1 .. Len(decayItems[b]) /\ Len(decayItems[b]) \in Nat
            BY <2>3, <6>1
          <6> QED
            BY <1>1, <6>2, <6>3
        <5>3. /\ b = Next(lastBucket) => Turns(b, last) = 4
              /\ b # Next(lastBucket) => Turns(b, last) = Turns(b, lastBucket) - 1
          BY <1>1, <5>1, TurnsAre
        <5> QED
          BY <5>1, <5>2, <5>3, AheadIs
      <4> QED
        BY <4>1, <4>2
    <3> QED
      BY <2>2, <3>1, <3>2
  <2>4. CASE Times(toDecayItems, i) # 0 /\ b = Bucket(Duration(item[i]), last)
    <3> DEFINE d == item[i].duration
    <3>1. item[i].total = d /\ item[i].age \in {0, 1}
      <4>1. Times(toDecayItems, i) > 0
        BY <1>6, <2>4
      <4> QED
        BY <2>1, <4>1 DEF WaitsInTime
    <3>2. d \in Int /\ (d = NoTime \/ d > 0)
      BY <1>1, <1>10 DEF AllStarted, ObjectOK, Marked, Object
    <3>3. Turns(last, last) = 4 /\ Turns(Next(last), last) = 1
      BY TurnsAre
    <3> HIDE DEF d
    <3>4. Duration(item[i]) = IF d = NoTime THEN 0 ELSE d
      BY DEF Duration, d
    <3>5. CASE d >= 8
      <4>1. Duration(item[i]) = d
        BY <3>2, <3>4, <3>5 DEF NoTime
      <4>2. b = last
        BY <2>4, <3>2, <3>5, <4>1, BucketIs
      <4>3. item[i].age + Ahead(b, p, last, 0) \in {4, 5}
        BY <2>2, <3>1, <3>3, <4>2
      <4> DEFINE a == item[i].age + Ahead(b, p, last, 0)
      <4>4. 2 * a \in {item[i].total - d + 8, item[i].total - d + 10}
        <5> HIDE DEF a
        <5>1. a \in {4, 5}
          BY <4>3 DEF a
        <5> QED
          BY <3>1, <3>2, <5>1
      <4> QED
        BY <3>5, <4>4 DEF OnTime, d
    <3>6. CASE d < 8
      <4>1. Duration(item[i]) \in 0..7
        BY <3>2, <3>4, <3>6 DEF NoTime
      <4>2. b = Next(last)
        BY <2>4, <4>1, BucketIs
      <4>3. item[i].age + Ahead(b, p, last, 0) \in {1, 2}
        BY <2>2, <3>1, <3>3, <4>2
      <4> QED
        BY <3>1, <3>6, <4>3 DEF OnTime, d
    <3> QED
      BY <3>2, <3>5, <3>6
  <2> QED
    BY <1>3, <1>10, <2>3, <2>4
<1>11. InTime'
  <2>1. ASSUME NEW i \in Items, Marked(item'[i]), item'[i].once
        PROVE  WaitsInTime(i)' /\ \A b \in 1..4 : \A p \in DOMAIN L[b] : IsInTime(i, b, p)'
    <3>1. WaitsInTime(i)'
      BY <1>6 DEF WaitsInTime
    <3>2. /\ item'[i].duration = item[i].duration /\ item'[i].age = item[i].age
          /\ item'[i].total = item[i].total /\ item[i].once /\ Marked(item[i])
      BY <1>4, <2>1
    <3>3. ASSUME NEW b \in 1..4, NEW p \in DOMAIN L[b], L[b][p] = i
          PROVE  OnTime(item'[i], item'[i].age + Ahead(b, p, last, 0))
      <4>1. OnTime(item[i], item[i].age + Ahead(b, p, last, 0))
        BY <1>10, <3>2, <3>3
      <4> QED
        BY <3>2, <4>1 DEF OnTime
    <3>4. \A b \in 1..4 : \A p \in DOMAIN L[b] : IsInTime(i, b, p)'
      BY <1>2, <3>3 DEF IsInTime
    <3> QED
      BY <3>1, <3>4
  <2> QED
    BY <1>2, <2>1 DEF InTime
<1> QED
  BY <1>5, <1>7, <1>8, <1>9, <1>11 DEF DecayInv

-----------------------------------------------------------------------------
(* The theorems.                                                           *)

LEMMA DecayStarts == DecayInit => DecayInv
<1> SUFFICES ASSUME DecayInit PROVE DecayInv
  OBVIOUS
<1>1. /\ item = [i \in Items |-> Unused] /\ decayItems = [b \in 1..4 |-> <<>>]
      /\ toDecayItems = <<>> /\ toReleaseItems = <<>> /\ lastBucket = 1 /\ visit = 0
  BY DEF DecayInit, Buckets
<1>2. Unused \in Object
  BY DEF Unused, Object, States, NoTime
<1>3. DecayTypeOK
  BY <1>1, <1>2 DEF DecayTypeOK, Lists, Buckets
<1>4. Unused.state = "none" /\ Unused.refs = 0
  BY DEF Unused
<1>5. ObjectOK(Unused) /\ Started(Unused) /\ ~Marked(Unused) /\ InUse(Unused) = 0
  BY <1>4 DEF ObjectOK, Started, CanDecay, Marked, InUse, InWorld
<1>6. ASSUME NEW i PROVE Times(<<>>, i) = 0
  <2>1. <<>> \in Seq(Items) /\ \A n \in DOMAIN <<>> : <<>>[n] # i
    OBVIOUS
  <2> QED
    BY <2>1, TimesIsNat
<1>7. ASSUME NEW i \in Items PROVE Owed(ItemState, i) = 0 /\ Entries(i) = 0
  <2>1. Entries(i) = 0
    <3>1. decayItems[1] = <<>> /\ decayItems[2] = <<>> /\ decayItems[3] = <<>> /\ decayItems[4] = <<>>
      BY <1>1
    <3> QED
      BY <1>6, <3>1 DEF Entries
  <2>2. /\ ItemState.of[i] = Unused /\ ItemState.new = <<>> /\ ItemState.release = <<>>
    BY <1>1 DEF ItemState
  <2>3. Owed(ItemState, i) = 0
    BY <1>4, <1>5, <1>6, <2>2 DEF Owed
  <2> QED
    BY <2>1, <2>3
<1>8. \A i \in Items : item[i] = Unused
  BY <1>1
<1> QED
  BY <1>3, <1>5, <1>7, <1>8 DEF DecayInv, Accounted, AllStarted, MarkedListed, InTime

LEMMA DecayStep == DecayInv /\ [DecayNext]_decayVars => DecayInv'
<1> SUFFICES ASSUME DecayInv, [DecayNext]_decayVars PROVE DecayInv'
  OBVIOUS
<1>1. DecayTypeOK /\ lastBucket \in 1..4 /\ Visited \in 1..4
  BY TurnsAre DEF DecayInv, DecayTypeOK, Buckets, Visited
<1>2. ASSUME NEW i \in Items, AddItem(i) PROVE DecayInv'
  BY <1>2, AddStep
<1>3. ASSUME NEW i \in Items, TransformItem(i) PROVE DecayInv'
  BY <1>3, TransformStep
<1>4. ASSUME NEW i \in Items, RemoveItem(i) PROVE DecayInv'
  BY <1>4, RemoveStep
<1>5. CASE CheckCreaturesEnds
  <2>1. /\ CleanedUp(lastBucket, ItemState) /\ lastBucket' = lastBucket /\ visit' = 0
        /\ visit = 0
    BY <1>5 DEF CheckCreaturesEnds
  <2> QED
    BY <1>1, <2>1, CleanupStep
<1>6. CASE CheckDecayEnds
  <2>1. /\ CleanedUp(Visited, ItemState) /\ lastBucket' = Visited /\ visit' = 0
        /\ visit > 0 /\ ~Visiting
    BY <1>6 DEF CheckDecayEnds
  <2> QED
    BY <1>1, <2>1, CleanupStep
<1>7. CASE CheckDecayBegins
  BY <1>7, BeginsStep
<1>8. CASE CheckDropped
  BY <1>8, DroppedStep
<1>9. CASE CheckRuns
  BY <1>9, RunsStep
<1>10. CASE CheckMoved
  BY <1>10, MovedStep
<1>11. CASE CheckKept
  BY <1>11, KeptStep
<1>12. CASE UNCHANGED decayVars
  BY <1>12 DEF decayVars, DecayInv, DecayTypeOK, Accounted, AllStarted, MarkedListed, InTime,
               Owed, Entries, Listings, Waiting, ItemState, Marked, WaitsInTime, IsInTime
<1> QED
  BY <1>2, <1>3, <1>4, <1>5, <1>6, <1>7, <1>8, <1>9, <1>10, <1>11, <1>12 DEF DecayNext

\* The invariant: the references of every item are accounted for, what can
\* decay has been started, what is marked is listed, and what was enlisted
\* once is at a place that is visited in time.
THEOREM DecayInvariant == DecaySpec => []DecayInv
<1> QED
  BY DecayStarts, DecayStep, PTL DEF DecaySpec

\* No item that is marked as decaying is forgotten, and none is freed while a
\* list or a release refers to it.
THEOREM DecayListed == DecaySpec => []ListedOrFree
<1>1. DecayInv => ListedOrFree
  <2> SUFFICES ASSUME DecayInv, NEW i \in Items
               PROVE  /\ item[i].decaying /\ item[i].state = "world"
                           => Entries(i) + Waiting(ItemState, i) > 0
                      /\ item[i].refs = (IF item[i].state = "world" THEN 1 ELSE 0)
                                        + (Entries(i) + Waiting(ItemState, i))
                                        + Times(toReleaseItems, i)
                      /\ item[i].state \in {"none", "freed"} <=> item[i].refs = 0
    BY DEF ListedOrFree
  <2>1. /\ DecayTypeOK /\ ObjectOK(item[i]) /\ Owed(ItemState, i) = Entries(i)
        /\ Marked(item[i]) => Listings(i) > 0
    BY DEF DecayInv, AllStarted, Accounted, MarkedListed
  <2>2. /\ Entries(i) \in Nat /\ Waiting(ItemState, i) = Times(toDecayItems, i)
        /\ Times(toDecayItems, i) \in Nat /\ Times(toReleaseItems, i) \in Nat
    BY <2>1, EntriesTyped
  <2>3. item[i].refs \in Nat
    BY <2>1 DEF DecayTypeOK, Object
  <2>4. item[i].decaying /\ item[i].state = "world" => Entries(i) + Waiting(ItemState, i) > 0
    BY <2>1 DEF Marked, InWorld, Listings
  <2>5. item[i].state \in {"none", "freed"} <=> item[i].refs = 0
    BY <2>1 DEF ObjectOK
  <2>6. Owed(ItemState, i) = item[i].refs - InUse(item[i]) - Times(toDecayItems, i)
                             - Times(toReleaseItems, i)
    BY <2>1, StateIs DEF Owed
  <2>7. InUse(item[i]) = (IF item[i].state = "world" THEN 1 ELSE 0)
    BY DEF InUse, InWorld
  <2>8. item[i].refs = (IF item[i].state = "world" THEN 1 ELSE 0)
                       + (Entries(i) + Waiting(ItemState, i)) + Times(toReleaseItems, i)
    BY <2>1, <2>2, <2>3, <2>6, <2>7
  <2> QED
    BY <2>4, <2>5, <2>8
<1> QED
  BY <1>1, DecayInvariant, PTL

LEMMA MaxOfTwo ==
    ASSUME NEW a \in Int, NEW b \in Int
    PROVE  Max({a, b}) \in {a, b} /\ Max({a, b}) >= a /\ Max({a, b}) >= b
<1>1. \E x \in {a, b} : \A y \in {a, b} : x >= y
  BY Z3
<1>2. Max({a, b}) = CHOOSE x \in {a, b} : \A y \in {a, b} : x >= y
  BY DEF Max
<1> QED
  BY <1>1, <1>2

\* What is visited for the last time, of the items enlisted once, is visited
\* less than a second early and an Interval, or two, late.
LEMMA RunsOnTime ==
    ASSUME DecayInv, CheckRuns, item[VisitedItem].once
    PROVE  /\ item[VisitedItem].age * Interval > item[VisitedItem].total - Second
           /\ item[VisitedItem].age * Interval <= Max({item[VisitedItem].total, Interval}) + Interval
<1> DEFINE v == VisitedItem
           d == item[v].duration
           t == item[v].total
           a == item[v].age
<1>1. Visiting /\ CanDecay(item[v]) /\ Runs(v) /\ item[v].once
  BY DEF CheckRuns
<1>2. /\ v \in Items /\ item[v] \in Object /\ Marked(item[v]) /\ d > 0
      /\ Left(v) = IF d < 8 THEN 0 ELSE d - 8
  BY <1>1, SpentIs
<1>3. OnTime(item[v], a)
  BY <1>1, <1>2, VisitedOnTime
<1>4. d \in Int /\ t \in Int /\ a \in Nat
  BY <1>2 DEF Object
<1>5. d < 16
  BY <1>1, <1>2, <1>4 DEF Runs, Second, Interval, Buckets
<1>6. Interval = 2 /\ Second = 8
  BY DEF Interval, Second, Buckets
<1> DEFINE m == Max({t, Interval})
<1>7. m = Max({t, 2})
  BY <1>6
<1> HIDE DEF v, d, t, a
<1>8. m \in {t, 2} /\ m >= t /\ m >= 2
  <2> HIDE DEF m
  <2>1. 2 \in Int
    OBVIOUS
  <2> QED
    BY <1>4, <1>7, <2>1, MaxOfTwo
<1> HIDE DEF m
<1>9. m \in Int
  BY <1>4, <1>8
<1>10. 2 * a > t - 8 /\ 2 * a <= m + 2
  <2>1. \/ d < 8 /\ t = d /\ a \in {1, 2}
        \/ d >= 8 /\ 2 * a \in {t - d + 8, t - d + 10}
        \/ d = 7 /\ 2 * a \in {t - 5, t - 3}
    BY <1>3 DEF OnTime, d, t
  <2>2. CASE d < 8 /\ t = d /\ a \in {1, 2}
    BY <1>4, <1>8, <1>9, <2>2
  <2>3. CASE d >= 8 /\ 2 * a \in {t - d + 8, t - d + 10}
    BY <1>4, <1>5, <1>8, <1>9, <2>3
  <2>4. CASE d = 7 /\ 2 * a \in {t - 5, t - 3}
    BY <1>4, <1>8, <1>9, <2>4
  <2> QED
    BY <2>1, <2>2, <2>3, <2>4
<1>11. a * 2 = 2 * a
  BY <1>4
<1> QED
  BY <1>6, <1>10, <1>11 DEF v, t, a, m

\* DecaysOnTime, from the invariant: an item's turns ahead and its age add up
\* to the time it was enlisted with.
THEOREM DecayTiming == DecaySpec => DecaysOnTime
<1>1. DecayInv /\ [DecayNext]_decayVars =>
        [CheckRuns /\ item[VisitedItem].once
         => LET own == item[VisitedItem]
            IN  /\ own.age * Interval > own.total - Second
                /\ own.age * Interval <= Max({own.total, Interval}) + Interval]_decayVars
  BY RunsOnTime
<1> QED
  BY <1>1, DecayInvariant, PTL DEF DecaySpec, DecaysOnTime

-----------------------------------------------------------------------------
(* The world *)

HouseRows == [owner : Owners, paid : BOOLEAN, warnings : Nat]

WorldTypeOK ==
    /\ serverState \in {"down", "loaded", "up", "saving"}
    /\ online \in SUBSET Inhabitants
    /\ held \in [Inhabitants -> SUBSET Belongings] /\ row \in [Inhabitants -> SUBSET Belongings]
    /\ tiles \in SUBSET Belongings /\ tileStore \in SUBSET Belongings
    /\ house \in HouseRows /\ houseRow \in HouseRows
    /\ rents \in [Inhabitants -> 0..2]
    /\ serverState \in {"down", "loaded"} => online = {}

\* What the save of a shutdown has behind it is in the rows, or is known not to
\* be.  After any other save memory is still there.
SaveProgress ==
    serverState = "saving" =>
        /\ todo \in Seq(online \cup {"houses", "tile_store"})
        /\ stopping =>
              /\ online = {}
              /\ "houses" \notin ToSet(todo) => Unpaid \subseteq forgotten
              /\ "tile_store" \notin ToSet(todo) => Differ(tiles, tileStore) \subseteq tornItems

\* Where an item is, each place by itself.
With(p, i) == i \in IF p \in online THEN held[p] ELSE row[p]
AtHome(i) == i \in IF serverState = "down" THEN tileStore ELSE tiles
InOnePlace(i) ==
    IF AtHome(i) THEN \A p \in Inhabitants : ~With(p, i)
    ELSE \E p \in Inhabitants : \A q \in Inhabitants : With(q, i) <=> q = p
AllInOnePlace == \A i \in Belongings \ tornItems : InOnePlace(i)

\* A rent that is due has not been taken from the owner, unless the payment was
\* forgotten: in the house while the server runs, in its row while it is down.
Owing(p) == p \in Inhabitants \ forgotten => rents[p] = 0
RentOwed ==
    /\ RentTakenOnce
    /\ serverState # "down" /\ ~house.paid => Owing(house.owner)
    /\ serverState = "down" /\ ~houseRow.paid => Owing(houseRow.owner)

WorldInv == WorldTypeOK /\ SaveProgress /\ AllInOnePlace /\ RentOwed

USE WorldSaveAssumption DEF WorldSaveAssumption, Owners, Running, Stored, Kept

LEMMA SetToSeqIsSeq ==
    ASSUME NEW S, IsFiniteSet(S)
    PROVE  SetToSeq(S) \in Seq(S)
<1>1. Cardinality(S) \in Nat /\ ExistsBijection(1..Cardinality(S), S)
  BY FS_CardinalityType
<1>2. PICK f \in [1..Cardinality(S) -> S] : IsInjective(f)
  BY <1>1 DEF ExistsBijection, Bijection, Injection, IsInjective
<1>3. SetToSeq(S) \in [1..Cardinality(S) -> S]
  BY <1>2 DEF SetToSeq
<1> QED
  BY <1>1, <1>3

LEMMA WorldInit == WorldSaveInit => WorldInv
<1> SUFFICES ASSUME WorldSaveInit PROVE WorldInv
  OBVIOUS
<1>1. FreeHouse \in HouseRows
  BY DEF FreeHouse, HouseRows
<1>2. PICK p \in Inhabitants : row = [q \in Inhabitants |-> IF p = q THEN Belongings ELSE {}]
  BY DEF WorldSaveInit
<1>3. row \in [Inhabitants -> SUBSET Belongings] /\ held \in [Inhabitants -> SUBSET Belongings]
  BY <1>2 DEF WorldSaveInit
<1>4. house \in HouseRows /\ houseRow \in HouseRows
  BY <1>1 DEF WorldSaveInit
<1>5. WorldTypeOK
  BY <1>3, <1>4 DEF WorldSaveInit, WorldTypeOK
<1>6. AllInOnePlace
  BY <1>2 DEF WorldSaveInit, AllInOnePlace, InOnePlace, AtHome, With
<1>7. RentOwed
  BY DEF WorldSaveInit, RentOwed, RentTakenOnce, Owing
<1> QED
  BY <1>5, <1>6, <1>7 DEF WorldSaveInit, WorldInv, SaveProgress

\* Every item is in one place of an untorn world, however it gets there: a step
\* changes the places of no item, or moves i from one to another, or takes all
\* that is in the house to p.
Untouched == \A i \in Belongings \ tornItems' :
                /\ i \notin tornItems
                /\ AtHome(i)' <=> AtHome(i)
                /\ \A p \in Inhabitants : With(p, i)' <=> With(p, i)
TakenHome(p) == \A i \in Belongings \ tornItems' :
                /\ i \notin tornItems
                /\ ~AtHome(i)'
                /\ \A q \in Inhabitants : With(q, i)' <=> (With(q, i) \/ (q = p /\ AtHome(i)))

LEMMA UntouchedKeeps == AllInOnePlace /\ Untouched => AllInOnePlace'
BY DEF AllInOnePlace, Untouched, InOnePlace

LEMMA TakenHomeKeeps ==
    ASSUME AllInOnePlace, NEW p \in Inhabitants, TakenHome(p)
    PROVE  AllInOnePlace'
<1> SUFFICES ASSUME NEW i \in Belongings \ tornItems' PROVE InOnePlace(i)'
  BY DEF AllInOnePlace
<1>1. InOnePlace(i)
  BY DEF AllInOnePlace, TakenHome
<1> QED
  BY <1>1 DEF InOnePlace, TakenHome

\* What becomes of a copy, and of what it is given, if that is not torn.
LEMMA CopyIs ==
    ASSUME WorldTypeOK, NEW p \in Inhabitants, NEW items \in SUBSET Belongings,
           CopyGets(p, items)
    PROVE  /\ row' \in [Inhabitants -> SUBSET Belongings]
           /\ \A i \in Belongings \ tornItems' :
                 /\ i \notin tornItems
                 /\ \A q \in Inhabitants : i \in row'[q] <=> (i \in row[q] \/ (q = p /\ i \in items))
<1>1. CASE CopySaved(p, items)
  <2>1. PICK found \in SUBSET row[p] :
           /\ row' = [row EXCEPT ![p] = found \cup items]
           /\ tornItems' = tornItems \cup (row[p] \ found)
    BY <1>1 DEF CopySaved, Loaded
  <2> QED
    BY <2>1 DEF WorldTypeOK
<1>2. CASE CopyLost(items)
  BY <1>2 DEF CopyLost, WorldTypeOK
<1> QED
  BY <1>1, <1>2 DEF CopyGets

LEMMA CopyEmpty ==
    ASSUME WorldInv, NEW p \in Inhabitants \ online, CopyGets(p, {}),
           UNCHANGED <<online, held, tiles, tileStore>>, serverState # "down", serverState' # "down"
    PROVE  /\ row' \in [Inhabitants -> SUBSET Belongings]
           /\ AllInOnePlace'
<1>1. WorldTypeOK /\ AllInOnePlace /\ {} \in SUBSET Belongings
  BY DEF WorldInv
<1>2. /\ row' \in [Inhabitants -> SUBSET Belongings]
      /\ \A i \in Belongings \ tornItems' :
            /\ i \notin tornItems
            /\ \A q \in Inhabitants : i \in row'[q] <=> (i \in row[q] \/ (q = p /\ i \in {}))
  BY <1>1, CopyIs
<1>3. Untouched
  BY <1>2 DEF Untouched, With, AtHome
<1> QED
  BY <1>1, <1>2, <1>3, UntouchedKeeps

LEMMA CopyTakesAll ==
    ASSUME WorldInv, NEW p \in Inhabitants \ online, CopyGets(p, tiles), tiles' = {},
           UNCHANGED <<online, held>>, serverState # "down", serverState' # "down"
    PROVE  /\ row' \in [Inhabitants -> SUBSET Belongings]
           /\ AllInOnePlace'
<1>1. WorldTypeOK /\ AllInOnePlace /\ tiles \in SUBSET Belongings
  BY DEF WorldInv, WorldTypeOK
<1>2. /\ row' \in [Inhabitants -> SUBSET Belongings]
      /\ \A i \in Belongings \ tornItems' :
            /\ i \notin tornItems
            /\ \A q \in Inhabitants : i \in row'[q] <=> (i \in row[q] \/ (q = p /\ i \in tiles))
  BY <1>1, CopyIs
<1>3. TakenHome(p)
  BY <1>2 DEF TakenHome, With, AtHome
<1> QED
  BY <1>1, <1>2, <1>3, TakenHomeKeeps

\* transferToDepot() moves all or nothing, into one place.
LEMMA DepositToCopyKeeps ==
    ASSUME WorldInv, NEW p \in Inhabitants \ online, DepositToCopy(p),
           UNCHANGED online, serverState # "down", serverState' # "down"
    PROVE  /\ row' \in [Inhabitants -> SUBSET Belongings]
           /\ tiles' \in SUBSET Belongings /\ held' = held
           /\ AllInOnePlace'
<1>1. WorldTypeOK /\ AllInOnePlace /\ held' = held
  BY DEF WorldInv, DepositToCopy
<1>2. CASE CopyGets(p, tiles) /\ tiles' = {}
  BY <1>1, <1>2, CopyTakesAll
<1>3. CASE UNCHANGED <<row, tiles, tornItems>>
  <2>1. Untouched
    BY <1>1, <1>3 DEF Untouched, With, AtHome
  <2> QED
    BY <1>1, <1>3, <2>1, UntouchedKeeps DEF WorldTypeOK
<1> QED
  BY <1>2, <1>3 DEF DepositToCopy

LEMMA DepositKeeps ==
    ASSUME WorldInv, NEW p \in Inhabitants, Deposit(p),
           UNCHANGED online, serverState # "down", serverState' # "down"
    PROVE  /\ row' \in [Inhabitants -> SUBSET Belongings]
           /\ held' \in [Inhabitants -> SUBSET Belongings]
           /\ tiles' \in SUBSET Belongings
           /\ AllInOnePlace'
<1>1. WorldTypeOK /\ AllInOnePlace
  BY DEF WorldInv
<1>2. CASE p \in online
  <2>1. held' = [held EXCEPT ![p] = @ \cup tiles] /\ tiles' = {} /\ UNCHANGED <<row, tornItems>>
    BY <1>2 DEF Deposit
  <2>2. TakenHome(p)
    BY <1>1, <1>2, <2>1 DEF TakenHome, With, AtHome, WorldTypeOK
  <2> QED
    BY <1>1, <2>1, <2>2, TakenHomeKeeps DEF WorldTypeOK
<1>3. CASE p \notin online
  BY <1>1, <1>3, DepositToCopyKeeps DEF WorldTypeOK, Deposit
<1> QED
  BY <1>2, <1>3

LEMMA PassesTyped ==
    ASSUME WorldTypeOK, NEW p \in Owners, Passes(p)
    PROVE  house' \in HouseRows /\ houseRow' \in HouseRows /\ house'.owner \in {p, Nobody}
<1>1. PICK q \in {p, Nobody} :
         house' = [IF house.owner = Nobody THEN house ELSE FreeHouse EXCEPT !.owner = q]
  BY DEF Passes
<1>2. \A h \in HouseRows, o \in Owners : /\ [h EXCEPT !.owner = o] \in HouseRows
                                       /\ [h EXCEPT !.owner = o].owner = o
  BY DEF HouseRows
<1>3. (IF house.owner = Nobody THEN house ELSE FreeHouse) \in HouseRows
  BY DEF WorldTypeOK, HouseRows, FreeHouse
<1>4. house' \in HouseRows /\ house'.owner = q
  BY <1>1, <1>2, <1>3
<1>5. houseRow' \in HouseRows
  BY <1>2 DEF Passes, WorldTypeOK
<1> QED
  BY <1>4, <1>5

\* The step of payHouses() that is taken.
LEMMA PayHousesIs ==
    ASSUME WorldInv, PayHouses
    PROVE  /\ row' \in [Inhabitants -> SUBSET Belongings] /\ tiles' \in SUBSET Belongings
           /\ house' \in HouseRows /\ houseRow' \in HouseRows /\ rents' \in [Inhabitants -> 0..2]
           /\ AllInOnePlace' /\ RentOwed'
<1>0. /\ WorldTypeOK /\ AllInOnePlace /\ RentOwed /\ serverState = "loaded" /\ serverState' = "up"
      /\ online = {} /\ UNCHANGED <<online, held, tileStore, forgotten>>
  BY DEF WorldInv, WorldTypeOK, PayHouses
<1>1. CASE ~RentIsDue /\ UNCHANGED <<house, tiles, row, tornItems, houseRow, rents>>
  <2>1. Untouched
    BY <1>0, <1>1 DEF Untouched, With, AtHome
  <2> QED
    BY <1>0, <1>1, <2>1, UntouchedKeeps DEF WorldTypeOK, RentOwed, RentTakenOnce, Owing
<1>2. RentIsDue => Owner \in Inhabitants \ online /\ Owing(Owner)
  BY <1>0 DEF RentIsDue, Owner, WorldTypeOK, HouseRows, RentOwed
<1>3. CASE RentTaken
  <2>1. RentIsDue /\ CopyGets(Owner, {}) /\ UNCHANGED <<tiles, houseRow>>
        /\ house' = [house EXCEPT !.paid = TRUE]
        /\ \/ rents' = rents
           \/ rents' = [rents EXCEPT ![Owner] = IF rents[Owner] > 1 THEN rents[Owner] ELSE rents[Owner] + 1]
    BY <1>3 DEF RentTaken, CopyGets
  <2>2. row' \in [Inhabitants -> SUBSET Belongings] /\ AllInOnePlace'
    BY <1>0, <1>2, <2>1, CopyEmpty
  <2>3. house' \in HouseRows /\ house'.paid
    BY <1>0, <2>1 DEF WorldTypeOK, HouseRows
  <2>4. rents' \in [Inhabitants -> 0..2]
    BY <1>0, <2>1 DEF WorldTypeOK
  <2>5. RentTakenOnce'
    BY <1>0, <1>2, <2>1 DEF RentTakenOnce, RentOwed, Owing, WorldTypeOK
  <2>6. RentOwed'
    BY <1>0, <2>3, <2>5 DEF RentOwed
  <2> QED
    BY <1>0, <2>1, <2>2, <2>3, <2>4, <2>6 DEF WorldTypeOK
<1>4. CASE Warned
  <2>1. /\ RentIsDue /\ CopyGets(Owner, {}) /\ UNCHANGED <<tiles, houseRow, rents>>
        /\ house' = [house EXCEPT !.warnings = @ + 1]
    BY <1>4 DEF Warned
  <2>2. row' \in [Inhabitants -> SUBSET Belongings] /\ AllInOnePlace'
    BY <1>0, <1>2, <2>1, CopyEmpty
  <2>3. house' \in HouseRows /\ house'.owner = house.owner /\ house'.paid = house.paid
    BY <1>0, <2>1 DEF WorldTypeOK, HouseRows
  <2>4. RentOwed'
    BY <1>0, <2>1, <2>3 DEF RentOwed, RentTakenOnce, Owing
  <2> QED
    BY <1>0, <2>1, <2>2, <2>3, <2>4 DEF WorldTypeOK
<1>5. CASE Evicted
  <2>1. /\ RentIsDue /\ Passes(Nobody) /\ UNCHANGED rents
        /\ \/ CopyGets(Owner, tiles) /\ tiles' = {}
           \/ DepositToCopy(Owner)
    BY <1>5 DEF Evicted
  <2>2. /\ row' \in [Inhabitants -> SUBSET Belongings] /\ tiles' \in SUBSET Belongings
        /\ AllInOnePlace'
    BY <1>0, <1>2, <2>1, CopyTakesAll, DepositToCopyKeeps
  <2>3. house' \in HouseRows /\ houseRow' \in HouseRows /\ house'.owner = Nobody
    BY <1>0, <2>1, PassesTyped
  <2>4. RentOwed'
    BY <1>0, <2>1, <2>3 DEF RentOwed, RentTakenOnce, Owing
  <2> QED
    BY <1>0, <2>1, <2>2, <2>3, <2>4 DEF WorldTypeOK
<1> QED
  BY <1>1, <1>3, <1>4, <1>5 DEF PayHouses

LEMMA WorldTypeStep == ASSUME WorldInv, WorldSaveNext PROVE WorldTypeOK'
<1> USE DEF WorldTypeOK
<1>0. WorldTypeOK /\ FreeHouse \in HouseRows
  BY DEF WorldInv, FreeHouse, HouseRows
<1>1. CASE Start
  <2>1. house' \in HouseRows
    BY <1>0, <1>1 DEF Start, HouseRows
  <2> QED
    BY <1>0, <1>1, <2>1 DEF Start
<1>2. CASE PayHouses
  BY <1>0, <1>2, PayHousesIs DEF PayHouses
<1>3. CASE Crash \/ SaveEnds
  BY <1>0, <1>3 DEF Crash, SaveEnds, Down
<1>4. CASE SaveBegins
  BY <1>0, <1>4 DEF SaveBegins
<1>5. CASE RentFallsDue
  <2>1. house' \in HouseRows /\ houseRow' \in HouseRows
    BY <1>0, <1>5 DEF RentFallsDue, HouseRows
  <2> QED
    BY <1>0, <1>5, <2>1 DEF RentFallsDue
<1>6. CASE SaveNext
  <2>1. /\ \/ row' = row
           \/ row' = [row EXCEPT ![Head(todo)] = held[Head(todo)]] /\ Head(todo) \in online
        /\ tileStore' \in {tileStore, tiles} /\ houseRow' \in {houseRow, house}
        /\ UNCHANGED <<serverState, online, held, tiles, house, rents>>
    BY <1>6 DEF SaveNext, SavesPlayer, SavesHouse, SavesHouseItems, HouseInfo, SavePlayer
  <2>2. row' \in [Inhabitants -> SUBSET Belongings]
    BY <1>0, <2>1
  <2> QED
    BY <1>0, <2>1, <2>2
<1>7. ASSUME NEW p \in Inhabitants, Login(p) PROVE WorldTypeOK'
  <2>1. PICK found \in SUBSET row[p] : held' = [held EXCEPT ![p] = found]
    BY <1>7 DEF Login, Loaded
  <2>2. held' \in [Inhabitants -> SUBSET Belongings]
    BY <1>0, <2>1
  <2> QED
    BY <1>0, <1>7, <2>2 DEF Login
<1>8. ASSUME NEW p \in Inhabitants, Saved(p) \/ Logout(p) PROVE WorldTypeOK'
  <2>1. row' = row \/ row' = [row EXCEPT ![p] = held[p]]
    BY <1>8 DEF Saved, Logout, SavePlayer
  <2>2. row' \in [Inhabitants -> SUBSET Belongings]
    BY <1>0, <2>1
  <2> QED
    BY <1>0, <1>8, <2>2 DEF Saved, Logout
<1>9. ASSUME NEW p \in Owners, SetOwner(p) PROVE WorldTypeOK'
  <2>1. house' \in HouseRows /\ houseRow' \in HouseRows
    BY <1>0, <1>9, PassesTyped DEF SetOwner
  <2>2. /\ row' \in [Inhabitants -> SUBSET Belongings]
        /\ held' \in [Inhabitants -> SUBSET Belongings] /\ tiles' \in SUBSET Belongings
    <3>1. CASE house.owner = Nobody
      BY <1>0, <1>9, <3>1 DEF SetOwner
    <3>2. CASE house.owner # Nobody
      <4>1. house.owner \in Inhabitants /\ Deposit(house.owner)
        BY <1>0, <1>9, <3>2 DEF SetOwner, HouseRows
      <4>2. UNCHANGED online /\ serverState # "down" /\ serverState' # "down"
        BY <1>9 DEF SetOwner
      <4> QED
        BY <4>1, <4>2, DepositKeeps
    <3> QED
      BY <3>1, <3>2
  <2>3. rents' \in [Inhabitants -> 0..2]
    BY <1>0, <1>9 DEF SetOwner
  <2> QED
    BY <1>0, <1>9, <2>1, <2>2, <2>3 DEF SetOwner
<1>10. ASSUME NEW i \in Belongings, NEW p \in Inhabitants, PutInHouse(i, p) \/ TakeFromHouse(i, p)
      PROVE  WorldTypeOK'
  BY <1>0, <1>10 DEF PutInHouse, TakeFromHouse
<1>11. ASSUME NEW i \in Belongings, NEW p \in Inhabitants, NEW q \in Inhabitants, Give(i, p, q)
      PROVE  WorldTypeOK'
  BY <1>0, <1>11 DEF Give
<1>12. ASSUME NEW i \in Belongings, NEW p \in Inhabitants, NEW q \in Inhabitants, SendItem(i, p, q)
      PROVE  WorldTypeOK'
  <2>1. held' \in [Inhabitants -> SUBSET Belongings]
    <3>1. \/ held' = [held EXCEPT ![p] = @ \ {i}, ![q] = @ \cup {i}]
          \/ held' = [held EXCEPT ![p] = @ \ {i}]
      BY <1>12 DEF SendItem
    <3> QED
      BY <1>0, <3>1
  <2>2. row' \in [Inhabitants -> SUBSET Belongings]
    <3>1. row' = row \/ CopyGets(q, {i})
      BY <1>12 DEF SendItem
    <3>2. {i} \in SUBSET Belongings
      OBVIOUS
    <3> QED
      BY <1>0, <3>1, <3>2, CopyIs
  <2> QED
    BY <1>0, <1>12, <2>1, <2>2 DEF SendItem
<1> QED
  BY <1>1, <1>2, <1>3, <1>4, <1>5, <1>6, <1>7, <1>8, <1>9, <1>10, <1>11, <1>12 DEF WorldSaveNext

LEMMA SaveProgressStep == ASSUME WorldInv, WorldSaveNext PROVE SaveProgress'
<1>1. CASE SaveBegins
  <2>1. todo' = SetToSeq(online) \o <<"houses", "tile_store">> /\ UNCHANGED online
    BY <1>1 DEF SaveBegins
  <2>2. SetToSeq(online) \in Seq(online)
    BY FS_Subset, SetToSeqIsSeq DEF WorldInv, WorldTypeOK
  <2> DEFINE s == SetToSeq(online)
             E == online \cup {"houses", "tile_store"}
  <2>3. s \in Seq(E) /\ Len(s) \in Nat
    BY <2>2
  <2> HIDE DEF s
  <2>4. /\ s \o <<"houses", "tile_store">> \in Seq(E)
        /\ Len(s \o <<"houses", "tile_store">>) = Len(s) + 2
        /\ (s \o <<"houses", "tile_store">>)[Len(s) + 1] = "houses"
        /\ (s \o <<"houses", "tile_store">>)[Len(s) + 2] = "tile_store"
    BY <2>3
  <2>5. todo' \in Seq(E) /\ {"houses", "tile_store"} \subseteq ToSet(todo')
    <3>1. todo' = s \o <<"houses", "tile_store">>
      BY <2>1 DEF s
    <3>2. todo' \in Seq(E) /\ DOMAIN todo' = 1..(Len(s) + 2)
      BY <2>4, <3>1
    <3>3. Len(s) + 1 \in DOMAIN todo' /\ Len(s) + 2 \in DOMAIN todo'
      BY <2>3, <3>2
    <3> QED
      BY <2>4, <3>1, <3>2, <3>3 DEF ToSet
  <2> QED
    BY <1>1, <2>1, <2>5 DEF SaveProgress, SaveBegins
<1>2. CASE SaveNext
  <2> DEFINE E == online \cup {"houses", "tile_store"}
  <2>0. /\ serverState = "saving" /\ todo \in Seq(E) /\ todo # <<>>
        /\ UNCHANGED <<serverState, online, tiles, house, stopping>>
        /\ WorldTypeOK
        /\ stopping => /\ online = {}
                       /\ "houses" \notin ToSet(todo) => Unpaid \subseteq forgotten
                       /\ "tile_store" \notin ToSet(todo) => Differ(tiles, tileStore) \subseteq tornItems
    BY <1>2 DEF SaveNext, WorldInv, SaveProgress
  <2>1. Tail(todo) \in Seq(E) /\ ToSet(todo) = {Head(todo)} \cup ToSet(Tail(todo))
    <3>1. /\ Tail(todo) \in Seq(E) /\ Len(Tail(todo)) = Len(todo) - 1 /\ Len(todo) \in Nat \ {0}
          /\ \A n \in 1..(Len(todo) - 1) : Tail(todo)[n] = todo[n + 1]
          /\ Head(todo) = todo[1]
      BY <2>0
    <3>2. ToSet(Tail(todo)) \subseteq ToSet(todo) /\ Head(todo) \in ToSet(todo)
      BY <3>1 DEF ToSet
    <3>3. ASSUME NEW x \in ToSet(todo), x # Head(todo) PROVE x \in ToSet(Tail(todo))
      <4>1. PICK n \in 1..Len(todo) : todo[n] = x
        BY DEF ToSet
      <4>2. n - 1 \in 1..(Len(todo) - 1) /\ Tail(todo)[n - 1] = x
        BY <3>1, <3>3, <4>1
      <4>3. n - 1 \in DOMAIN Tail(todo)
        BY <3>1, <4>2
      <4> QED
        BY <4>2, <4>3 DEF ToSet
    <3> QED
      BY <2>0, <3>1, <3>2, <3>3
  <2>2. CASE SavesPlayer
    <3>1. /\ Head(todo) \in online /\ todo' = Tail(todo)
          /\ UNCHANGED <<tileStore, houseRow, tornItems, forgotten>>
      BY <2>2 DEF SavesPlayer
    <3>2. stopping' => FALSE
      BY <2>0, <3>1
    <3> QED
      BY <2>0, <2>1, <3>1, <3>2 DEF SaveProgress
  <2>3. CASE SavesHouse
    <3>1. /\ Head(todo) = "houses" /\ tileStore' = tileStore
          /\ stopping => \/ houseRow' = house
                         \/ houseRow' = houseRow /\ forgotten' = forgotten \cup Unpaid
          /\ \/ todo' = Tail(todo) /\ tornItems' = tornItems
             \/ /\ todo' = <<>>
                /\ stopping => tornItems' = tornItems \cup Differ(tiles, tileStore)
      BY <2>3 DEF SavesHouse, HouseInfo
    <3>2. todo' \in Seq(E)
      <4>1. <<>> \in Seq(E)
        OBVIOUS
      <4> QED
        BY <2>1, <3>1, <4>1
    <3>3. ASSUME stopping PROVE Unpaid' \subseteq forgotten'
      BY <2>0, <3>1, <3>3 DEF Unpaid
    <3>4. ASSUME stopping, "tile_store" \notin ToSet(todo')
          PROVE  Differ(tiles, tileStore)' \subseteq tornItems'
      <4>1. CASE todo' = Tail(todo) /\ tornItems' = tornItems
        <5>1. "tile_store" \notin ToSet(todo)
          BY <2>1, <3>1, <3>4, <4>1
        <5> QED
          BY <2>0, <3>1, <3>4, <4>1, <5>1 DEF Differ
      <4>2. CASE tornItems' = tornItems \cup Differ(tiles, tileStore)
        BY <2>0, <3>1, <4>2 DEF Differ
      <4> QED
        BY <3>1, <3>4, <4>1, <4>2
    <3> QED
      BY <2>0, <3>2, <3>3, <3>4 DEF SaveProgress
  <2>4. CASE SavesHouseItems
    <3>1. /\ Head(todo) = "tile_store" /\ todo' = Tail(todo) /\ UNCHANGED <<houseRow, forgotten>>
          /\ stopping => \/ tileStore' = tiles
                         \/ tileStore' = tileStore /\ tornItems' = tornItems \cup Differ(tiles, tileStore)
      BY <2>4 DEF SavesHouseItems
    <3>2. ASSUME stopping, "houses" \notin ToSet(todo') PROVE Unpaid' \subseteq forgotten'
      <4>1. "houses" \notin ToSet(todo)
        BY <2>1, <3>1, <3>2
      <4> QED
        BY <2>0, <3>1, <3>2, <4>1 DEF Unpaid
    <3>3. ASSUME stopping PROVE Differ(tiles, tileStore)' \subseteq tornItems'
      BY <2>0, <3>1, <3>3 DEF Differ
    <3> QED
      BY <2>0, <2>1, <3>1, <3>2, <3>3 DEF SaveProgress
  <2> QED
    BY <1>2, <2>2, <2>3, <2>4 DEF SaveNext
<1>3. CASE serverState' # "saving"
  BY <1>3 DEF SaveProgress
<1>4. CASE Start \/ PayHouses \/ RentFallsDue \/ SaveEnds \/ Crash
  BY <1>3, <1>4 DEF Start, PayHouses, RentFallsDue, SaveEnds, Crash, Down
<1>5. ASSUME NEW p \in Owners, SetOwner(p) PROVE SaveProgress'
  BY <1>3, <1>5 DEF SetOwner
<1>6. ASSUME NEW p \in Inhabitants, Login(p) \/ Saved(p) \/ Logout(p) PROVE SaveProgress'
  BY <1>3, <1>6 DEF Login, Saved, Logout
<1>7. ASSUME NEW i \in Belongings, NEW p \in Inhabitants, PutInHouse(i, p) \/ TakeFromHouse(i, p)
      PROVE  SaveProgress'
  BY <1>3, <1>7 DEF PutInHouse, TakeFromHouse
<1>8. ASSUME NEW i \in Belongings, NEW p \in Inhabitants, NEW q \in Inhabitants,
             Give(i, p, q) \/ SendItem(i, p, q)
      PROVE  SaveProgress'
  BY <1>3, <1>8 DEF Give, SendItem
<1> QED
  BY <1>1, <1>2, <1>4, <1>5, <1>6, <1>7, <1>8 DEF WorldSaveNext

LEMMA OnePlaceStep == ASSUME WorldInv, WorldSaveNext PROVE AllInOnePlace'
<1> USE DEF With, AtHome
<1>0. WorldTypeOK /\ AllInOnePlace
  BY DEF WorldInv
<1>1. CASE Start
  <2>1. Untouched
    BY <1>0, <1>1 DEF Start, WorldTypeOK, Untouched
  <2> QED
    BY <1>0, <2>1, UntouchedKeeps
<1>2. CASE Crash
  <2>1. \A i \in Belongings \ tornItems' :
           /\ i \notin tornItems
           /\ i \in tiles <=> i \in tileStore
           /\ \A p \in online : i \in held[p] <=> i \in row[p]
    <3>1. SUFFICES ASSUME NEW i \in Belongings, i \notin tornItems \cup Unsaved
                   PROVE  /\ i \in tiles <=> i \in tileStore
                          /\ \A p \in online : i \in held[p] <=> i \in row[p]
      BY <1>2 DEF Crash
    <3>2. i \notin Differ(tiles, tileStore) /\ \A p \in online : i \notin Differ(held[p], row[p])
      BY <3>1 DEF Unsaved
    <3> QED
      BY <3>2 DEF Differ
  <2>2. Untouched
    BY <1>0, <1>2, <2>1 DEF Untouched, Crash, Down, Stored
  <2> QED
    BY <1>0, <2>2, UntouchedKeeps
<1>3. CASE SaveBegins \/ RentFallsDue
  <2>1. Untouched
    BY <1>3 DEF Untouched, SaveBegins, RentFallsDue
  <2> QED
    BY <1>0, <2>1, UntouchedKeeps
<1>4. CASE SaveNext
  <2>1. /\ serverState = "saving" /\ UNCHANGED <<serverState, online, held, tiles>>
        /\ tornItems \subseteq tornItems'
    BY <1>4 DEF SaveNext, SavesPlayer, SavesHouse, SavesHouseItems
  <2>2. \A q \in Inhabitants \ online : row'[q] = row[q]
    <3>1. \/ row' = row
          \/ Head(todo) \in online /\ row' = [row EXCEPT ![Head(todo)] = held[Head(todo)]]
      BY <1>4 DEF SaveNext, SavesPlayer, SavesHouse, SavesHouseItems, SavePlayer
    <3> QED
      BY <1>0, <3>1 DEF WorldTypeOK
  <2>3. Untouched
    BY <2>1, <2>2 DEF Untouched
  <2> QED
    BY <1>0, <2>3, UntouchedKeeps
<1>5. CASE SaveEnds
  <2>1. CASE stopping
    <3>1. Differ(tiles, tileStore) \subseteq tornItems /\ online = {}
      <4>1. todo = <<>> /\ serverState = "saving"
        BY <1>5 DEF SaveEnds
      <4>2. ToSet(todo) = {}
        BY <4>1 DEF ToSet
      <4> QED
        BY <2>1, <4>1, <4>2 DEF WorldInv, SaveProgress
    <3>2. \A i \in Belongings \ tornItems : i \in tiles <=> i \in tileStore
      BY <3>1 DEF Differ
    <3>3. Untouched
      BY <1>5, <2>1, <3>1, <3>2 DEF Untouched, SaveEnds, Down
    <3> QED
      BY <1>0, <3>3, UntouchedKeeps
  <2>2. CASE ~stopping
    <3>1. Untouched
      BY <1>5, <2>2 DEF Untouched, SaveEnds
    <3> QED
      BY <1>0, <3>1, UntouchedKeeps
  <2> QED
    BY <2>1, <2>2
<1>6. CASE PayHouses
  BY <1>0, <1>6, PayHousesIs
<1>7. ASSUME NEW p \in Inhabitants, Login(p) PROVE AllInOnePlace'
  <2>1. PICK found \in SUBSET row[p] :
           /\ held' = [held EXCEPT ![p] = found]
           /\ tornItems' = tornItems \cup (row[p] \ found)
    BY <1>7 DEF Login, Loaded
  <2>2. Running /\ p \notin online /\ online' = online \cup {p}
        /\ UNCHANGED <<serverState, tiles, row, tileStore>>
    BY <1>7 DEF Login
  <2>3. Untouched
    BY <1>0, <2>1, <2>2 DEF Untouched, WorldTypeOK
  <2> QED
    BY <1>0, <2>3, UntouchedKeeps
<1>8. ASSUME NEW p \in Inhabitants, Logout(p) PROVE AllInOnePlace'
  <2>1. /\ Running /\ p \in online /\ online' = online \ {p} /\ UNCHANGED <<serverState, tiles, tileStore>>
        /\ held' = [held EXCEPT ![p] = {}]
        /\ \/ row' = [row EXCEPT ![p] = held[p]] /\ tornItems' = tornItems
           \/ row' = row /\ tornItems' = tornItems \cup Differ(held[p], row[p])
    BY <1>8 DEF Logout, SavePlayer
  <2>2. \A i \in Belongings \ tornItems' : i \notin tornItems /\ (i \in held[p] <=> i \in row'[p])
    BY <1>0, <2>1 DEF Differ, WorldTypeOK
  <2>3. \A q \in Inhabitants \ {p} : row'[q] = row[q] /\ held'[q] = held[q]
    BY <1>0, <2>1 DEF WorldTypeOK
  <2>4. Untouched
    BY <2>1, <2>2, <2>3 DEF Untouched
  <2> QED
    BY <1>0, <2>4, UntouchedKeeps
<1>9. ASSUME NEW p \in Inhabitants, Saved(p) PROVE AllInOnePlace'
  <2>1. Untouched
    BY <1>0, <1>9 DEF Untouched, Saved, SavePlayer, WorldTypeOK
  <2> QED
    BY <1>0, <2>1, UntouchedKeeps
<1>10. ASSUME NEW i \in Belongings, NEW p \in Inhabitants, With(p, i) \/ AtHome(i),
             tornItems \subseteq tornItems',
             \A j \in Belongings \ {i} : j \notin tornItems' =>
                /\ AtHome(j)' <=> AtHome(j)
                /\ \A q \in Inhabitants : With(q, j)' <=> With(q, j),
             i \notin tornItems' => InOnePlace(i)'
      PROVE  AllInOnePlace'
  <2> HIDE DEF With, AtHome
  <2> QED
    BY <1>0, <1>10 DEF AllInOnePlace, InOnePlace
<1>11. ASSUME NEW p \in Owners, SetOwner(p) PROVE AllInOnePlace'
  <2>1. serverState = "up" /\ UNCHANGED <<serverState, online, tileStore>>
    BY <1>11 DEF SetOwner
  <2>2. CASE house.owner = Nobody
    <3>1. Untouched
      BY <1>11, <2>1, <2>2 DEF SetOwner, Untouched
    <3> QED
      BY <1>0, <3>1, UntouchedKeeps
  <2>3. CASE house.owner # Nobody
    <3>1. house.owner \in Inhabitants /\ Deposit(house.owner)
      BY <1>0, <1>11, <2>3 DEF SetOwner, WorldTypeOK, HouseRows
    <3> QED
      BY <2>1, <3>1, DepositKeeps
  <2> QED
    BY <2>2, <2>3
<1>12. ASSUME NEW i \in Belongings, NEW p \in Inhabitants, PutInHouse(i, p) PROVE AllInOnePlace'
  <2>1. /\ serverState = "up" /\ p \in online /\ i \in held[p] /\ tiles' = tiles \cup {i}
        /\ UNCHANGED <<serverState, online, row, tileStore, tornItems>>
        /\ \A q \in Inhabitants : held'[q] = IF q = p THEN held[q] \ {i} ELSE held[q]
    BY <1>0, <1>12 DEF PutInHouse, WorldTypeOK
  <2>2. ASSUME i \notin tornItems PROVE InOnePlace(i)'
    <3>1. InOnePlace(i)
      BY <1>0, <2>2 DEF AllInOnePlace
    <3> QED
      BY <2>1, <3>1 DEF InOnePlace
  <2> QED
    BY <1>10, <2>1, <2>2
<1>13. ASSUME NEW i \in Belongings, NEW p \in Inhabitants, TakeFromHouse(i, p) PROVE AllInOnePlace'
  <2>1. /\ serverState = "up" /\ p \in online /\ i \in tiles /\ tiles' = tiles \ {i}
        /\ UNCHANGED <<serverState, online, row, tileStore, tornItems>>
        /\ \A q \in Inhabitants : held'[q] = IF q = p THEN held[q] \cup {i} ELSE held[q]
    BY <1>0, <1>13 DEF TakeFromHouse, WorldTypeOK
  <2>2. ASSUME i \notin tornItems PROVE InOnePlace(i)'
    <3>1. InOnePlace(i)
      BY <1>0, <2>2 DEF AllInOnePlace
    <3> QED
      BY <2>1, <3>1 DEF InOnePlace
  <2> QED
    BY <1>10, <2>1, <2>2
<1>14. ASSUME NEW i \in Belongings, NEW p \in Inhabitants, NEW q \in Inhabitants,
              Give(i, p, q) \/ SendItem(i, p, q)
       PROVE  AllInOnePlace'
  <2>1. /\ serverState = "up" /\ p \in online /\ i \in held[p] /\ p # q
        /\ UNCHANGED <<serverState, online, tiles, tileStore>>
    BY <1>14 DEF Give, SendItem
  <2>2. /\ tornItems \subseteq tornItems'
        /\ \A j \in Belongings \ {i} : j \notin tornItems' => \A r \in Inhabitants : With(r, j)' <=> With(r, j)
        /\ i \notin tornItems' => \A r \in Inhabitants : With(r, i)' <=> (r = q \/ (r # p /\ With(r, i)))
    <3>1. CASE q \in online
      <4>1. UNCHANGED <<row, tornItems>> /\ held' = [held EXCEPT ![p] = @ \ {i}, ![q] = @ \cup {i}]
        BY <1>14, <3>1 DEF Give, SendItem
      <4> QED
        BY <1>0, <2>1, <3>1, <4>1 DEF WorldTypeOK
    <3>2. CASE q \notin online
      <4>1. CopyGets(q, {i}) /\ held' = [held EXCEPT ![p] = @ \ {i}]
        BY <1>14, <3>2 DEF Give, SendItem
      <4>2. tornItems \subseteq tornItems'
        BY <4>1 DEF CopyGets, CopySaved, CopyLost
      <4>3. {i} \in SUBSET Belongings
        OBVIOUS
      <4>4. \A j \in Belongings \ tornItems' :
               \A r \in Inhabitants : j \in row'[r] <=> (j \in row[r] \/ (r = q /\ j \in {i}))
        BY <1>0, <4>1, <4>3, CopyIs
      <4>5. \A r \in Inhabitants : held'[r] = IF r = p THEN held[r] \ {i} ELSE held[r]
        BY <1>0, <4>1 DEF WorldTypeOK
      <4> QED
        BY <2>1, <3>2, <4>2, <4>4, <4>5
    <3> QED
      BY <3>1, <3>2
  <2>3. ASSUME i \notin tornItems' PROVE InOnePlace(i)'
    <3>1. InOnePlace(i) /\ With(p, i)
      BY <1>0, <2>1, <2>2, <2>3 DEF AllInOnePlace
    <3>2. ~AtHome(i) /\ ~AtHome(i)' /\ \A r \in Inhabitants : With(r, i) <=> r = p
      BY <2>1, <3>1 DEF InOnePlace
    <3> HIDE DEF With, AtHome
    <3> QED
      BY <2>2, <2>3, <3>2 DEF InOnePlace
  <2>4. With(p, i) /\ \A j \in Belongings \ {i} : AtHome(j)' <=> AtHome(j)
    BY <2>1
  <2> QED
    BY <1>10, <2>1, <2>2, <2>3, <2>4
<1> QED
  BY <1>1, <1>2, <1>3, <1>4, <1>5, <1>6, <1>7, <1>8, <1>9, <1>11, <1>12, <1>13, <1>14 DEF WorldSaveNext

LEMMA RentOwedStep == ASSUME WorldInv, WorldSaveNext PROVE RentOwed'
<1> USE DEF RentOwed, RentTakenOnce, Owing
<1>0. WorldTypeOK /\ RentOwed
  BY DEF WorldInv
<1>1. CASE Start
  <2>1. house' \in {houseRow, [houseRow EXCEPT !.owner = Nobody], FreeHouse}
        /\ serverState = "down" /\ serverState' = "loaded" /\ UNCHANGED <<rents, forgotten>>
    BY <1>1 DEF Start
  <2>2. house' = houseRow \/ house'.owner = Nobody
    BY <1>0, <2>1 DEF WorldTypeOK, HouseRows, FreeHouse
  <2> QED
    BY <1>0, <2>1, <2>2
<1>2. CASE PayHouses
  BY <1>0, <1>2, PayHousesIs
<1>3. ASSUME serverState' = "down", serverState # "down", forgotten \subseteq forgotten',
             Unpaid \subseteq forgotten', UNCHANGED <<houseRow, rents>>
      PROVE  RentOwed'
  <2>1. CASE houseRow.paid
    BY <1>0, <1>3, <2>1
  <2>2. CASE ~houseRow.paid /\ (house.paid \/ house.owner # houseRow.owner)
    BY <1>0, <1>3, <2>2 DEF Unpaid
  <2>3. CASE ~house.paid /\ house.owner = houseRow.owner
    BY <1>0, <1>3, <2>3
  <2> QED
    BY <1>0, <2>1, <2>2, <2>3 DEF WorldTypeOK, HouseRows
<1>4. CASE Crash
  BY <1>3, <1>4 DEF Crash, Down, Stored
<1>5. CASE SaveEnds
  <2>1. CASE stopping
    <3>1. serverState = "saving" /\ serverState' = "down" /\ ToSet(todo) = {}
          /\ UNCHANGED <<houseRow, rents, forgotten>>
      BY <1>5, <2>1 DEF SaveEnds, Down, ToSet
    <3>2. Unpaid \subseteq forgotten
      BY <2>1, <3>1 DEF WorldInv, SaveProgress
    <3> QED
      BY <1>3, <3>1, <3>2
  <2>2. CASE ~stopping
    BY <1>0, <1>5, <2>2 DEF SaveEnds
  <2> QED
    BY <2>1, <2>2
<1>6. CASE SaveBegins
  BY <1>0, <1>6 DEF SaveBegins
<1>7. CASE SaveNext
  <2>1. /\ serverState = "saving" /\ UNCHANGED <<serverState, house, rents>>
        /\ forgotten \subseteq forgotten'
    BY <1>7 DEF SaveNext, SavesPlayer, SavesHouse, SavesHouseItems
  <2> QED
    BY <1>0, <2>1
<1>8. CASE RentFallsDue
  BY <1>0, <1>8 DEF RentFallsDue
<1>9. ASSUME NEW p \in Inhabitants, Login(p) \/ Saved(p) \/ Logout(p) PROVE RentOwed'
  BY <1>0, <1>9 DEF Login, Saved, Logout
<1>10. ASSUME NEW p \in Owners, SetOwner(p) PROVE RentOwed'
  <2>1. /\ serverState' = "up" /\ forgotten' = forgotten \ {p}
        /\ rents' = [q \in Inhabitants |-> IF q = p THEN 0 ELSE rents[q]]
    BY <1>10 DEF SetOwner
  <2>2. house'.owner \in {p, Nobody}
    BY <1>0, <1>10, PassesTyped DEF SetOwner
  <2> QED
    BY <1>0, <2>1, <2>2
<1>11. ASSUME NEW i \in Belongings, NEW p \in Inhabitants, PutInHouse(i, p) \/ TakeFromHouse(i, p)
      PROVE  RentOwed'
  BY <1>0, <1>11 DEF PutInHouse, TakeFromHouse
<1>12. ASSUME NEW i \in Belongings, NEW p \in Inhabitants, NEW q \in Inhabitants,
             Give(i, p, q) \/ SendItem(i, p, q)
      PROVE  RentOwed'
  BY <1>0, <1>12 DEF Give, SendItem
<1> QED
  BY <1>1, <1>2, <1>4, <1>5, <1>6, <1>7, <1>8, <1>9, <1>10, <1>11, <1>12 DEF WorldSaveNext

\* Memory and rows stay in step through every sequence of logins, trades, mail,
\* evictions, starts, saves and crashes, each save and load of which may fail;
\* what a failure took is among the torn and the forgotten before it can be
\* missed.
THEOREM WorldInvariant == WorldSaveSpec => []WorldInv
<1>1. ASSUME WorldInv, [WorldSaveNext]_saveVars PROVE WorldInv'
  <2>1. CASE UNCHANGED saveVars
    BY <1>1, <2>1 DEF saveVars, WorldInv, WorldTypeOK, SaveProgress, AllInOnePlace, InOnePlace, AtHome,
       With, RentOwed, RentTakenOnce, Owing, Unpaid, Differ
  <2>2. CASE WorldSaveNext
    BY <1>1, <2>2, WorldTypeStep, SaveProgressStep, OnePlaceStep, RentOwedStep DEF WorldInv
  <2> QED
    BY <1>1, <2>1, <2>2
<1> QED
  BY <1>1, WorldInit, PTL DEF WorldSaveSpec

\* An item is in one place of the world (iologindata.cpp, iomapserialize.cpp,
\* house.cpp, mailbox.cpp), wherever mail, trades, evictions and restarts take
\* it, unless memory and rows disagreed on it when the process crashed or a
\* logout or the last save failed, or it was with a copy that was not saved, or
\* in a place that was loaded while the query for it failed.
THEOREM WorldWhole == WorldSaveSpec => []WholeUnlessTorn
<1>1. WorldInv => WholeUnlessTorn
  <2> SUFFICES ASSUME WorldInv, NEW i \in Belongings \ tornItems PROVE Cardinality(PlacesOf(i)) = 1
    BY DEF WholeUnlessTorn
  <2>1. InOnePlace(i)
    BY DEF WorldInv, AllInOnePlace
  <2>2. \E w : PlacesOf(i) = {w}
    <3>1. CASE AtHome(i)
      <4>1. PlacesOf(i) = {"house"}
        BY <2>1, <3>1 DEF InOnePlace, PlacesOf, AtHome, With
      <4> QED
        BY <4>1
    <3>2. CASE ~AtHome(i)
      <4>1. PICK p \in Inhabitants : \A q \in Inhabitants : With(q, i) <=> q = p
        BY <2>1, <3>2 DEF InOnePlace
      <4>2. PlacesOf(i) = {p}
        BY <3>2, <4>1 DEF PlacesOf, AtHome, With
      <4> QED
        BY <4>2
    <3> QED
      BY <3>1, <3>2
  <2> QED
    BY <2>2, FS_Singleton
<1> QED
  BY <1>1, WorldInvariant, PTL

\* No rent is taken twice from a player for a period (house.cpp payHouses),
\* unless the server stopped while the row of the house did not have his
\* payment: in a crash, or in a shutdown whose save of the house failed.
THEOREM WorldRent == WorldSaveSpec => []RentTakenOnce
<1>1. WorldInv => RentTakenOnce
  BY DEF WorldInv, RentOwed
<1> QED
  BY <1>1, WorldInvariant, PTL
-----------------------------------------------------------------------------
(* The handle *)

Contents == [rows : [TableSet -> SUBSET (Versions \X RowNumbers)], count : [Writers -> Nat]]
Batches == [rows : SUBSET RowNumbers, counted : Nat, size : Nat]
Sending == {"update", "delete", "rows", "flush", "commit"}
SavePcs == {"idle", "begin", "no begin", "between", "rollback"} \cup Sending
Saves == [pc : SavePcs, version : Versions, table : DOMAIN Tables, row : Nat, batch : Batches]

\* A batch is as long as was counted, but for the row it began with and what is
\* put between the rows.
BatchCounted(b) ==
    /\ b.rows = {} => b.counted = QueryLength
    /\ b.counted <= MaxPacket
    /\ \E l \in {0} \cup Lengths : b.size = b.counted + l + Separators(b.rows)

SaveTyped(s) ==
    /\ s \in Saves /\ BatchCounted(s.batch)
    /\ s.pc \in {"begin", "between", "update"} => s.table = 1
    /\ s.pc = "rows" => s.row \in RowNumbers /\ s.batch.rows \subseteq 1 .. (s.row - 1)
    /\ s.pc = "flush" => s.row = Rows + 1

HandleTypeOK ==
    /\ databaseLock \in Writers \cup {Saver, Free}
    /\ link \in {"up", "down"} /\ losses \in 0 .. MaxLosses
    /\ work \in Contents /\ disk \in Contents
    /\ writer \in [Writers -> {"new", "query", "true", "false"}]
    /\ SaveTyped(save) /\ saved \in Versions

\* Who holds the lock follows from where each thread is.
LockHeld ==
    /\ databaseLock = Saver <=> save.pc \in {"begin", "rollback"} \cup Sending
    /\ \A w \in Writers : databaseLock = w <=> writer[w] = "query"

\* A transaction is open from BEGIN on until the connection breaks, and a save
\* that has lost it has not yet noticed, or is torn.
TransactionOpen ==
    /\ open => link = "up" /\ save.pc \in {"between", "rollback"} \cup Sending
    /\ ~open => work = disk
    /\ ~torn /\ InTransaction /\ link = "up" => open

OneVersion(d, first, last) ==
    \E v \in first .. last : \A t \in TableSet \ Untransacted : d.rows[t] = Whole(v)

\* What the transaction of save s has written into d.
WrittenSoFar(d, s) ==
    \A k \in DOMAIN Tables : Tables[k] \notin Untransacted =>
        /\ k < s.table \/ s.pc = "commit" => d.rows[Tables[k]] = Whole(s.version)
        /\ k = s.table /\ s.pc \in {"rows", "flush"} =>
              d.rows[Tables[k]] \cup {<<s.version, i>> : i \in s.batch.rows}
                  = {<<s.version, i>> : i \in 1 .. (s.row - 1)}

\* How often the query of each writer, at at[w], is in d after n losses.
Counts(d, at, n, slip, again) ==
    \A w \in Writers :
        /\ d.count[w] <= n + (IF at[w] = "true" THEN 1 ELSE 0)
        /\ w \notin again => d.count[w] <= (IF at[w] = "true" THEN 1 ELSE 0)
        /\ at[w] = "true" /\ w \notin slip => d.count[w] >= 1

HandleInv ==
    /\ HandleTypeOK /\ LockHeld /\ TransactionOpen
    /\ saved <= save.version
    /\ ~torn => OneVersion(disk, saved, save.version)
    /\ ~torn /\ open /\ InTransaction => WrittenSoFar(work, save)
    /\ Counts(work, writer, losses, slipped, repeated)
    /\ Counts(disk, writer, losses, slipped, repeated)

USE DatabaseAssumption DEF DatabaseAssumption, Versions, RowNumbers

LEMMA TablesTyped == \A k \in DOMAIN Tables : Tables[k] \in TableSet
<1>1. Tables \in Seq(TableSet)
  OBVIOUS
<1> QED
  BY <1>1

\* What a statement on one table of the player leaves of the rest.
LEMMA RowsSet ==
    ASSUME NEW d \in Contents, NEW t \in TableSet, NEW X \in SUBSET (Versions \X RowNumbers)
    PROVE  /\ [d EXCEPT !.rows[t] = X] \in Contents
           /\ [d EXCEPT !.rows[t] = X].count = d.count
           /\ \A u \in TableSet : [d EXCEPT !.rows[t] = X].rows[u] = IF u = t THEN X ELSE d.rows[u]
<1> USE DEF Contents
<1>1. d.rows \in [TableSet -> SUBSET (Versions \X RowNumbers)]
  OBVIOUS
<1>2. [d.rows EXCEPT ![t] = X] \in [TableSet -> SUBSET (Versions \X RowNumbers)]
  BY <1>1
<1> DEFINE f == [d EXCEPT !.rows[t] = X]
<1>3. f.rows = [d.rows EXCEPT ![t] = X] /\ f.count = d.count
  OBVIOUS
<1>4. f \in Contents
  OBVIOUS
<1> HIDE DEF f
<1>5. /\ f \in Contents /\ f.count = d.count
      /\ \A u \in TableSet : f.rows[u] = IF u = t THEN X ELSE d.rows[u]
  BY <1>1, <1>3, <1>4
<1> QED
  BY <1>5 DEF f

\* What is left of d when the transaction that wrote it is rolled back.
KeptOf(e, d) ==
    [e EXCEPT !.rows = [t \in TableSet |-> IF t \in Untransacted THEN d.rows[t] ELSE e.rows[t]]]

LEMMA KeptRows ==
    ASSUME NEW e \in Contents, NEW d \in Contents
    PROVE  /\ KeptOf(e, d) \in Contents /\ KeptOf(e, d).count = e.count
           /\ \A t \in TableSet \ Untransacted : KeptOf(e, d).rows[t] = e.rows[t]
<1> USE DEF Contents
<1> DEFINE r == [t \in TableSet |-> IF t \in Untransacted THEN d.rows[t] ELSE e.rows[t]]
<1>1. r \in [TableSet -> SUBSET (Versions \X RowNumbers)]
  OBVIOUS
<1>2. KeptOf(e, d) = [e EXCEPT !.rows = r]
  BY DEF KeptOf
<1> HIDE DEF r
<1>3. KeptOf(e, d) \in Contents /\ KeptOf(e, d).count = e.count /\ KeptOf(e, d).rows = r
  BY <1>1, <1>2
<1> QED
  BY <1>3 DEF r

LEMMA SameCounts ==
    ASSUME NEW d, NEW e, d.count = e.count, NEW at, NEW n \in Nat, NEW m \in Nat, n <= m,
           e \in Contents, NEW slip, NEW again, Counts(e, at, n, slip, again)
    PROVE  Counts(d, at, m, slip, again)
<1>1. \A w \in Writers : e.count[w] \in Nat
  BY DEF Contents
<1> QED
  BY <1>1 DEF Counts

LEMMA SameVersion ==
    ASSUME NEW d, NEW e, \A t \in TableSet \ Untransacted : d.rows[t] = e.rows[t],
           NEW first, NEW last, OneVersion(e, first, last)
    PROVE  OneVersion(d, first, last)
BY DEF OneVersion

LEMMA NoBatchTyped == NoBatch \in Batches /\ NoBatch.rows = {} /\ BatchCounted(NoBatch)
BY DEF NoBatch, Batches, BatchCounted, Separators

\* The first row of a batch has two parentheses, every other one a comma too.
LEMMA SeparatorsGrow ==
    ASSUME NEW rows \in SUBSET RowNumbers, NEW i \in RowNumbers \ rows
    PROVE  /\ Separators(rows) \in Nat
           /\ Separators(rows \cup {i}) = Separators(rows) + (IF rows = {} THEN 2 ELSE 3)
<1>1. IsFiniteSet(rows)
  <2>1. IsFiniteSet(1 .. Rows)
    BY FS_Interval
  <2> QED
    BY <2>1, FS_Subset
<1>2. Cardinality(rows) \in Nat /\ (Cardinality(rows) = 0 <=> rows = {})
  BY <1>1, FS_CardinalityType, FS_EmptySet
<1>3. Cardinality(rows \cup {i}) = Cardinality(rows) + 1 /\ rows \cup {i} # {}
  BY <1>1, FS_AddElement
<1> DEFINE n == Cardinality(rows)
<1>4. /\ Separators(rows) = IF rows = {} THEN 0 ELSE 3 * n - 1
      /\ Separators(rows \cup {i}) = 3 * (n + 1) - 1
  BY <1>3 DEF Separators
<1>5. n \in Nat /\ (n = 0 <=> rows = {})
  BY <1>2
<1> HIDE DEF n
<1> QED
  BY <1>4, <1>5

LEMMA StartsTyped ==
    ASSUME NEW i \in RowNumbers, NEW l \in Lengths
    PROVE  /\ Starts(i, l) \in Batches /\ Starts(i, l).rows = {i}
           /\ BatchCounted(Starts(i, l))
<1>1. l \in Nat /\ QueryLength \in Nat /\ QueryLength + l + 2 \in Nat
  OBVIOUS
<1>2. Starts(i, l) \in Batches /\ Starts(i, l).rows = {i}
  BY <1>1 DEF Starts, Batches
<1>3. Separators({i}) = 2
  <2>1. Cardinality({i}) = 1 /\ {i} # {}
    BY FS_Singleton
  <2> QED
    BY <2>1 DEF Separators
<1>4. Starts(i, l).size = Starts(i, l).counted + l + Separators({i})
  BY <1>1, <1>3 DEF Starts
<1>5. Starts(i, l).counted <= MaxPacket
  BY DEF Starts
<1> QED
  BY <1>2, <1>4, <1>5 DEF BatchCounted

LEMMA BatchedTyped ==
    ASSUME NEW b \in Batches, BatchCounted(b), NEW i \in RowNumbers \ b.rows, NEW l \in Lengths,
           ~(TooLong(b, l) /\ b.rows # {})
    PROVE  /\ Batched(b, i, l) \in Batches /\ Batched(b, i, l).rows = b.rows \cup {i}
           /\ BatchCounted(Batched(b, i, l))
<1> DEFINE more == IF b.rows = {} THEN 2 ELSE 3
<1>1. /\ l \in Nat /\ b.counted \in Nat /\ b.size \in Nat /\ b.rows \in SUBSET RowNumbers
      /\ more \in Nat /\ MaxPacket \in Nat /\ QueryLength + l <= MaxPacket
  BY DEF Batches
<1>2. b.counted + l <= MaxPacket
  BY <1>1 DEF TooLong, BatchCounted
<1>3. Separators(b.rows) \in Nat /\ Separators(b.rows \cup {i}) = Separators(b.rows) + more
  BY <1>1, SeparatorsGrow
<1>4. PICK k \in {0} \cup Lengths : b.size = b.counted + k + Separators(b.rows)
  BY DEF BatchCounted
<1>5. /\ Batched(b, i, l).rows = b.rows \cup {i} /\ Batched(b, i, l).counted = b.counted + l
      /\ Batched(b, i, l).size = b.size + l + more
      /\ Batched(b, i, l) = [rows |-> b.rows \cup {i}, counted |-> b.counted + l,
                             size |-> b.size + l + more]
  BY DEF Batched
<1> HIDE DEF more
<1>6. Batched(b, i, l) \in Batches
  <2>1. b.rows \cup {i} \in SUBSET RowNumbers
    BY <1>1
  <2>2. b.counted + l \in Nat /\ b.size + l + more \in Nat
    BY <1>1
  <2> QED
    BY <1>5, <2>1, <2>2 DEF Batches
<1>7. Batched(b, i, l).size = Batched(b, i, l).counted + k + Separators(b.rows \cup {i})
  <2> DEFINE c == b.counted
             s == Separators(b.rows)
  <2>1. k \in Nat /\ c \in Nat /\ s \in Nat
    BY <1>1, <1>3
  <2>2. b.size + l + more = (c + k + s) + l + more
    BY <1>4
  <2>3. Batched(b, i, l).counted + k + Separators(b.rows \cup {i}) = (c + l) + k + (s + more)
    BY <1>3, <1>5
  <2> HIDE DEF c, s
  <2>4. (c + k + s) + l + more = (c + l) + k + (s + more)
    BY <1>1, <2>1
  <2> QED
    BY <1>5, <2>2, <2>3, <2>4
<1>8. b.rows \cup {i} # {}
  OBVIOUS
<1> QED
  BY <1>2, <1>4, <1>5, <1>6, <1>7, <1>8 DEF BatchCounted

LEMMA HandleInit == HInit => HandleInv
<1> SUFFICES ASSUME HInit PROVE HandleInv
  OBVIOUS
<1>1. disk \in Contents /\ work = disk
  <2>1. Whole(0) \in SUBSET (Versions \X RowNumbers)
    BY DEF Whole
  <2> QED
    BY <2>1 DEF HInit, Contents
<1>2. SaveTyped(save)
  <2>1. 1 \in DOMAIN Tables /\ 0 \in Versions
    OBVIOUS
  <2> QED
    BY <2>1, NoBatchTyped DEF HInit, SaveTyped, Saves, SavePcs
<1>3. HandleTypeOK
  BY <1>1, <1>2 DEF HInit, HandleTypeOK
<1>4. LockHeld
  BY DEF HInit, LockHeld, Sending
<1>5. OneVersion(disk, saved, save.version)
  BY DEF HInit, OneVersion
<1>6. Counts(work, writer, losses, slipped, repeated) /\ Counts(disk, writer, losses, slipped, repeated)
  BY DEF HInit, Counts
<1>7. TransactionOpen /\ saved <= save.version
  BY <1>1 DEF HInit, TransactionOpen, InTransaction
<1> QED
  BY <1>3, <1>4, <1>5, <1>6, <1>7 DEF HInit, HandleInv

\* The connection breaks: of the open transaction only the tables that know
\* none keep anything, and no save learns of it here.
LEMMA BreakKeeps ==
    ASSUME HandleInv, link' = "down", open' = FALSE, losses' \in 0 .. MaxLosses, losses <= losses',
           work' = disk', disk' \in Contents,
           UNCHANGED <<databaseLock, writer, save, saved, slipped, torn>>,
           ~torn => \A t \in TableSet \ Untransacted : disk'.rows[t] = disk.rows[t],
           Counts(disk', writer, losses', slipped, repeated')
    PROVE  HandleInv'
<1>1. HandleTypeOK' /\ LockHeld'
  BY DEF HandleInv, HandleTypeOK, LockHeld
<1>2. TransactionOpen'
  BY DEF TransactionOpen, InTransaction
<1>3. ~torn => OneVersion(disk', saved, save.version)
  BY SameVersion DEF HandleInv
<1> QED
  BY <1>1, <1>2, <1>3 DEF HandleInv

\* A step of savePlayer that sends nothing.
LEMMA SaveMoves ==
    ASSUME HandleInv, UNCHANGED <<server, writer, saved, slipped, repeated, torn>>,
           databaseLock' \in Writers \cup {Saver, Free}, LockHeld',
           SaveTyped(save'), save.version <= save'.version,
           TransactionOpen', ~torn /\ open /\ InTransaction' => WrittenSoFar(work, save')
    PROVE  HandleInv'
<1>1. UNCHANGED <<link, open, work, disk, losses>>
  BY DEF server
<1>2. HandleTypeOK'
  BY <1>1 DEF HandleInv, HandleTypeOK
<1>3. save.version \in Nat /\ save'.version \in Nat /\ saved \in Nat
  BY DEF HandleInv, HandleTypeOK, SaveTyped, Saves
<1>4. ~torn => OneVersion(disk, saved, save'.version)
  BY <1>3 DEF HandleInv, OneVersion
<1> QED
  BY <1>1, <1>2, <1>3, <1>4 DEF HandleInv

\* savePlayer goes to another place and keeps what it had.
LEMMA SaveGoesTyped ==
    ASSUME HandleTypeOK, NEW pc \in SavePcs \ {"rows", "flush"},
           pc \in {"begin", "between", "update"} => save.table = 1,
           SaveGoes(pc)
    PROVE  /\ SaveTyped(save') /\ save'.pc = pc
           /\ save'.version = save.version /\ save'.table = save.table
<1> USE DEF SaveTyped, Saves
<1>1. save \in Saves /\ save' = [save EXCEPT !.pc = pc]
  BY DEF HandleTypeOK, SaveGoes
<1>2. /\ save' \in Saves /\ save'.pc = pc /\ save'.version = save.version
      /\ save'.table = save.table /\ save'.batch = save.batch
  BY <1>1
<1> QED
  BY <1>2 DEF HandleTypeOK

\* Counted(w): the query of w has run on e once more.
LEMMA CountedOnce ==
    ASSUME NEW e \in Contents, NEW w \in Writers
    PROVE  LET f == [e EXCEPT !.count[w] = @ + 1]
           IN /\ f \in Contents /\ f.rows = e.rows
              /\ \A v \in Writers : f.count[v] = IF v = w THEN e.count[v] + 1 ELSE e.count[v]
<1> USE DEF Contents
<1> DEFINE f == [e EXCEPT !.count[w] = @ + 1]
<1>1. e.count \in [Writers -> Nat]
  OBVIOUS
<1> DEFINE c == [e.count EXCEPT ![w] = @ + 1]
<1>2. c \in [Writers -> Nat]
  BY <1>1
<1>3. f = [e EXCEPT !.count = c]
  OBVIOUS
<1> HIDE DEF c
<1>5. f \in Contents /\ f.rows = e.rows /\ f.count = c
  BY <1>2, <1>3
<1> HIDE DEF f
<1>4. /\ f \in Contents /\ f.rows = e.rows
      /\ \A v \in Writers : f.count[v] = IF v = w THEN e.count[v] + 1 ELSE e.count[v]
  BY <1>1, <1>5 DEF c
<1> QED
  BY <1>4 DEF f

LEMMA LinkStep == ASSUME HandleInv, LinkBreaks \/ Reconnects PROVE HandleInv'
<1>0. HandleTypeOK /\ losses \in Nat /\ MaxLosses \in Nat
  BY DEF HandleInv, HandleTypeOK
<1>1. CASE LinkBreaks
  <2>1. /\ link' = "down" /\ open' = FALSE /\ losses' \in 0 .. MaxLosses /\ losses <= losses'
        /\ work' = disk' /\ disk' = disk
        /\ UNCHANGED <<databaseLock, writer, save, saved, slipped, torn, repeated>>
    BY <1>0, <1>1 DEF LinkBreaks, Broken
  <2>2. Counts(disk', writer, losses', slipped, repeated')
    <3>1. disk' \in Contents /\ losses' \in Nat /\ disk'.count = disk.count
      BY <1>0, <2>1 DEF HandleTypeOK
    <3>2. Counts(disk, writer, losses, slipped, repeated)
      BY DEF HandleInv
    <3> QED
      BY <1>0, <2>1, <3>1, <3>2, SameCounts
  <2> QED
    BY <1>0, <2>1, <2>2, BreakKeeps DEF HandleTypeOK
<1>2. CASE Reconnects
  <2>1. /\ link = "down" /\ link' = "up" /\ torn' = (torn \/ InTransaction)
        /\ UNCHANGED <<databaseLock, open, work, disk, losses, writer, save, saved, slipped, repeated>>
    BY <1>2 DEF Reconnects
  <2>2. HandleTypeOK' /\ LockHeld'
    BY <2>1 DEF HandleInv, HandleTypeOK, LockHeld
  <2>3. TransactionOpen'
    BY <2>1 DEF HandleInv, TransactionOpen, InTransaction
  <2> QED
    BY <2>1, <2>2, <2>3 DEF HandleInv, InTransaction
<1> QED
  BY <1>1, <1>2

LEMMA WriterSteps ==
    ASSUME HandleInv, NEW w \in Writers, WriterStep(w) \/ WriterLosesAnswer(w)
    PROVE  HandleInv'
<1>0. /\ HandleTypeOK /\ losses \in Nat /\ work \in Contents /\ disk \in Contents
      /\ writer \in [Writers -> {"new", "query", "true", "false"}]
      /\ work.count \in [Writers -> Nat] /\ disk.count \in [Writers -> Nat]
  BY DEF HandleInv, HandleTypeOK, Contents
<1>1. CASE WriterLocks(w)
  <2>1. /\ databaseLock = Free /\ databaseLock' = w /\ writer[w] = "new"
        /\ writer' = [writer EXCEPT ![w] = "query"]
        /\ UNCHANGED <<link, open, work, disk, losses, save, saved, slipped, repeated, torn>>
    BY <1>1 DEF WriterLocks, MayLock, server
  <2>2. HandleTypeOK' /\ LockHeld'
    BY <1>0, <2>1 DEF HandleInv, HandleTypeOK, LockHeld
  <2>3. TransactionOpen' /\ (InTransaction' <=> InTransaction)
    BY <2>1 DEF HandleInv, TransactionOpen, InTransaction
  <2>4. /\ Counts(work, writer', losses, slipped, repeated)
        /\ Counts(disk, writer', losses, slipped, repeated)
    BY <1>0, <2>1 DEF HandleInv, Counts
  <2> QED
    BY <2>1, <2>2, <2>3, <2>4 DEF HandleInv
<1>2. CASE WriterExecutes(w)
  <2>1. /\ writer[w] = "query" /\ databaseLock' = Free /\ link = "up"
        /\ slipped' = IF save.pc = "between" THEN slipped \cup {w} ELSE slipped
        /\ UNCHANGED <<link, open, losses, save, saved, repeated, torn>>
    BY <1>2 DEF WriterExecutes
  <2>2. databaseLock = w /\ save.pc \notin {"begin", "rollback"} \cup Sending
    BY <2>1 DEF HandleInv, LockHeld
  <2>3. /\ writer' \in [Writers -> {"new", "query", "true", "false"}]
        /\ writer'[w] \in {"true", "false"}
        /\ \A v \in Writers \ {w} : writer'[v] = writer[v]
    BY <1>0, <1>2 DEF WriterExecutes
  <2>4. LockHeld'
    BY <2>1, <2>2, <2>3 DEF LockHeld, HandleInv
  <2>5. open => save.pc = "between"
    BY <2>2 DEF HandleInv, TransactionOpen
  <2>6. CASE UNCHANGED <<work, disk>> /\ writer'[w] = "false"
    <3>1. HandleTypeOK' /\ TransactionOpen' /\ (InTransaction' <=> InTransaction)
      BY <2>1, <2>3, <2>6 DEF HandleInv, HandleTypeOK, TransactionOpen, InTransaction
    <3>2. /\ Counts(work, writer', losses, slipped', repeated)
          /\ Counts(disk, writer', losses, slipped', repeated)
      BY <1>0, <2>1, <2>3, <2>6 DEF HandleInv, Counts
    <3> QED
      BY <2>1, <2>4, <2>6, <3>1, <3>2 DEF HandleInv
  <2>7. CASE Applied(Counted(w)) /\ writer'[w] = "true"
    <3> DEFINE d == Counted(w)
    <3>1. /\ d \in Contents /\ d.rows = work.rows
          /\ \A v \in Writers : d.count[v] = IF v = w THEN work.count[v] + 1 ELSE work.count[v]
      BY <1>0, CountedOnce DEF Counted
    <3>2. work' = d /\ disk' = IF open THEN KeptOf(disk, d) ELSE d
      BY <2>7 DEF Applied, KeptOf
    <3> HIDE DEF d
    <3>3. /\ disk' \in Contents /\ work' \in Contents
          /\ \A t \in TableSet \ Untransacted : disk'.rows[t] = disk.rows[t]
      BY <1>0, <3>1, <3>2, KeptRows DEF HandleInv, TransactionOpen
    <3>4. HandleTypeOK' /\ TransactionOpen' /\ (InTransaction' <=> InTransaction)
      BY <2>1, <2>3, <3>2, <3>3 DEF HandleInv, HandleTypeOK, TransactionOpen, InTransaction
    <3>5. Counts(d, writer', losses, slipped', repeated)
      <4>1. SUFFICES ASSUME NEW v \in Writers
                     PROVE  /\ d.count[v] <= losses + (IF writer'[v] = "true" THEN 1 ELSE 0)
                            /\ v \notin repeated => d.count[v] <= (IF writer'[v] = "true" THEN 1 ELSE 0)
                            /\ writer'[v] = "true" /\ v \notin slipped' => d.count[v] >= 1
        BY DEF Counts
      <4>2. /\ work.count[v] <= losses + (IF writer[v] = "true" THEN 1 ELSE 0)
            /\ v \notin repeated => work.count[v] <= (IF writer[v] = "true" THEN 1 ELSE 0)
            /\ writer[v] = "true" /\ v \notin slipped => work.count[v] >= 1
            /\ work.count[v] \in Nat
        BY <1>0 DEF HandleInv, Counts
      <4>3. CASE v = w
        BY <1>0, <2>1, <2>7, <3>1, <4>2, <4>3
      <4>4. CASE v # w
        BY <1>0, <2>1, <2>3, <3>1, <4>2, <4>4
      <4> QED
        BY <4>3, <4>4
    <3>6. Counts(disk', writer', losses, slipped', repeated)
      <4>1. CASE ~open
        BY <3>2, <3>5, <4>1
      <4>2. CASE open
        <5>1. disk'.count = disk.count /\ w \in slipped'
          BY <1>0, <2>1, <2>5, <3>1, <3>2, <4>2, KeptRows
        <5> QED
          BY <1>0, <2>1, <2>3, <5>1 DEF HandleInv, Counts
      <4> QED
        BY <4>1, <4>2
    <3>7. ~torn => OneVersion(disk', saved, save.version)
      BY <3>3, SameVersion DEF HandleInv
    <3>8. WrittenSoFar(work, save) => WrittenSoFar(work', save)
      BY <3>1, <3>2 DEF WrittenSoFar
    <3> QED
      BY <2>1, <2>4, <3>2, <3>4, <3>5, <3>6, <3>7, <3>8 DEF HandleInv
  <2> QED
    BY <1>0, <1>2, <2>6, <2>7 DEF WriterExecutes
<1>3. CASE WriterLosesAnswer(w)
  <2> DEFINE d == Counted(w)
  <2>1. /\ d \in Contents /\ d.rows = work.rows
        /\ \A v \in Writers : d.count[v] = IF v = w THEN work.count[v] + 1 ELSE work.count[v]
    BY <1>0, CountedOnce DEF Counted
  <2>2. /\ writer[w] = "query" /\ repeated' = repeated \cup {w}
        /\ UNCHANGED <<databaseLock, writer, save, saved, slipped, torn>>
        /\ link' = "down" /\ open' = FALSE /\ losses' = losses + 1 /\ losses < MaxLosses
        /\ work' = disk' /\ disk' = IF open THEN KeptOf(disk, d) ELSE d
    BY <1>3 DEF WriterLosesAnswer, AnswerLost, Broken, KeptOf
  <2> HIDE DEF d
  <2>3. /\ disk' \in Contents
        /\ \A t \in TableSet \ Untransacted : disk'.rows[t] = disk.rows[t]
        /\ \A v \in Writers : disk'.count[v] \in {disk.count[v]} \cup (IF v = w THEN {disk.count[v] + 1} ELSE {})
    BY <1>0, <2>1, <2>2, KeptRows DEF HandleInv, TransactionOpen
  <2>4. losses' \in 0 .. MaxLosses /\ losses <= losses'
    BY <1>0, <2>2
  <2>5. Counts(disk', writer, losses', slipped, repeated')
    BY <1>0, <2>2, <2>3 DEF HandleInv, Counts
  <2> QED
    BY <2>2, <2>3, <2>4, <2>5, BreakKeeps
<1> QED
  BY <1>1, <1>2, <1>3 DEF WriterStep

\* A statement of the save: d is what it makes of work, next where it goes on.
LEMMA StatementKeeps ==
    ASSUME HandleInv, save.pc \in Sending, NEW d \in Contents, d.count = work.count,
           NEW next, SaveTyped(next), next.version = save.version, next.pc \in Sending,
           WrittenSoFar(work, save) => WrittenSoFar(d, next),
           Statement(d, next)
    PROVE  HandleInv'
<1>0. /\ HandleTypeOK /\ losses \in Nat /\ work \in Contents /\ disk \in Contents
      /\ databaseLock = Saver /\ databaseLock' = Saver
      /\ UNCHANGED <<writer, slipped, repeated, saved, torn>>
  BY DEF HandleInv, HandleTypeOK, Statement, KeepWriters
<1>1. CASE link = "up" /\ Applied(d) /\ save' = next /\ UNCHANGED <<link, open, losses>>
  <2>1. work' = d /\ disk' = IF open THEN KeptOf(disk, d) ELSE d
    BY <1>1 DEF Applied, KeptOf
  <2>2. /\ disk' \in Contents /\ disk'.count = disk.count
        /\ open => \A t \in TableSet \ Untransacted : disk'.rows[t] = disk.rows[t]
    BY <1>0, <2>1, KeptRows DEF HandleInv, TransactionOpen
  <2>3. HandleTypeOK' /\ LockHeld'
    BY <1>0, <1>1, <2>1, <2>2 DEF HandleInv, HandleTypeOK, LockHeld
  <2>4. TransactionOpen' /\ InTransaction' /\ InTransaction
    BY <1>0, <1>1, <2>1 DEF HandleInv, TransactionOpen, InTransaction, Sending
  <2>5. ~torn => open
    BY <1>1, <2>4 DEF HandleInv, TransactionOpen
  <2>6. ~torn => OneVersion(disk', saved, save.version)
    BY <2>2, <2>5, SameVersion DEF HandleInv
  <2>7. Counts(d, writer, losses, slipped, repeated) /\ Counts(disk', writer, losses, slipped, repeated)
    BY <1>0, <2>2, SameCounts DEF HandleInv
  <2>8. ~torn => WrittenSoFar(d, next)
    BY <2>4, <2>5 DEF HandleInv
  <2> QED
    BY <1>0, <1>1, <2>1, <2>3, <2>4, <2>6, <2>7, <2>8 DEF HandleInv
<1>2. CASE AnswerLost(d) /\ UNCHANGED save
  <2>1. /\ link = "up" /\ link' = "down" /\ open' = FALSE /\ losses' = losses + 1 /\ losses < MaxLosses
        /\ work' = disk' /\ disk' = IF open THEN KeptOf(disk, d) ELSE d
    BY <1>2 DEF AnswerLost, Broken, KeptOf
  <2>2. /\ disk' \in Contents /\ disk'.count = disk.count
        /\ open => \A t \in TableSet \ Untransacted : disk'.rows[t] = disk.rows[t]
    BY <1>0, <2>1, KeptRows DEF HandleInv, TransactionOpen
  <2>3. ~torn => open
    BY <2>1 DEF HandleInv, TransactionOpen, InTransaction, Sending
  <2>4. losses' \in 0 .. MaxLosses /\ losses <= losses' /\ losses' \in Nat
    BY <1>0, <2>1
  <2>5. Counts(disk', writer, losses', slipped, repeated')
    <3>1. Counts(disk, writer, losses, slipped, repeated)
      BY DEF HandleInv
    <3> QED
      BY <1>0, <2>2, <2>4, <3>1, SameCounts
  <2> QED
    BY <1>0, <1>2, <2>1, <2>2, <2>3, <2>4, <2>5, BreakKeeps
<1>3. CASE link = "up" /\ SaveGoes("rollback") /\ UNCHANGED server
  <2>1. /\ SaveTyped(save') /\ save'.pc = "rollback" /\ save'.version = save.version
    BY <1>0, <1>3, SaveGoesTyped DEF SavePcs
  <2>2. LockHeld' /\ TransactionOpen' /\ ~InTransaction'
    BY <1>0, <1>3, <2>1 DEF HandleInv, LockHeld, TransactionOpen, InTransaction, server, Sending
  <2>3. save.version <= save'.version
    BY <2>1 DEF SaveTyped, Saves
  <2> QED
    BY <1>0, <1>3, <2>1, <2>2, <2>3, SaveMoves
<1> QED
  BY <1>1, <1>2, <1>3 DEF Statement

\* Where the save goes when a table is written.
LEMMA NextTableTyped ==
    ASSUME SaveTyped(save)
    PROVE  /\ SaveTyped(NextTable) /\ SaveTyped([NextTable EXCEPT !.batch = NoBatch])
           /\ \A next \in {NextTable, [NextTable EXCEPT !.batch = NoBatch]} :
                 /\ next.version = save.version
                 /\ \/ next.pc = "commit" /\ next.table = save.table /\ save.table = Len(Tables)
                    \/ next.pc = "delete" /\ next.table = save.table + 1
<1>1. NoBatch \in Batches /\ BatchCounted(NoBatch)
  BY NoBatchTyped
<1>2. /\ save \in Saves /\ save.table \in DOMAIN Tables
      /\ DOMAIN Tables = 1..Len(Tables) /\ Len(Tables) \in Nat
  <2>1. Tables \in Seq(TableSet)
    OBVIOUS
  <2>2. save \in Saves /\ save.table \in DOMAIN Tables
    BY DEF SaveTyped, Saves
  <2> QED
    BY <2>1, <2>2
<1>5. save.table # Len(Tables) => save.table + 1 \in DOMAIN Tables
  BY <1>2
<1> USE DEF SaveTyped, Saves, SavePcs, Sending
<1>3. CASE save.table = Len(Tables)
  <2>1. NextTable = [save EXCEPT !.pc = "commit"]
    BY <1>3 DEF NextTable
  <2>2. /\ NextTable \in Saves /\ NextTable.pc = "commit" /\ NextTable.table = save.table
        /\ NextTable.version = save.version /\ NextTable.batch = save.batch
    BY <1>2, <2>1
  <2> DEFINE n == [NextTable EXCEPT !.batch = NoBatch]
  <2>3. /\ n \in Saves /\ n.pc = "commit" /\ n.table = save.table
        /\ n.version = save.version /\ n.batch = NoBatch
    BY <1>1, <2>2
  <2> HIDE DEF n
  <2>4. /\ SaveTyped(NextTable) /\ SaveTyped(n)
    BY <1>1, <2>2, <2>3
  <2>5. /\ SaveTyped(NextTable) /\ SaveTyped(n)
        /\ \A next \in {NextTable, n} :
              next.version = save.version /\ next.pc = "commit" /\ next.table = save.table
    BY <2>2, <2>3, <2>4
  <2> QED
    BY <1>3, <2>5 DEF n
<1>4. CASE save.table # Len(Tables)
  <2>1. NextTable = [save EXCEPT !.pc = "delete", !.table = @ + 1]
    BY <1>4 DEF NextTable
  <2>2. /\ NextTable \in Saves /\ NextTable.pc = "delete" /\ NextTable.table = save.table + 1
        /\ NextTable.version = save.version /\ NextTable.batch = save.batch
    <3>1. save.table + 1 \in DOMAIN Tables
      BY <1>4, <1>5
    <3>2. NextTable = [save EXCEPT !.pc = "delete", !.table = save.table + 1]
      BY <2>1
    <3> QED
      BY <1>2, <3>1, <3>2
  <2> DEFINE n == [NextTable EXCEPT !.batch = NoBatch]
  <2>3. /\ n \in Saves /\ n.pc = "delete" /\ n.table = save.table + 1
        /\ n.version = save.version /\ n.batch = NoBatch
    BY <1>1, <2>2
  <2> HIDE DEF n
  <2>4. /\ SaveTyped(NextTable) /\ SaveTyped(n)
    BY <1>1, <2>2, <2>3
  <2>5. /\ SaveTyped(NextTable) /\ SaveTyped(n)
        /\ \A next \in {NextTable, n} :
              next.version = save.version /\ next.pc = "delete" /\ next.table = save.table + 1
    BY <2>2, <2>3, <2>4
  <2> QED
    BY <2>5 DEF n
<1> QED
  BY <1>3, <1>4

\* A table is written: what that leaves for the tables before and after it.
LEMMA TableWritten ==
    ASSUME HandleTypeOK, NEW d, NEW next,
           d.rows[Table] = Whole(save.version),
           \A t \in TableSet \ {Table} : d.rows[t] = work.rows[t],
           next.version = save.version,
           \/ next.pc = "commit" /\ next.table = save.table /\ save.table = Len(Tables)
           \/ next.pc = "delete" /\ next.table = save.table + 1,
           WrittenSoFar(work, save)
    PROVE  WrittenSoFar(d, next)
<1>1. save.table \in DOMAIN Tables /\ DOMAIN Tables = 1..Len(Tables) /\ Len(Tables) \in Nat
  <2>1. Tables \in Seq(TableSet)
    OBVIOUS
  <2> QED
    BY <2>1 DEF HandleTypeOK, SaveTyped, Saves
<1>2. ASSUME NEW k \in DOMAIN Tables, Tables[k] \notin Untransacted, k <= save.table
      PROVE  d.rows[Tables[k]] = Whole(save.version)
  <2>1. CASE k = save.table
    BY <2>1 DEF Table
  <2>2. CASE k # save.table
    <3>1. Tables[k] # Table
      BY <1>1, <2>2 DEF IsInjective, Table
    <3>2. k < save.table
      BY <1>1, <1>2, <2>2
    <3> QED
      BY <1>2, <3>1, <3>2, TablesTyped DEF WrittenSoFar
  <2> QED
    BY <2>1, <2>2
<1>3. \A k \in DOMAIN Tables : k < next.table \/ next.pc = "commit" => k <= save.table
  BY <1>1
<1> QED
  BY <1>2, <1>3 DEF WrittenSoFar

LEMMA UpdateStep == ASSUME HandleInv, UpdatesPlayer PROVE HandleInv'
<1> DEFINE d == [work EXCEPT !.rows[Table] = Whole(save.version)]
<1>1. /\ HandleTypeOK /\ work \in Contents /\ save.version \in Versions /\ SaveTyped(save)
      /\ Table \in TableSet
  BY TablesTyped DEF HandleInv, HandleTypeOK, SaveTyped, Saves, Table
<1>2. Whole(save.version) \in SUBSET (Versions \X RowNumbers)
  BY <1>1 DEF Whole
<1>3. /\ d \in Contents /\ d.count = work.count
      /\ \A t \in TableSet : d.rows[t] = IF t = Table THEN Whole(save.version) ELSE work.rows[t]
  BY ZenonT(40), <1>1, <1>2, RowsSet
<1>4. save.pc = "update" /\ Statement(d, NextTable)
  BY DEF UpdatesPlayer
<1> HIDE DEF d
<1>5. /\ SaveTyped(NextTable) /\ NextTable.version = save.version
      /\ \/ NextTable.pc = "commit" /\ NextTable.table = save.table /\ save.table = Len(Tables)
         \/ NextTable.pc = "delete" /\ NextTable.table = save.table + 1
  BY <1>1, NextTableTyped
<1>6. WrittenSoFar(work, save) => WrittenSoFar(d, NextTable)
  BY <1>1, <1>3, <1>5, TableWritten
<1>7. save.pc \in Sending /\ NextTable.pc \in Sending
  BY <1>4, <1>5 DEF Sending
<1> QED
  BY <1>3, <1>4, <1>5, <1>6, <1>7, StatementKeeps

LEMMA DeleteStep == ASSUME HandleInv, DeletesRows PROVE HandleInv'
<1> DEFINE d == [work EXCEPT !.rows[Table] = {}]
           next == [save EXCEPT !.pc = "rows", !.row = 1, !.batch = NoBatch]
<1>1. /\ HandleTypeOK /\ work \in Contents /\ save \in Saves /\ SaveTyped(save) /\ Table \in TableSet
      /\ save.version \in Versions /\ save.table \in DOMAIN Tables
  BY TablesTyped DEF HandleInv, HandleTypeOK, SaveTyped, Saves, Table
<1>2. /\ d \in Contents /\ d.count = work.count
      /\ \A t \in TableSet : d.rows[t] = IF t = Table THEN {} ELSE work.rows[t]
  <2>1. {} \in SUBSET (Versions \X RowNumbers)
    OBVIOUS
  <2>2. ASSUME NEW t \in TableSet
        PROVE  /\ [work EXCEPT !.rows[t] = {}] \in Contents
               /\ [work EXCEPT !.rows[t] = {}].count = work.count
               /\ \A u \in TableSet :
                     [work EXCEPT !.rows[t] = {}].rows[u] = IF u = t THEN {} ELSE work.rows[u]
    BY ZenonT(40), <1>1, <2>1, RowsSet
  <2> QED
    BY <1>1, <2>2
<1>3. save.pc = "delete" /\ Statement(d, next)
  BY DEF DeletesRows
<1>4. NoBatch \in Batches /\ BatchCounted(NoBatch) /\ NoBatch.rows = {}
  BY NoBatchTyped
<1>5. /\ next \in Saves /\ next.pc = "rows" /\ next.row = 1 /\ next.batch = NoBatch
      /\ next.version = save.version /\ next.table = save.table
  BY <1>1, <1>4 DEF Saves, SavePcs, Sending
<1> HIDE DEF d, next
<1>6. SaveTyped(next)
  BY <1>4, <1>5 DEF SaveTyped
<1>7. ASSUME WrittenSoFar(work, save) PROVE WrittenSoFar(d, next)
  <2> SUFFICES ASSUME NEW k \in DOMAIN Tables, Tables[k] \notin Untransacted
               PROVE  /\ k < next.table \/ next.pc = "commit" => d.rows[Tables[k]] = Whole(next.version)
                      /\ k = next.table /\ next.pc \in {"rows", "flush"} =>
                            d.rows[Tables[k]] \cup {<<next.version, i>> : i \in next.batch.rows}
                                = {<<next.version, i>> : i \in 1 .. (next.row - 1)}
    BY DEF WrittenSoFar
  <2>1. CASE k = save.table
    BY <1>2, <1>1, <1>4, <1>5, <2>1 DEF Table
  <2>2. CASE k # save.table
    <3>1. Tables[k] # Table /\ Tables[k] \in TableSet
      BY <1>1, <2>2, TablesTyped DEF IsInjective, Table
    <3>2. k < save.table => work.rows[Tables[k]] = Whole(save.version)
      BY <1>7 DEF WrittenSoFar
    <3> QED
      BY <1>2, <1>5, <2>2, <3>1, <3>2
  <2> QED
    BY <2>1, <2>2
<1>8. save.pc \in Sending /\ next.pc \in Sending
  BY <1>3, <1>5 DEF Sending
<1> QED
  BY <1>2, <1>3, <1>5, <1>6, <1>7, <1>8, StatementKeeps

\* The rows of a batch are added to those that are there.
LEMMA InsertedRows ==
    ASSUME HandleTypeOK, NEW b \in Batches
    PROVE  /\ Inserted(b) \in Contents /\ Inserted(b).count = work.count
           /\ \A t \in TableSet : Inserted(b).rows[t] =
                 IF t = Table THEN work.rows[t] \cup {<<save.version, i>> : i \in b.rows}
                 ELSE work.rows[t]
<1> DEFINE X == work.rows[Table] \cup {<<save.version, i>> : i \in b.rows}
<1>1. /\ work \in Contents /\ save.version \in Versions /\ Table \in TableSet
      /\ b.rows \in SUBSET RowNumbers
  BY TablesTyped DEF HandleTypeOK, SaveTyped, Saves, Table, Batches
<1>2. work.rows[Table] \in SUBSET (Versions \X RowNumbers)
  BY <1>1 DEF Contents
<1>3. X \in SUBSET (Versions \X RowNumbers)
  BY <1>1, <1>2
<1>4. Inserted(b) = [work EXCEPT !.rows[Table] = X]
  BY DEF Inserted
<1> HIDE DEF X
<1>5. /\ [work EXCEPT !.rows[Table] = X] \in Contents
      /\ [work EXCEPT !.rows[Table] = X].count = work.count
      /\ \A t \in TableSet : [work EXCEPT !.rows[Table] = X].rows[t] = IF t = Table THEN X ELSE work.rows[t]
  BY ZenonT(40), <1>1, <1>3, RowsSet
<1> QED
  BY <1>4, <1>5 DEF X

\* A batch is sent; a row that is there already makes it fail, and so does its
\* length, if it does not end the connection.
LEMMA InsertKeeps ==
    ASSUME HandleInv, save.pc \in Sending, NEW b \in Batches, NEW next, SaveTyped(next),
           next.version = save.version, next.pc \in Sending,
           WrittenSoFar(work, save) => WrittenSoFar(Inserted(b), next),
           Insert(b, next)
    PROVE  HandleInv'
<1>1. CASE Statement(Inserted(b), next)
  <2>1. Inserted(b) \in Contents /\ Inserted(b).count = work.count
    BY InsertedRows DEF HandleInv
  <2> QED
    BY <1>1, <2>1, StatementKeeps
<1>2. CASE Fails
  <2> USE DEF Fails
  <2>1. /\ SaveTyped(save') /\ save'.pc = "rollback" /\ save'.version = save.version
    BY <1>2, SaveGoesTyped DEF SavePcs, HandleInv
  <2>2. LockHeld' /\ TransactionOpen' /\ ~InTransaction'
    BY <1>2, <2>1 DEF HandleInv, LockHeld, TransactionOpen, InTransaction, server, Sending, KeepWriters
  <2>3. save.version <= save'.version /\ databaseLock' \in Writers \cup {Saver, Free}
    BY <1>2, <2>1 DEF SaveTyped, Saves, HandleInv, HandleTypeOK
  <2> QED
    BY <1>2, <2>1, <2>2, <2>3, SaveMoves DEF KeepWriters
<1>3. CASE Refused
  <2>1. /\ HandleTypeOK /\ losses \in Nat /\ MaxLosses \in Nat /\ disk \in Contents
        /\ Counts(disk, writer, losses, slipped, repeated)
    BY DEF HandleInv, HandleTypeOK
  <2>2. /\ link' = "down" /\ open' = FALSE /\ losses' \in 0 .. MaxLosses /\ losses <= losses'
        /\ losses' \in Nat /\ work' = disk' /\ disk' = disk
        /\ UNCHANGED <<databaseLock, writer, save, saved, slipped, torn, repeated>>
    BY <1>3, <2>1 DEF Refused, Broken, KeepWriters
  <2>3. Counts(disk', writer, losses', slipped, repeated')
    BY <2>1, <2>2, SameCounts
  <2> QED
    BY <2>1, <2>2, <2>3, BreakKeeps
<1> QED
  BY <1>1, <1>2, <1>3 DEF Insert

LEMMA AfterRowTyped ==
    ASSUME SaveTyped(save), save.pc = "rows", NEW b \in Batches, BatchCounted(b),
           b.rows \subseteq 1 .. save.row
    PROVE  LET next == AfterRow(b)
           IN /\ SaveTyped(next) /\ next.pc \in {"rows", "flush"}
              /\ next.version = save.version /\ next.table = save.table
              /\ next.batch = b /\ next.row = save.row + 1
<1>1. save \in Saves /\ save.row \in RowNumbers /\ Rows \in Nat
  BY DEF SaveTyped
<1>2. AfterRow(b) = [save EXCEPT !.batch = b, !.row = save.row + 1,
                                 !.pc = IF save.row = Rows THEN "flush" ELSE "rows"]
  BY DEF AfterRow
<1> DEFINE pc == IF save.row = Rows THEN "flush" ELSE "rows"
<1>3. /\ save.row + 1 \in Nat /\ pc \in SavePcs /\ pc \in {"rows", "flush"}
      /\ pc = "rows" => save.row + 1 \in RowNumbers
      /\ pc = "flush" => save.row + 1 = Rows + 1
  BY <1>1 DEF SavePcs, Sending
<1> HIDE DEF pc
<1>4. AfterRow(b) = [save EXCEPT !.batch = b, !.row = save.row + 1, !.pc = pc]
  BY <1>2 DEF pc
<1>5. /\ AfterRow(b) \in Saves /\ AfterRow(b).pc = pc /\ AfterRow(b).batch = b
      /\ AfterRow(b).row = save.row + 1
      /\ AfterRow(b).version = save.version /\ AfterRow(b).table = save.table
  BY <1>1, <1>3, <1>4 DEF Saves
<1>6. (save.row + 1) - 1 = save.row
  BY <1>1
<1> QED
  BY <1>3, <1>5, <1>6 DEF SaveTyped

LEMMA AddRowStep == ASSUME HandleInv, NEW l \in Lengths, AddsRow(l) PROVE HandleInv'
<1>1. /\ save.pc = "rows" /\ SaveTyped(save) /\ HandleTypeOK
      /\ save.row \in RowNumbers /\ save.batch \in Batches /\ BatchCounted(save.batch)
      /\ save.table \in DOMAIN Tables
      /\ l \in Nat /\ QueryLength \in Nat /\ MaxPacket \in Nat /\ QueryLength + l <= MaxPacket
  BY DEF AddsRow, HandleInv, HandleTypeOK, SaveTyped, Saves
<1>2. save.pc \in Sending /\ Table \in TableSet
  BY <1>1, TablesTyped DEF Sending, Table
<1>3. ASSUME NEW d, NEW next, WrittenSoFar(work, save),
             \A t \in TableSet \ {Table} : d.rows[t] = work.rows[t],
             next.table = save.table, next.version = save.version, next.row = save.row + 1,
             next.pc \in {"rows", "flush"},
             d.rows[Table] \cup {<<save.version, i>> : i \in next.batch.rows}
                = (work.rows[Table] \cup {<<save.version, i>> : i \in save.batch.rows})
                   \cup {<<save.version, save.row>>}
      PROVE  WrittenSoFar(d, next)
  <2> SUFFICES ASSUME NEW k \in DOMAIN Tables, Tables[k] \notin Untransacted
               PROVE  /\ k < next.table \/ next.pc = "commit" => d.rows[Tables[k]] = Whole(next.version)
                      /\ k = next.table /\ next.pc \in {"rows", "flush"} =>
                            d.rows[Tables[k]] \cup {<<next.version, i>> : i \in next.batch.rows}
                                = {<<next.version, i>> : i \in 1 .. (next.row - 1)}
    BY DEF WrittenSoFar
  <2>1. CASE k = save.table
    <3>1. work.rows[Table] \cup {<<save.version, i>> : i \in save.batch.rows}
             = {<<save.version, i>> : i \in 1 .. (save.row - 1)}
      BY <1>1, <1>3, <2>1 DEF WrittenSoFar, Table
    <3>2. {<<save.version, i>> : i \in 1 .. (save.row - 1)} \cup {<<save.version, save.row>>}
             = {<<save.version, i>> : i \in 1 .. save.row}
      BY <1>1
    <3>3. next.row - 1 = save.row
      BY <1>1, <1>3
    <3>4. Tables[k] = Table /\ next.pc # "commit" /\ ~(k < next.table)
      BY <1>1, <1>3, <2>1 DEF Table
    <3> QED
      BY <1>3, <3>1, <3>2, <3>3, <3>4
  <2>2. CASE k # save.table
    <3>1. Tables[k] # Table /\ Tables[k] \in TableSet
      BY <1>1, <2>2, TablesTyped DEF IsInjective, Table
    <3>2. k < save.table => work.rows[Tables[k]] = Whole(save.version)
      BY <1>3 DEF WrittenSoFar
    <3> QED
      BY <1>3, <2>2, <3>1, <3>2
  <2> QED
    BY <2>1, <2>2
<1>4. CASE TooLong(save.batch, l) /\ save.batch.rows # {}
  <2> DEFINE b == Starts(save.row, l)
             next == AfterRow(b)
  <2>1. /\ b \in Batches /\ BatchCounted(b) /\ b.rows = {save.row}
        /\ b.rows \subseteq 1 .. save.row
    BY <1>1, StartsTyped
  <2>2. /\ SaveTyped(next) /\ next.pc \in {"rows", "flush"} /\ next.version = save.version
        /\ next.table = save.table /\ next.batch = b /\ next.row = save.row + 1
    BY <1>1, <2>1, AfterRowTyped
  <2>3. Insert(save.batch, next)
    BY <1>4 DEF AddsRow
  <2> HIDE DEF b, next
  <2>4. \A t \in TableSet : Inserted(save.batch).rows[t] =
                 IF t = Table THEN work.rows[t] \cup {<<save.version, i>> : i \in save.batch.rows}
                 ELSE work.rows[t]
    BY <1>1, InsertedRows
  <2>5. {<<save.version, i>> : i \in next.batch.rows} = {<<save.version, save.row>>}
    BY <2>1, <2>2
  <2>6. WrittenSoFar(work, save) => WrittenSoFar(Inserted(save.batch), next)
    BY <1>2, <1>3, <2>2, <2>4, <2>5
  <2>7. next.pc \in Sending
    BY <2>2 DEF Sending
  <2> QED
    BY <1>1, <1>2, <2>2, <2>3, <2>6, <2>7, InsertKeeps
<1>5. CASE ~(TooLong(save.batch, l) /\ save.batch.rows # {})
  <2> DEFINE b == Batched(save.batch, save.row, l)
  <2>1. /\ save' = AfterRow(b) /\ KeepWriters /\ UNCHANGED <<databaseLock, server, saved, torn>>
    BY <1>5 DEF AddsRow
  <2>2. /\ b \in Batches /\ b.rows = save.batch.rows \cup {save.row} /\ BatchCounted(b)
        /\ b.rows \subseteq 1 .. save.row
    <3>1. save.batch.rows \subseteq 1 .. (save.row - 1)
      BY <1>1 DEF SaveTyped
    <3>2. save.row \in RowNumbers \ save.batch.rows
      BY <1>1, <3>1
    <3>3. /\ b \in Batches /\ b.rows = save.batch.rows \cup {save.row} /\ BatchCounted(b)
      BY <1>1, <1>5, <3>2, BatchedTyped
    <3>4. save.batch.rows \cup {save.row} \subseteq 1 .. save.row
      BY <1>1, <3>1
    <3> QED
      BY <3>3, <3>4
  <2> HIDE DEF b
  <2>3. /\ SaveTyped(save') /\ save'.pc \in {"rows", "flush"} /\ save'.version = save.version
        /\ save'.table = save.table /\ save'.batch = b /\ save'.row = save.row + 1
    BY <1>1, <2>1, <2>2, AfterRowTyped
  <2>4. {<<save.version, i>> : i \in b.rows}
           = {<<save.version, i>> : i \in save.batch.rows} \cup {<<save.version, save.row>>}
    BY <2>2
  <2>5. WrittenSoFar(work, save) => WrittenSoFar(work, save')
    BY <1>3, <2>3, <2>4
  <2>6. LockHeld' /\ TransactionOpen' /\ InTransaction
    BY <1>1, <2>1, <2>3 DEF HandleInv, LockHeld, TransactionOpen, InTransaction, server, Sending, KeepWriters
  <2>7. save.version <= save'.version /\ databaseLock' \in Writers \cup {Saver, Free}
    BY <2>1, <2>3 DEF SaveTyped, Saves, HandleInv, HandleTypeOK
  <2>8. ~torn /\ open => WrittenSoFar(work, save')
    BY <2>5, <2>6 DEF HandleInv
  <2> QED
    BY <2>1, <2>3, <2>6, <2>7, <2>8, SaveMoves DEF KeepWriters
<1> QED
  BY <1>4, <1>5

LEMMA FlushStep == ASSUME HandleInv, Flushes PROVE HandleInv'
<1> DEFINE next == [NextTable EXCEPT !.batch = NoBatch]
<1>1. /\ save.pc = "flush" /\ Insert(save.batch, next) /\ SaveTyped(save) /\ HandleTypeOK
      /\ save.batch \in Batches /\ save.row = Rows + 1 /\ save.table \in DOMAIN Tables /\ Rows \in Nat
  BY DEF Flushes, HandleInv, HandleTypeOK, SaveTyped, Saves
<1>2. /\ SaveTyped(next) /\ next.version = save.version
      /\ \/ next.pc = "commit" /\ next.table = save.table /\ save.table = Len(Tables)
         \/ next.pc = "delete" /\ next.table = save.table + 1
  BY <1>1, NextTableTyped
<1> HIDE DEF next
<1>3. \A t \in TableSet : Inserted(save.batch).rows[t] =
           IF t = Table THEN work.rows[t] \cup {<<save.version, i>> : i \in save.batch.rows}
           ELSE work.rows[t]
  BY <1>1, InsertedRows
<1>4. Table \in TableSet
  BY <1>1, TablesTyped DEF Table
<1>5. ASSUME WrittenSoFar(work, save) PROVE WrittenSoFar(Inserted(save.batch), next)
  <2>1. CASE Table \notin Untransacted
    <3>1. Inserted(save.batch).rows[Table] = Whole(save.version)
      <4>1. work.rows[Table] \cup {<<save.version, i>> : i \in save.batch.rows}
               = {<<save.version, i>> : i \in 1 .. (save.row - 1)}
        BY <1>1, <1>5, <2>1 DEF WrittenSoFar, Table
      <4>2. save.row - 1 = Rows
        BY <1>1
      <4>3. Inserted(save.batch).rows[Table] =
               work.rows[Table] \cup {<<save.version, i>> : i \in save.batch.rows}
        BY <1>3, <1>4
      <4> QED
        BY <4>1, <4>2, <4>3 DEF Whole
    <3> QED
      BY <1>1, <1>2, <1>3, <1>5, <3>1, TableWritten
  <2>2. CASE Table \in Untransacted
    <3> SUFFICES ASSUME NEW k \in DOMAIN Tables, Tables[k] \notin Untransacted
                 PROVE  /\ k < next.table \/ next.pc = "commit"
                              => Inserted(save.batch).rows[Tables[k]] = Whole(next.version)
                        /\ next.pc \notin {"rows", "flush"}
      BY DEF WrittenSoFar
    <3>1. Tables[k] # Table /\ Tables[k] \in TableSet /\ k # save.table
      BY <2>2, TablesTyped DEF Table
    <3>2. k < next.table \/ next.pc = "commit" => k < save.table
      <4>1. Tables \in Seq(TableSet)
        OBVIOUS
      <4> QED
        BY <1>1, <1>2, <3>1, <4>1
    <3>3. k < save.table => work.rows[Tables[k]] = Whole(save.version)
      BY <1>5 DEF WrittenSoFar
    <3> QED
      BY <1>2, <1>3, <3>1, <3>2, <3>3
  <2> QED
    BY <2>1, <2>2
<1>6. save.pc \in Sending /\ next.pc \in Sending
  BY <1>1, <1>2 DEF Sending
<1> QED
  BY <1>1, <1>2, <1>5, <1>6, InsertKeeps

\* The steps around a transaction: before BEGIN, and up to the second lock.
LEMMA BeginSteps ==
    ASSUME HandleInv, SaveStarts \/ Begins \/ BeginFails \/ LocksTransaction
    PROVE  HandleInv'
<1>0. /\ HandleTypeOK /\ SaveTyped(save) /\ save \in Saves /\ save.version \in Versions
      /\ saved \in Versions /\ saved <= save.version /\ LockHeld /\ TransactionOpen
  BY DEF HandleInv, HandleTypeOK, SaveTyped, Saves
<1>6. save.version <= save.version
  BY <1>0
<1>1. ASSUME NEW d, NEW s, s.table = 1, s.pc \in {"between", "update"}
      PROVE  WrittenSoFar(d, s)
  <2>1. Tables \in Seq(TableSet)
    OBVIOUS
  <2>2. \A k \in DOMAIN Tables : ~(k < 1)
    BY <2>1
  <2> QED
    BY <1>1, <2>2 DEF WrittenSoFar
<1>2. CASE SaveStarts
  <2>1. /\ save.pc = "idle" /\ save.version + 1 \in Versions /\ databaseLock = Free
        /\ databaseLock' = Saver
        /\ UNCHANGED <<server, writer, saved, slipped, repeated, torn>>
    BY <1>0, <1>2 DEF SaveStarts, MayLock, KeepWriters
  <2>2. /\ save' \in Saves /\ save'.pc = "begin" /\ save'.version = save.version + 1
        /\ save'.table = 1 /\ save'.batch = NoBatch /\ BatchCounted(NoBatch)
    <3>1. NoBatch \in Batches /\ BatchCounted(NoBatch)
      BY NoBatchTyped
    <3>2. 1 \in DOMAIN Tables
      OBVIOUS
    <3>3. save' = [pc |-> "begin", version |-> save.version + 1, table |-> 1, row |-> 0,
                   batch |-> NoBatch]
      BY <1>2 DEF SaveStarts
    <3> QED
      BY <2>1, <3>1, <3>2, <3>3 DEF Saves, SavePcs
  <2>3. SaveTyped(save')
    BY <2>2 DEF SaveTyped
  <2>4. LockHeld' /\ TransactionOpen' /\ ~InTransaction'
    BY <1>0, <2>1, <2>2 DEF LockHeld, TransactionOpen, InTransaction, server, Sending
  <2>5. save.version <= save'.version
    BY <1>0, <2>2
  <2> QED
    BY <2>1, <2>3, <2>4, <2>5, SaveMoves
<1>3. CASE BeginFails
  <2>1. /\ save.pc = "begin" /\ databaseLock' = Free /\ SaveGoes("no begin")
        /\ UNCHANGED <<server, writer, saved, slipped, repeated, torn>>
    BY <1>3 DEF BeginFails, KeepWriters
  <2>2. SaveTyped(save') /\ save'.pc = "no begin" /\ save'.version = save.version
    BY <1>0, <2>1, SaveGoesTyped DEF SavePcs
  <2>3. LockHeld' /\ TransactionOpen' /\ ~InTransaction'
    BY <1>0, <2>1, <2>2 DEF LockHeld, TransactionOpen, InTransaction, server, Sending
  <2>4. save.version <= save'.version
    BY <1>6, <2>2
  <2> QED
    BY <2>1, <2>2, <2>3, <2>4, SaveMoves
<1>4. CASE LocksTransaction
  <2>1. /\ save.pc = "between" /\ databaseLock = Free /\ databaseLock' = Saver /\ SaveGoes("update")
        /\ UNCHANGED <<server, writer, saved, slipped, repeated, torn>>
    BY <1>4 DEF LocksTransaction, KeepWriters, MayLock
  <2>2. /\ SaveTyped(save') /\ save'.pc = "update" /\ save'.version = save.version
        /\ save'.table = 1
    <3>1. save.table = 1
      BY <1>0, <2>1 DEF SaveTyped
    <3> QED
      BY <1>0, <2>1, <3>1, SaveGoesTyped DEF SavePcs, Sending
  <2>3. LockHeld' /\ TransactionOpen'
    BY <1>0, <2>1, <2>2 DEF LockHeld, TransactionOpen, InTransaction, server, Sending
  <2>4. WrittenSoFar(work, save') /\ save.version <= save'.version
    BY <1>0, <1>1, <2>2
  <2> QED
    BY <2>1, <2>2, <2>3, <2>4, SaveMoves
<1>5. CASE Begins
  <2>1. /\ save.pc = "begin" /\ link = "up" /\ open' = TRUE /\ disk' = work /\ databaseLock' = Free
        /\ SaveGoes("between")
        /\ UNCHANGED <<link, work, losses, writer, saved, slipped, repeated, torn>>
    BY <1>5 DEF Begins, KeepWriters
  <2>2. /\ SaveTyped(save') /\ save'.pc = "between" /\ save'.version = save.version
        /\ save'.table = 1
    <3>1. save.table = 1
      BY <1>0, <2>1 DEF SaveTyped
    <3> QED
      BY <1>0, <2>1, <3>1, SaveGoesTyped DEF SavePcs
  <2>3. disk' = disk
    BY <1>0, <2>1 DEF TransactionOpen, Sending
  <2>4. HandleTypeOK'
    BY <1>0, <2>1, <2>2, <2>3 DEF HandleTypeOK
  <2>5. LockHeld'
    BY <1>0, <2>1, <2>2 DEF LockHeld, Sending
  <2>6. TransactionOpen'
    BY <2>1, <2>2 DEF TransactionOpen
  <2>7. WrittenSoFar(work, save')
    BY <1>1, <2>2
  <2> QED
    BY <2>1, <2>2, <2>3, <2>4, <2>5, <2>6, <2>7 DEF HandleInv
<1> QED
  BY <1>2, <1>3, <1>4, <1>5

\* The save gives up the lock it has and is over.
LEMMA SaveOver ==
    ASSUME HandleTypeOK, LockHeld, save.pc \in {"rollback"} \cup Sending, SaveGoes("idle"),
           databaseLock' = Free, UNCHANGED writer
    PROVE  /\ SaveTyped(save') /\ save'.pc = "idle" /\ save'.version = save.version
           /\ LockHeld' /\ ~InTransaction'
<1>1. SaveTyped(save') /\ save'.pc = "idle" /\ save'.version = save.version
  BY SaveGoesTyped DEF SavePcs
<1> QED
  BY <1>1 DEF LockHeld, Sending, InTransaction

LEMMA RollbackSteps ==
    ASSUME HandleInv, RollsBackUnlocked \/ RollsBack
    PROVE  HandleInv'
<1>0. /\ HandleTypeOK /\ work \in Contents /\ disk \in Contents /\ losses \in Nat /\ MaxLosses \in Nat
      /\ LockHeld /\ TransactionOpen /\ save.version \in Versions
      /\ Counts(disk, writer, losses, slipped, repeated)
  BY DEF HandleInv, HandleTypeOK, SaveTyped, Saves
<1>3. save.version <= save.version
  BY <1>0
<1>1. CASE RollsBackUnlocked
  <2>1. /\ save.pc = "no begin" /\ SaveGoes("idle")
        /\ UNCHANGED <<databaseLock, writer, saved, slipped, repeated, torn>>
    BY <1>1 DEF RollsBackUnlocked, KeepWriters
  <2>2. /\ SaveTyped(save') /\ save'.pc = "idle" /\ save'.version = save.version
    BY <1>0, <2>1, SaveGoesTyped DEF SavePcs
  <2>3. LockHeld' /\ ~InTransaction' /\ ~open /\ work = disk
    BY <1>0, <2>1, <2>2 DEF LockHeld, TransactionOpen, InTransaction, Sending
  <2>4. CASE UNCHANGED server
    <3>1. TransactionOpen'
      BY <2>2, <2>3, <2>4 DEF TransactionOpen, InTransaction, server
    <3>2. save.version <= save'.version /\ databaseLock' \in Writers \cup {Saver, Free}
      BY <1>0, <1>3, <2>1, <2>2 DEF HandleTypeOK
    <3> QED
      BY <2>1, <2>2, <2>3, <2>4, <3>1, <3>2, SaveMoves
  <2>5. CASE Broken /\ work' = disk /\ UNCHANGED disk
    <3>1. /\ link' = "down" /\ open' = FALSE /\ losses' \in 0 .. MaxLosses /\ losses <= losses'
          /\ work' = work /\ disk' = disk /\ losses' \in Nat
      BY <1>0, <2>3, <2>5 DEF Broken
    <3>2. HandleTypeOK' /\ TransactionOpen'
      BY <1>0, <2>1, <2>2, <2>3, <3>1 DEF HandleTypeOK, TransactionOpen
    <3>3. Counts(disk, writer, losses', slipped, repeated)
      BY <1>0, <3>1, SameCounts
    <3> QED
      BY <2>1, <2>2, <2>3, <3>1, <3>2, <3>3 DEF HandleInv
  <2> QED
    BY <1>1, <2>4, <2>5 DEF RollsBackUnlocked
<1>2. CASE RollsBack
  <2>1. /\ save.pc = "rollback" /\ SaveGoes("idle") /\ databaseLock' = Free
        /\ work' = disk /\ open' = FALSE /\ disk' = disk
        /\ UNCHANGED <<link, losses, writer, saved, slipped, repeated, torn>>
    BY <1>2 DEF RollsBack, RolledBack, KeepWriters
  <2>2. /\ SaveTyped(save') /\ save'.pc = "idle" /\ save'.version = save.version
        /\ LockHeld' /\ ~InTransaction'
    BY <1>0, <2>1, SaveOver
  <2>3. HandleTypeOK' /\ TransactionOpen'
    BY <1>0, <2>1, <2>2 DEF HandleTypeOK, TransactionOpen
  <2> QED
    BY <1>0, <2>1, <2>2, <2>3 DEF HandleInv
<1> QED
  BY <1>1, <1>2

\* A commit that is not torn writes the whole player.
LEMMA CommitStep == ASSUME HandleInv, Commits PROVE HandleInv'
<1>0. /\ HandleTypeOK /\ work \in Contents /\ disk \in Contents /\ losses \in Nat /\ MaxLosses \in Nat
      /\ LockHeld /\ TransactionOpen /\ save.version \in Versions
      /\ saved \in Versions /\ saved <= save.version
      /\ Counts(work, writer, losses, slipped, repeated)
      /\ Counts(disk, writer, losses, slipped, repeated)
  BY DEF HandleInv, HandleTypeOK, SaveTyped, Saves
<1>1. /\ save.pc = "commit" /\ SaveGoes("idle") /\ databaseLock' = Free
      /\ UNCHANGED <<writer, slipped, repeated, torn>>
  BY DEF Commits, KeepWriters
<1>2. /\ SaveTyped(save') /\ save'.pc = "idle" /\ save'.version = save.version
      /\ LockHeld' /\ ~InTransaction'
  BY <1>0, <1>1, SaveOver DEF Sending
<1>3. ASSUME link = "up", ~torn
      PROVE  \A t \in TableSet \ Untransacted : work.rows[t] = Whole(save.version)
  <2>1. WrittenSoFar(work, save)
    BY <1>1, <1>3 DEF HandleInv, TransactionOpen, InTransaction
  <2>2. \A t \in TableSet : \E k \in DOMAIN Tables : t = Tables[k]
    BY DEF TableSet, Range
  <2> QED
    BY <1>1, <2>1, <2>2 DEF WrittenSoFar
<1>4. CASE /\ link = "up" /\ disk' = work /\ open' = FALSE
           /\ saved' = save.version
           /\ UNCHANGED <<link, work, losses>>
  <2>1. HandleTypeOK' /\ TransactionOpen'
    BY <1>0, <1>1, <1>2, <1>4 DEF HandleTypeOK, TransactionOpen
  <2>2. ~torn => OneVersion(work, save.version, save.version)
    BY <1>0, <1>3, <1>4 DEF OneVersion
  <2>3. save.version <= save.version
    BY <1>0
  <2> QED
    BY <1>0, <1>1, <1>2, <1>4, <2>1, <2>2, <2>3 DEF HandleInv
<1>5. CASE link = "down" /\ UNCHANGED <<server, saved>>
  <2>1. TransactionOpen'
    BY <1>0, <1>2, <1>5 DEF TransactionOpen, server
  <2>2. save.version <= save'.version
    BY <1>0, <1>2
  <2> QED
    BY <1>1, <1>2, <1>5, <2>1, <2>2, SaveMoves
<1>6. CASE /\ link = "down" /\ torn /\ link' = "up"
           /\ saved' = save.version
           /\ UNCHANGED <<open, work, disk, losses>>
  <2>1. HandleTypeOK' /\ TransactionOpen'
    BY <1>0, <1>1, <1>2, <1>6 DEF HandleTypeOK, TransactionOpen
  <2>2. save.version <= save.version
    BY <1>0
  <2> QED
    BY <1>0, <1>1, <1>2, <1>6, <2>1, <2>2 DEF HandleInv
<1>7. CASE /\ link = "up" /\ Broken /\ disk' = work
           /\ UNCHANGED <<work, saved>>
  <2>1. /\ link' = "down" /\ open' = FALSE /\ losses' \in 0 .. MaxLosses /\ losses <= losses'
        /\ losses' \in Nat
    BY <1>0, <1>7 DEF Broken
  <2>2. HandleTypeOK' /\ TransactionOpen'
    BY <1>0, <1>1, <1>2, <1>7, <2>1 DEF HandleTypeOK, TransactionOpen
  <2>3. ~torn => OneVersion(work, saved, save.version)
    BY <1>0, <1>3, <1>7 DEF OneVersion
  <2>4. Counts(work, writer, losses', slipped, repeated)
    BY <1>0, <2>1, SameCounts
  <2> QED
    BY <1>0, <1>1, <1>2, <1>7, <2>1, <2>2, <2>3, <2>4 DEF HandleInv
<1> QED
  BY <1>4, <1>5, <1>6, <1>7 DEF Commits

LEMMA HandleStep == HandleInv /\ [HNext]_hvars => HandleInv'
<1> SUFFICES ASSUME HandleInv, [HNext]_hvars PROVE HandleInv'
  OBVIOUS
<1>1. CASE UNCHANGED hvars
  <2>1. UNCHANGED <<databaseLock, link, open, work, disk, losses, writer, save, saved, slipped,
                    repeated, torn>>
    BY <1>1 DEF hvars, server
  <2> QED
    BY <2>1 DEF HandleInv, HandleTypeOK, LockHeld, TransactionOpen, InTransaction
<1>2. CASE \E w \in Writers : WriterStep(w) \/ WriterLosesAnswer(w)
  BY <1>2, WriterSteps
<1>3. CASE SaveStep
  BY <1>3, BeginSteps, RollbackSteps, UpdateStep, DeleteStep, AddRowStep, FlushStep, CommitStep
     DEF SaveStep
<1>4. CASE LinkBreaks \/ Reconnects
  BY <1>4, LinkStep
<1> QED
  BY <1>1, <1>2, <1>3, <1>4 DEF HNext

\* What one handle and one lock keep for all the threads that share them
\* (database.cpp executeQuery, DBTransaction): who holds the lock, whether the
\* server still has the transaction open, and how far the save has written it.
THEOREM HandleInvariant == HSpec => []HandleInv
<1>1. HInit => HandleInv
  BY HandleInit
<1>2. HandleInv /\ [HNext]_hvars => HandleInv'
  BY HandleStep
<1> QED
  BY <1>1, <1>2, PTL DEF HSpec

\* A save is all or nothing as long as none went on after its transaction was
\* lost (IOLoginData::savePlayer), and a statement is longer than was counted,
\* and so than a packet, by no more than the row it began with and the commas
\* and parentheses of its rows (DBInsert::addRow).
THEOREM SavesWhole == HSpec => []SaveTornByRetryOnly
<1>1. HandleInv => SaveTornByRetryOnly
  <2> SUFFICES ASSUME HandleInv PROVE SaveTornByRetryOnly
    OBVIOUS
  <2>1. ASSUME NEW d \in Contents, Counts(d, writer, losses, slipped, repeated)
        PROVE  /\ d.rows \in [TableSet -> SUBSET (Versions \X RowNumbers)]
               /\ d.count \in [Writers -> 0 .. 1 + MaxLosses]
    <3>1. d.rows \in [TableSet -> SUBSET (Versions \X RowNumbers)] /\ d.count \in [Writers -> Nat]
      BY DEF Contents
    <3>2. losses \in 0 .. MaxLosses /\ MaxLosses \in Nat
      BY DEF HandleInv, HandleTypeOK
    <3>3. \A w \in Writers : d.count[w] \in 0 .. 1 + MaxLosses
      BY <2>1, <3>1, <3>2 DEF Counts
    <3> QED
      BY <3>1, <3>3
  <2>2. HTypeOK
    BY <2>1 DEF HandleInv, HandleTypeOK, TransactionOpen, HTypeOK
  <2>3. BatchCounted(save.batch)
    BY DEF HandleInv, HandleTypeOK, SaveTyped
  <2>4. ~torn => \E v \in saved .. save.version :
           \A t \in TableSet \ Untransacted : disk.rows[t] = Whole(v)
    BY DEF HandleInv, OneVersion
  <2> QED
    BY <2>2, <2>3, <2>4 DEF BatchCounted, SaveTornByRetryOnly
<1> QED
  BY <1>1, HandleInvariant, PTL

\* A query reported as done is in the database once, unless it slipped into a
\* transaction before its lock or was sent again (Database::executeQuery).
THEOREM QueriesOnce == HSpec => []AcknowledgedOnce
<1>1. HandleInv => AcknowledgedOnce
  <2> SUFFICES ASSUME HandleInv, NEW w \in Writers, writer[w] = "true"
               PROVE  /\ disk.count[w] = 0 => w \in slipped
                      /\ disk.count[w] > 1 => w \in repeated
    BY DEF AcknowledgedOnce
  <2>1. disk.count[w] \in Nat
    BY DEF HandleInv, HandleTypeOK, Contents
  <2> QED
    BY <2>1 DEF HandleInv, Counts
<1> QED
  BY <1>1, HandleInvariant, PTL
=============================================================================
