--------------------------- MODULE MHFolderProofs ---------------------------
(***************************************************************************)
(* Facts about MH folders and the lists that a Mailbox keeps of one, for   *)
(* the proofs about the modules that have them: MailboxStore, Pop3Session. *)
(*                                                                         *)
(* The lists of a Mailbox are `Sound': the keys are the lowest of the      *)
(* folder, in order; the UIDs are in order, below next_uid, as are all     *)
(* UIDs that are on record somewhere; and a UID that is on record leads to *)
(* the message it is on record for.                                        *)
(***************************************************************************)
EXTENDS MHFolder, FiniteSetTheorems, SequenceTheorems, TLAPS

Rising(s) == \A i, j \in DOMAIN s : i < j => s[i] < s[j]

\* The list ks has the lowest of the keys K, in order.
Lowest(ks, K) ==
  /\ Rising(ks) /\ Range(ks) \subseteq K
  /\ \A k \in K \ Range(ks), j \in Range(ks) : j < k

\* A list and a row, or a Mailbox, of a folder f, with UIDs committed as o has it.
Sound(m, f, o) ==
  /\ Lowest(m.keys, DOMAIN f)
  /\ Rising(m.uids) /\ Range(m.uids) \subseteq 1..m.nextUid - 1
  /\ Len(m.uids) <= Len(m.keys) /\ 1 <= m.nextUid
  /\ DOMAIN o \subseteq 1..m.nextUid - 1
  /\ \A i \in DOMAIN m.uids : m.uids[i] \in DOMAIN o => o[m.uids[i]] = f[m.keys[i]]

Counted(m) == m.num = Len(m.uids) \/ (m.keys = <<>> /\ m.uids = <<>>)

\* The files of f are different ones of the first b messages.
Files(f, b) ==
  /\ DOMAIN f \subseteq Nat \ {0} /\ IsFiniteSet(DOMAIN f)
  /\ Range(f) \subseteq 1..b
  /\ IsInjective(f)

-----------------------------------------------------------------------------
(* Sets of keys and lists *)

\* A list of numbers, and the numbers in it.
LEMMA ListOf ==
  ASSUME NEW S, NEW s \in Seq(S)
  PROVE  /\ Len(s) \in Nat /\ DOMAIN s = 1..Len(s)
         /\ \A i \in 1..Len(s) : s[i] \in S /\ s[i] \in Range(s)
         /\ Range(s) \subseteq S
<1>1. /\ Len(s) \in Nat /\ DOMAIN s = 1..Len(s) /\ s \in [1..Len(s) -> S]
  BY LenProperties
<1> QED
  BY <1>1 DEF Range

\* What a list has is at some position.
LEMMA Found ==
  ASSUME NEW s, NEW x \in Range(s)
  PROVE  \E i \in DOMAIN s : s[i] = x
BY DEF Range

\* A list without elements.
LEMMA EmptyList ==
  /\ \A S : <<>> \in Seq(S)
  /\ Len(<<>>) = 0 /\ DOMAIN <<>> = {} /\ Range(<<>>) = {} /\ Rising(<<>>)
  /\ \A s : (\E S : s \in Seq(S)) /\ Len(s) = 0 => s = <<>>
<1>1. \A S : <<>> \in Seq(S)
  OBVIOUS
<1>2. Len(<<>>) = 0 /\ DOMAIN <<>> = {}
  OBVIOUS
<1>3. \A s : (\E S : s \in Seq(S)) /\ Len(s) = 0 => s = <<>>
  BY EmptySeq
<1> QED
  BY <1>1, <1>2, <1>3 DEF Range, Rising

\* The elements of S up to k are finitely many.
LEMMA UpTo ==
  ASSUME NEW S, S \subseteq Nat, NEW k \in Nat
  PROVE  LET T == {j \in S : j <= k} IN IsFiniteSet(T) /\ Cardinality(T) \in Nat
<1> DEFINE T == {j \in S : j <= k}
<1>1. T \subseteq 0..k /\ IsFiniteSet(0..k)
  <2>1. \A j \in S : j <= k => j \in 0..k
    OBVIOUS
  <2>2. IsFiniteSet(0..k)
    BY FS_Interval
  <2> QED
    BY <2>1, <2>2
<1>2. IsFiniteSet(T)
  BY <1>1, FS_Subset
<1> QED
  BY <1>2, FS_CardinalityType

\* The ranks of two elements are in the order of the elements.
LEMMA RankRises ==
  ASSUME NEW S, S \subseteq Nat, NEW k \in S, NEW l \in S, k < l
  PROVE  Rank(S, k) < Rank(S, l)
<1> DEFINE K == {j \in S : j <= k}
           L == {j \in S : j <= l}
<1>1. /\ IsFiniteSet(K) /\ Cardinality(K) \in Nat
      /\ IsFiniteSet(L) /\ Cardinality(L) \in Nat
  BY UpTo
<1>2. K \subseteq L /\ l \in L /\ l \notin K
  <2>1. \A j \in S : j <= k => j <= l
    OBVIOUS
  <2>2. ~ (l <= k) /\ l <= l
    OBVIOUS
  <2> QED
    BY <2>1, <2>2
<1> HIDE DEF K, L
<1>3. Cardinality(K) <= Cardinality(L) /\ Cardinality(K) # Cardinality(L)
  BY <1>1, <1>2, FS_Subset
<1>4. Cardinality(K) < Cardinality(L)
  BY <1>1, <1>3
<1> QED
  BY <1>4 DEF Rank, K, L

\* So they are different, and count up to the number of elements.
LEMMA RankOf ==
  ASSUME NEW S, S \subseteq Nat, IsFiniteSet(S)
  PROVE  /\ Cardinality(S) \in Nat
         /\ \A k \in S : Rank(S, k) \in 1..Cardinality(S)
         /\ \A k, l \in S : Rank(S, k) = Rank(S, l) => k = l
<1>1. Cardinality(S) \in Nat
  BY FS_CardinalityType
<1>2. ASSUME NEW k \in S PROVE Rank(S, k) \in 1..Cardinality(S)
  <2> DEFINE T == {j \in S : j <= k}
  <2>1. IsFiniteSet(T) /\ Cardinality(T) \in Nat /\ T \subseteq S
    BY UpTo
  <2>2. k \in T
    OBVIOUS
  <2> HIDE DEF T
  <2>3. Cardinality(T) <= Cardinality(S)
    BY <2>1, FS_Subset
  <2>4. Cardinality(T) # 0
    BY <2>1, <2>2, FS_EmptySet
  <2>5. Cardinality(T) \in 1..Cardinality(S)
    BY <1>1, <2>1, <2>3, <2>4
  <2> QED
    BY <2>5 DEF Rank, T
<1>3. ASSUME NEW k \in S, NEW l \in S, Rank(S, k) = Rank(S, l) PROVE k = l
  <2>1. Rank(S, k) \in Nat
    BY <1>1, <1>2
  <2>2. (k < l => Rank(S, k) < Rank(S, l)) /\ (l < k => Rank(S, l) < Rank(S, k))
    BY RankRises
  <2>3. k \in Nat /\ l \in Nat
    OBVIOUS
  <2> QED
    BY <1>3, <2>1, <2>2, <2>3
<1> QED
  BY <1>1, <1>2, <1>3

\* Every number up to that of the elements is a rank.
LEMMA RankIsOnto ==
  ASSUME NEW S, S \subseteq Nat, IsFiniteSet(S), NEW n \in 1..Cardinality(S)
  PROVE  \E k \in S : Rank(S, k) = n
<1> DEFINE N == Cardinality(S)
           f == [k \in S |-> Rank(S, k)]
<1>1. N \in Nat /\ \A k \in S : Rank(S, k) \in 1..N
  BY RankOf
<1>2. f \in Injection(S, 1..N)
  <2>1. f \in [S -> 1..N]
    BY <1>1
  <2>2. \A k, l \in S : Rank(S, k) = Rank(S, l) => k = l
    BY RankOf
  <2>3. IsInjective(f)
    BY <2>2 DEF IsInjective
  <2> QED
    BY <2>1, <2>3 DEF Injection
<1>3. IsFiniteSet(1..N) /\ Cardinality(1..N) = N
  <2>1. /\ IsFiniteSet(1..N)
        /\ Cardinality(1..N) = IF 1 > N THEN 0 ELSE N - 1 + 1
    BY <1>1, FS_Interval
  <2> QED
    BY <1>1, <2>1
<1> HIDE DEF f
<1>4. f \in Surjection(S, 1..N)
  BY <1>2, <1>3, FS_Injection
<1>5. PICK k \in S : f[k] = n
  BY <1>4 DEF Surjection
<1> QED
  BY <1>5 DEF f

\* The elements of a set in order.
LEMMA AscendingLists ==
  ASSUME NEW S, S \subseteq Nat, IsFiniteSet(S)
  PROVE  /\ Ascending(S) \in Seq(S) /\ Ascending(S) \in Seq(Nat)
         /\ Len(Ascending(S)) = Cardinality(S) /\ Cardinality(S) \in Nat
         /\ Rising(Ascending(S)) /\ Range(Ascending(S)) = S
         /\ \A n \in 1..Cardinality(S) : Rank(S, Ascending(S)[n]) = n
         /\ \A k \in S : Rank(S, k) \in 1..Cardinality(S) /\ Ascending(S)[Rank(S, k)] = k
<1> DEFINE N == Cardinality(S)
           s == Ascending(S)
<1>1. N \in Nat /\ \A k \in S : Rank(S, k) \in 1..N
  BY RankOf
<1>2. ASSUME NEW n \in 1..N PROVE s[n] \in S /\ Rank(S, s[n]) = n
  <2>1. \E k \in S : Rank(S, k) = n
    BY RankIsOnto
  <2>2. s[n] = CHOOSE k \in S : Rank(S, k) = n
    BY DEF Ascending
  <2> QED
    BY <2>1, <2>2
<1>3. DOMAIN s = 1..N /\ s = [n \in 1..N |-> s[n]]
  BY DEF Ascending
<1> HIDE DEF s
<1>4. s \in [1..N -> S]
  BY <1>2, <1>3
<1>5. s \in Seq(S) /\ Len(s) = N
  BY <1>1, <1>4, <1>3
<1>6. ASSUME NEW k \in S PROVE s[Rank(S, k)] = k
  <2>1. Rank(S, k) \in 1..N
    BY <1>1
  <2>2. s[Rank(S, k)] \in S /\ Rank(S, s[Rank(S, k)]) = Rank(S, k)
    BY <1>2, <2>1
  <2> QED
    BY <2>2, RankOf
<1>7. Rising(s)
  <2> SUFFICES ASSUME NEW i \in 1..N, NEW j \in 1..N, i < j PROVE s[i] < s[j]
    BY <1>3 DEF Rising
  <2>1. s[i] \in S /\ s[j] \in S /\ Rank(S, s[i]) = i /\ Rank(S, s[j]) = j
    BY <1>2
  <2>2. ~ (s[j] < s[i])
    <3>1. SUFFICES ASSUME s[j] < s[i] PROVE FALSE
      OBVIOUS
    <3>2. Rank(S, s[j]) < Rank(S, s[i])
      BY <2>1, <3>1, RankRises
    <3> QED
      BY <1>1, <2>1, <3>2
  <2>3. s[i] \in Nat /\ s[j] \in Nat
    BY <2>1
  <2>4. s[i] # s[j]
    BY <1>1, <2>1
  <2> QED
    BY <2>2, <2>3, <2>4
<1>8. Range(s) = S
  <2>1. \A k \in S : Rank(S, k) \in DOMAIN s /\ s[Rank(S, k)] = k
    BY <1>1, <1>3, <1>6
  <2> QED
    BY <1>2, <1>3, <2>1 DEF Range
<1>9. s \in Seq(Nat)
  <2>1. s \in [1..N -> Nat]
    BY <1>4
  <2> QED
    BY <2>1, <1>1
<1> QED
  BY <1>1, <1>2, <1>5, <1>6, <1>7, <1>8, <1>9 DEF s

\* A finite set of numbers has a greatest.
LEMMA MaxOf ==
  ASSUME NEW S, S \subseteq Nat, IsFiniteSet(S), S # {}
  PROVE  Max(S) \in S /\ \A y \in S : y <= Max(S)
<1> DEFINE s == Ascending(S)
           N == Cardinality(S)
<1>1. /\ s \in Seq(S) /\ Len(s) = N /\ N \in Nat /\ Rising(s) /\ Range(s) = S
  BY AscendingLists
<1>2. N # 0
  BY FS_EmptySet
<1> HIDE DEF s, N
<1>3. DOMAIN s = 1..N /\ N \in DOMAIN s
  BY <1>1, <1>2, ListOf
<1>4. s[N] \in S
  BY <1>1, <1>3 DEF Range
<1>5. ASSUME NEW y \in S PROVE s[N] >= y
  <2>1. PICK i \in DOMAIN s : s[i] = y
    BY <1>1, Found
  <2>2. i = N \/ i < N
    BY <1>1, <1>3
  <2>3. i < N => s[i] < s[N]
    BY <1>1, <1>3 DEF Rising
  <2>4. s[N] \in Nat /\ s[i] \in Nat
    BY <1>4, <2>1
  <2> QED
    BY <2>1, <2>2, <2>3, <2>4
<1>6. \E x \in S : \A y \in S : x >= y
  BY <1>4, <1>5
<1>7. Max(S) \in S /\ \A y \in S : Max(S) >= y
  BY <1>6 DEF Max
<1> QED
  BY <1>7

\* The numbers in a list are finitely many.
LEMMA RangeFinite ==
  ASSUME NEW S, NEW s \in Seq(S)
  PROVE  IsFiniteSet(Range(s))
<1> DEFINE f == [i \in DOMAIN s |-> s[i]]
<1>1. DOMAIN s = 1..Len(s) /\ Len(s) \in Nat
  BY ListOf
<1>2. IsFiniteSet(DOMAIN s)
  BY <1>1, FS_Interval
<1>3. f \in Surjection(DOMAIN s, Range(s))
  <2>1. f \in [DOMAIN s -> Range(s)]
    BY DEF Range
  <2>2. \A t \in Range(s) : \E i \in DOMAIN s : f[i] = t
    BY DEF Range
  <2> HIDE DEF f
  <2> QED
    BY <2>1, <2>2 DEF Surjection
<1> HIDE DEF f
<1> QED
  BY <1>2, <1>3, FS_Surjection

\* In a list of the lowest keys, a key's position is its rank.
LEMMA LowestRanks ==
  ASSUME NEW K, K \subseteq Nat, NEW ks \in Seq(Nat), Lowest(ks, K), NEW i \in DOMAIN ks
  PROVE  Rank(K, ks[i]) = i
<1> DEFINE T == {j \in K : j <= ks[i]}
           f == [n \in 1..i |-> ks[n]]
<1>1. /\ DOMAIN ks = 1..Len(ks) /\ Len(ks) \in Nat /\ i \in Nat
      /\ \A n \in DOMAIN ks : ks[n] \in K /\ ks[n] \in Nat /\ ks[n] \in Range(ks)
  BY ListOf DEF Lowest
<1>2. \A n \in 1..i : n \in DOMAIN ks
  BY <1>1
<1>3. \A n, l \in DOMAIN ks : n < l => ks[n] < ks[l]
  BY DEF Lowest, Rising
<1>4. \A n \in 1..i : ks[n] \in T
  <2> SUFFICES ASSUME NEW n \in 1..i PROVE ks[n] \in T
    OBVIOUS
  <2>1. n = i \/ n < i
    BY <1>1
  <2>2. n < i => ks[n] < ks[i]
    BY <1>2, <1>3
  <2>3. ks[n] <= ks[i]
    BY <1>1, <1>2, <2>1, <2>2
  <2> QED
    BY <1>1, <1>2, <2>3
<1>5. \A t \in T : \E n \in 1..i : ks[n] = t
  <2> SUFFICES ASSUME NEW t \in T PROVE \E n \in 1..i : ks[n] = t
    OBVIOUS
  <2>1. t \in Range(ks)
    <3>1. t \notin Range(ks) => ks[i] < t
      BY <1>1 DEF Lowest
    <3>2. t \in Nat /\ t <= ks[i] /\ ks[i] \in Nat
      BY <1>1
    <3> QED
      BY <3>1, <3>2
  <2>2. PICK n \in DOMAIN ks : ks[n] = t
    BY <2>1, Found
  <2>3. i < n => ks[i] < ks[n]
    BY <1>3
  <2>4. ~ (i < n)
    BY <1>1, <2>2, <2>3
  <2>5. n \in 1..i
    BY <1>1, <2>4
  <2> QED
    BY <2>2, <2>5
<1>6. f \in Bijection(1..i, T)
  <2>1. f \in [1..i -> T]
    BY <1>4
  <2>2. \A n, l \in 1..i : ks[n] = ks[l] => n = l
    <3> SUFFICES ASSUME NEW n \in 1..i, NEW l \in 1..i, ks[n] = ks[l] PROVE n = l
      OBVIOUS
    <3>1. (n < l => ks[n] < ks[l]) /\ (l < n => ks[l] < ks[n])
      BY <1>2, <1>3
    <3>2. ks[n] \in Nat /\ ks[l] \in Nat
      BY <1>1, <1>2
    <3> QED
      BY <3>1, <3>2
  <2>3. IsInjective(f)
    BY <2>2 DEF IsInjective
  <2>4. \A t \in T : \E n \in 1..i : f[n] = t
    BY <1>5
  <2> HIDE DEF f, T
  <2> QED
    BY <2>1, <2>3, <2>4 DEF Bijection, Injection, Surjection
<1> HIDE DEF f, T
<1>7. ExistsBijection(1..i, T)
  BY <1>6 DEF ExistsBijection
<1>8. Cardinality(T) = i
  BY <1>1, <1>7, FS_CountingElements
<1> QED
  BY <1>8 DEF Rank, T

\* Two lists of the same keys, both in order, are the same.
LEMMA SameList ==
  ASSUME NEW ks \in Seq(Nat), NEW ls \in Seq(Nat), Rising(ks), Rising(ls),
         Range(ks) = Range(ls)
  PROVE  ks = ls
<1>1. /\ DOMAIN ks = 1..Len(ks) /\ Len(ks) \in Nat /\ DOMAIN ls = 1..Len(ls) /\ Len(ls) \in Nat
      /\ Range(ks) \subseteq Nat
  BY ListOf
<1>2. Lowest(ks, Range(ks)) /\ Lowest(ls, Range(ks))
  BY DEF Lowest
<1>3. \A i \in DOMAIN ks : Rank(Range(ks), ks[i]) = i
  BY <1>1, <1>2, LowestRanks
<1>4. \A i \in DOMAIN ls : Rank(Range(ks), ls[i]) = i
  BY <1>1, <1>2, LowestRanks
<1>5. \A i \in DOMAIN ks : i \in DOMAIN ls /\ ls[i] = ks[i]
  <2> SUFFICES ASSUME NEW i \in DOMAIN ks PROVE i \in DOMAIN ls /\ ls[i] = ks[i]
    OBVIOUS
  <2>1. ks[i] \in Range(ls)
    BY DEF Range
  <2>2. PICK j \in DOMAIN ls : ls[j] = ks[i]
    BY <2>1, Found
  <2> QED
    BY <1>3, <1>4, <2>2
<1>6. \A i \in DOMAIN ls : i \in DOMAIN ks
  <2> SUFFICES ASSUME NEW i \in DOMAIN ls PROVE i \in DOMAIN ks
    OBVIOUS
  <2>1. ls[i] \in Range(ks)
    BY DEF Range
  <2>2. PICK j \in DOMAIN ks : ks[j] = ls[i]
    BY <2>1, Found
  <2> QED
    BY <1>3, <1>4, <2>2
<1>7. Len(ks) = Len(ls)
  <2>1. Len(ks) <= Len(ls)
    <3>1. Len(ks) # 0 => Len(ks) \in 1..Len(ls)
      BY <1>1, <1>5
    <3> QED
      BY <1>1, <3>1
  <2>2. Len(ls) <= Len(ks)
    <3>1. Len(ls) # 0 => Len(ls) \in 1..Len(ks)
      BY <1>1, <1>6
    <3> QED
      BY <1>1, <3>1
  <2>3. Len(ks) \in Nat /\ Len(ls) \in Nat
    BY <1>1
  <2> QED
    BY <2>1, <2>2, <2>3
<1> QED
  BY <1>1, <1>5, <1>7, SeqEqual

\* A list in order has each of its elements once.
LEMMA RisingOnce ==
  ASSUME NEW s \in Seq(Nat), Rising(s), NEW i \in DOMAIN s, NEW j \in DOMAIN s, s[i] = s[j]
  PROVE  i = j
<1>1. i \in Nat /\ j \in Nat /\ s[i] \in Nat /\ s[j] \in Nat
  BY ListOf
<1>2. (i < j => s[i] < s[j]) /\ (j < i => s[j] < s[i])
  BY DEF Rising
<1> QED
  BY <1>1, <1>2

\* The look-up table leads every key to where it is.
LEMMA IndexLeads ==
  ASSUME NEW ks \in Seq(Nat)
  PROVE  /\ DOMAIN Index(ks) = Range(ks)
         /\ \A k \in Range(ks) : Index(ks)[k] \in DOMAIN ks /\ ks[Index(ks)[k]] = k
         /\ Index(ks) \in UNION {[K -> Nat \ {0}] : K \in SUBSET Nat}
         /\ IsFiniteSet(DOMAIN Index(ks))
<1>1. DOMAIN Index(ks) = Range(ks)
  BY DEF Index
<1>2. \A k \in Range(ks) : Index(ks)[k] \in DOMAIN ks /\ ks[Index(ks)[k]] = k
  <2> SUFFICES ASSUME NEW k \in Range(ks)
               PROVE  Index(ks)[k] \in DOMAIN ks /\ ks[Index(ks)[k]] = k
    OBVIOUS
  <2>1. \E i \in DOMAIN ks : ks[i] = k
    BY Found
  <2>2. Index(ks)[k] = CHOOSE i \in DOMAIN ks : ks[i] = k
    BY DEF Index
  <2> QED
    BY <2>1, <2>2
<1>3. Index(ks) \in [Range(ks) -> Nat \ {0}]
  <2>1. \A i \in DOMAIN ks : i \in Nat \ {0}
    BY ListOf
  <2>2. \A k \in Range(ks) : Index(ks)[k] \in Nat \ {0}
    BY <1>2, <2>1
  <2>3. Index(ks) = [k \in Range(ks) |-> Index(ks)[k]]
    BY DEF Index
  <2> QED
    BY <2>2, <2>3
<1>4. Range(ks) \in SUBSET Nat
  BY ListOf
<1> QED
  BY <1>1, <1>2, <1>3, <1>4, RangeFinite

\* What is left of a list without the element at one position.
LEMMA RemovedAt ==
  ASSUME NEW S, NEW s \in Seq(S), NEW p \in 1..Len(s)
  PROVE  /\ RemoveAt(s, p) \in Seq(S)
         /\ Len(RemoveAt(s, p)) = Len(s) - 1
         /\ \A i \in 1..(Len(s) - 1) : RemoveAt(s, p)[i] = IF i < p THEN s[i] ELSE s[i + 1]
<1> DEFINE left  == SubSeq(s, 1, p - 1)
           right == SubSeq(s, p + 1, Len(s))
<1>1. Len(s) \in Nat /\ p \in Int /\ \A i \in 1..Len(s) : s[i] \in S
  BY ListOf
<1>2. /\ left \in Seq(S) /\ Len(left) = p - 1
      /\ \A i \in 1..(p - 1) : left[i] = s[i]
  <2>1. \A i \in 1..(p - 1) : s[i] \in S
    BY <1>1
  <2>2. /\ left \in Seq(S) /\ Len(left) = IF 1 <= p - 1 THEN p - 1 - 1 + 1 ELSE 0
        /\ \A i \in 1..(p - 1 - 1 + 1) : left[i] = s[1 + i - 1]
    BY <1>1, <2>1, SubSeqProperties
  <2> QED
    BY <1>1, <2>2
<1>3. /\ right \in Seq(S) /\ Len(right) = Len(s) - p
      /\ \A i \in 1..(Len(s) - p) : right[i] = s[p + i]
  <2>1. \A i \in (p + 1)..Len(s) : s[i] \in S
    BY <1>1
  <2>2. /\ right \in Seq(S)
        /\ Len(right) = IF p + 1 <= Len(s) THEN Len(s) - (p + 1) + 1 ELSE 0
        /\ \A i \in 1..(Len(s) - (p + 1) + 1) : right[i] = s[(p + 1) + i - 1]
    BY <1>1, <2>1, SubSeqProperties
  <2> QED
    BY <1>1, <2>2
<1>4. RemoveAt(s, p) = left \o right
  BY DEF RemoveAt
<1> HIDE DEF left, right
<1>5. /\ left \o right \in Seq(S)
      /\ Len(left \o right) = Len(left) + Len(right)
      /\ \A i \in 1..(Len(left) + Len(right)) :
           (left \o right)[i] = IF i <= Len(left) THEN left[i] ELSE right[i - Len(left)]
  BY <1>2, <1>3, ConcatProperties
<1> QED
  BY <1>1, <1>2, <1>3, <1>4, <1>5

\* A list in order stays so, and loses that element only.
LEMMA RemovedRising ==
  ASSUME NEW s \in Seq(Nat), NEW p \in 1..Len(s), Rising(s)
  PROVE  /\ Rising(RemoveAt(s, p))
         /\ Range(RemoveAt(s, p)) = Range(s) \ {s[p]}
<1> DEFINE rest == RemoveAt(s, p)
<1>1. /\ rest \in Seq(Nat) /\ Len(rest) = Len(s) - 1
      /\ \A i \in 1..(Len(s) - 1) : rest[i] = IF i < p THEN s[i] ELSE s[i + 1]
  BY RemovedAt
<1>2. /\ Len(s) \in Nat /\ DOMAIN s = 1..Len(s) /\ \A i \in 1..Len(s) : s[i] \in Nat
      /\ DOMAIN rest = 1..(Len(s) - 1)
  BY <1>1, ListOf
<1> HIDE DEF rest
<1>3. Rising(rest)
  <2> SUFFICES ASSUME NEW i \in DOMAIN rest, NEW j \in DOMAIN rest, i < j
               PROVE  rest[i] < rest[j]
    BY DEF Rising
  <2> DEFINE at(k) == IF k < p THEN k ELSE k + 1
  <2>1. at(i) \in DOMAIN s /\ at(j) \in DOMAIN s /\ at(i) < at(j)
    <3>1. Len(s) \in Nat /\ p \in 1..Len(s) /\ i \in 1..(Len(s) - 1) /\ j \in 1..(Len(s) - 1)
      BY <1>2
    <3>2. at(i) \in 1..Len(s) /\ at(j) \in 1..Len(s) /\ at(i) < at(j)
      BY <3>1, SMTT(30)
    <3> QED
      BY <1>2, <3>2
  <2>2. rest[i] = s[at(i)] /\ rest[j] = s[at(j)]
    BY <1>1, <1>2
  <2> HIDE DEF at
  <2> QED
    BY <2>1, <2>2 DEF Rising
<1>4. ASSUME NEW i \in DOMAIN rest PROVE rest[i] \in Range(s) \ {s[p]}
  <2> DEFINE k == IF i < p THEN i ELSE i + 1
  <2>1. k \in DOMAIN s /\ k # p /\ p \in DOMAIN s
    BY <1>2
  <2>2. rest[i] = s[k]
    BY <1>1, <1>2
  <2> HIDE DEF k
  <2>3. s[k] # s[p]
    BY <2>1, RisingOnce
  <2> QED
    BY <2>1, <2>2, <2>3 DEF Range
<1>5. ASSUME NEW i \in DOMAIN s, i # p PROVE s[i] \in Range(rest)
  <2>1. CASE i < p
    <3>1. i \in DOMAIN rest /\ rest[i] = s[i]
      <4>1. i \in 1..(Len(s) - 1)
        BY <1>2, <2>1
      <4> QED
        BY <1>1, <1>2, <2>1, <4>1
    <3> QED
      BY <3>1 DEF Range
  <2>2. CASE i > p
    <3>1. i - 1 \in DOMAIN rest /\ rest[i - 1] = s[i]
      <4>1. Len(s) \in Nat /\ i \in 1..Len(s) /\ p \in 1..Len(s)
        BY <1>2
      <4>2. i - 1 \in 1..(Len(s) - 1) /\ ~ (i - 1 < p) /\ (i - 1) + 1 = i
        BY <2>2, <4>1
      <4>3. rest[i - 1] = s[(i - 1) + 1]
        BY <1>1, <4>2
      <4> QED
        BY <1>2, <4>2, <4>3
    <3> QED
      BY <3>1 DEF Range
  <2> QED
    BY <1>2, <1>5, <2>1, <2>2
<1>6. Range(rest) = Range(s) \ {s[p]}
  BY <1>4, <1>5 DEF Range
<1> QED
  BY <1>3, <1>6 DEF rest

\* Two lists in order, the one below the other, in a row.
LEMMA JoinedRising ==
  ASSUME NEW s \in Seq(Nat), NEW t \in Seq(Nat), Rising(s), Rising(t),
         \A k \in Range(s), l \in Range(t) : k < l
  PROVE  /\ s \o t \in Seq(Nat) /\ Rising(s \o t)
         /\ Range(s \o t) = Range(s) \cup Range(t)
         /\ Len(s \o t) = Len(s) + Len(t)
         /\ \A i \in DOMAIN s : i \in DOMAIN (s \o t) /\ (s \o t)[i] = s[i]
         /\ \A i \in DOMAIN (s \o t) \ DOMAIN s : i - Len(s) \in DOMAIN t /\ (s \o t)[i] = t[i - Len(s)]
<1> DEFINE st == s \o t
<1>1. /\ Len(s) \in Nat /\ DOMAIN s = 1..Len(s) /\ \A i \in DOMAIN s : s[i] \in Range(s)
      /\ Len(t) \in Nat /\ DOMAIN t = 1..Len(t) /\ \A i \in DOMAIN t : t[i] \in Range(t)
  BY ListOf
<1>2. /\ st \in Seq(Nat) /\ Len(st) = Len(s) + Len(t)
      /\ \A i \in 1..(Len(s) + Len(t)) : st[i] = IF i <= Len(s) THEN s[i] ELSE t[i - Len(s)]
  BY ConcatProperties
<1> HIDE DEF st
<1>3. DOMAIN st = 1..(Len(s) + Len(t))
  BY <1>2, ListOf
<1>4. \A i \in DOMAIN s : i \in DOMAIN st /\ st[i] = s[i]
  BY <1>1, <1>2, <1>3
<1>5. \A i \in DOMAIN st \ DOMAIN s : i - Len(s) \in DOMAIN t /\ st[i] = t[i - Len(s)]
  BY <1>1, <1>2, <1>3
<1>6. \A i \in DOMAIN t : i + Len(s) \in DOMAIN st /\ st[i + Len(s)] = t[i]
  <2> SUFFICES ASSUME NEW i \in DOMAIN t
               PROVE  i + Len(s) \in DOMAIN st /\ st[i + Len(s)] = t[i]
    OBVIOUS
  <2>1. i \in 1..Len(t) /\ Len(s) \in Nat /\ Len(t) \in Nat
    BY <1>1
  <2>2. /\ i + Len(s) \in 1..(Len(s) + Len(t))
        /\ ~ (i + Len(s) <= Len(s)) /\ (i + Len(s)) - Len(s) = i
    BY <2>1
  <2>3. st[i + Len(s)] = IF i + Len(s) <= Len(s) THEN s[i + Len(s)] ELSE t[(i + Len(s)) - Len(s)]
    BY <1>2, <2>2
  <2> QED
    BY <1>3, <2>2, <2>3
<1>7. Rising(st)
  <2> SUFFICES ASSUME NEW i \in DOMAIN st, NEW j \in DOMAIN st, i < j PROVE st[i] < st[j]
    BY DEF Rising
  <2>1. CASE j \in DOMAIN s
    <3>1. i \in DOMAIN s
      BY <1>1, <1>3, <2>1
    <3> QED
      BY <1>4, <2>1, <3>1 DEF Rising
  <2>2. CASE i \in DOMAIN s /\ j \notin DOMAIN s
    <3>1. st[i] = s[i] /\ st[j] = t[j - Len(s)] /\ j - Len(s) \in DOMAIN t
      BY <1>4, <1>5, <2>2
    <3>2. st[i] \in Range(s) /\ st[j] \in Range(t)
      BY <1>1, <2>2, <3>1
    <3> QED
      BY <3>2
  <2>3. CASE i \notin DOMAIN s
    <3>1. j \notin DOMAIN s
      BY <1>1, <1>3, <2>3
    <3>2. /\ i - Len(s) \in DOMAIN t /\ st[i] = t[i - Len(s)]
          /\ j - Len(s) \in DOMAIN t /\ st[j] = t[j - Len(s)]
      BY <1>5, <2>3, <3>1
    <3>3. i - Len(s) < j - Len(s)
      BY <1>1, <1>3
    <3> QED
      BY <3>2, <3>3 DEF Rising
  <2> QED
    BY <2>1, <2>2, <2>3
<1>8. Range(st) = Range(s) \cup Range(t)
  <2>1. \A i \in DOMAIN st : st[i] \in Range(s) \cup Range(t)
    BY <1>1, <1>4, <1>5
  <2>2. \A i \in DOMAIN s : s[i] \in Range(st)
    BY <1>4 DEF Range
  <2>3. \A i \in DOMAIN t : t[i] \in Range(st)
    BY <1>6 DEF Range
  <2> QED
    BY <2>1, <2>2, <2>3 DEF Range
<1> QED
  BY <1>2, <1>4, <1>5, <1>7, <1>8 DEF st

-----------------------------------------------------------------------------
(* Sound lists *)

Lists3(m) == m.keys \in Seq(Nat) /\ m.uids \in Seq(Nat) /\ m.nextUid \in Nat

\* The same keys, UIDs and next_uid.
SameLists(m, n) == n.keys = m.keys /\ n.uids = m.uids /\ n.nextUid = m.nextUid

\* Nothing else matters.
LEMMA SoundKept ==
  ASSUME NEW m, NEW n, NEW f, NEW o, SameLists(m, n)
  PROVE  Sound(n, f, o) <=> Sound(m, f, o)
<1>1. n.keys = m.keys /\ n.uids = m.uids /\ n.nextUid = m.nextUid
  BY DEF SameLists
<1> QED
  BY <1>1 DEF Sound

\* A position in the UIDs is one in the keys, and leads to a message.
LEMMA SoundPositions ==
  ASSUME NEW m, NEW f, NEW o, Lists3(m), Sound(m, f, o), NEW i \in DOMAIN m.uids
  PROVE  /\ i \in DOMAIN m.keys /\ m.keys[i] \in DOMAIN f /\ m.keys[i] \in Range(m.keys)
         /\ m.uids[i] \in Nat /\ m.uids[i] < m.nextUid /\ 1 <= m.uids[i]
<1>1. /\ DOMAIN m.keys = 1..Len(m.keys) /\ Len(m.keys) \in Nat
      /\ DOMAIN m.uids = 1..Len(m.uids) /\ Len(m.uids) \in Nat /\ m.nextUid \in Nat
      /\ m.uids[i] \in Range(m.uids)
  BY ListOf DEF Lists3
<1>2. Len(m.uids) <= Len(m.keys) /\ m.uids[i] \in 1..m.nextUid - 1
  BY <1>1 DEF Sound
<1>3. i \in DOMAIN m.keys
  BY <1>1, <1>2
<1>4. m.keys[i] \in Range(m.keys)
  BY <1>3 DEF Range
<1>5. m.keys[i] \in DOMAIN f
  BY <1>4 DEF Sound, Lowest
<1>6. m.uids[i] \in Nat /\ m.uids[i] < m.nextUid /\ 1 <= m.uids[i]
  BY <1>1, <1>2
<1> QED
  BY <1>3, <1>4, <1>5, <1>6

\* Mail arrives under a key above all others.
LEMMA LowestGrows ==
  ASSUME NEW ks, NEW K, NEW n, \A k \in K : k < n, Lowest(ks, K)
  PROVE  Lowest(ks, K \cup {n})
<1>1. Rising(ks) /\ Range(ks) \subseteq K
  BY DEF Lowest
<1>2. ASSUME NEW k \in (K \cup {n}) \ Range(ks), NEW j \in Range(ks) PROVE j < k
  BY <1>1, <1>2 DEF Lowest
<1> QED
  BY <1>1, <1>2 DEF Lowest

LEMMA SoundGrows ==
  ASSUME NEW m, NEW f, NEW g, NEW o, NEW n, Lists3(m), Sound(m, f, o),
         DOMAIN g = DOMAIN f \cup {n},
         \A k \in DOMAIN f : k < n /\ g[k] = f[k]
  PROVE  Sound(m, g, o)
<1>1. Lowest(m.keys, DOMAIN g)
  <2>1. Lowest(m.keys, DOMAIN f) /\ \A k \in DOMAIN f : k < n
    BY DEF Sound
  <2> QED
    BY <2>1, LowestGrows
<1>2. ASSUME NEW i \in DOMAIN m.uids, m.uids[i] \in DOMAIN o PROVE o[m.uids[i]] = g[m.keys[i]]
  <2>1. m.keys[i] \in DOMAIN f
    BY SoundPositions
  <2>2. o[m.uids[i]] = f[m.keys[i]]
    BY <1>2 DEF Sound
  <2> QED
    BY <2>1, <2>2
<1> QED
  BY <1>1, <1>2 DEF Sound

\* The message at the position p leaves the lists of m, and the folder.
Shrinks(m, n, f, g, p) ==
  /\ p \in DOMAIN m.uids
  /\ n.keys = RemoveAt(m.keys, p) /\ n.uids = RemoveAt(m.uids, p) /\ n.nextUid = m.nextUid
  /\ DOMAIN g = DOMAIN f \ {m.keys[p]} /\ \A k \in DOMAIN g : g[k] = f[k]

\* A message is removed from the folder and from the lists.
LEMMA SoundShrinks ==
  ASSUME NEW m, NEW n, NEW f, NEW g, NEW o, NEW p, Lists3(m), Sound(m, f, o),
         DOMAIN f \subseteq Nat, Shrinks(m, n, f, g, p)
  PROVE  /\ Lists3(n) /\ Sound(n, g, o)
         /\ Range(n.keys) = Range(m.keys) \ {m.keys[p]}
         /\ Len(n.uids) = Len(m.uids) - 1
         /\ \A i \in DOMAIN m.uids : i < p =>
              i \in DOMAIN n.uids /\ n.keys[i] = m.keys[i]
<1> USE DEF Shrinks
<1> DEFINE ks == m.keys
           us == m.uids
<1>1. /\ ks \in Seq(Nat) /\ us \in Seq(Nat) /\ m.nextUid \in Nat
      /\ DOMAIN ks = 1..Len(ks) /\ Len(ks) \in Nat
      /\ DOMAIN us = 1..Len(us) /\ Len(us) \in Nat
      /\ p \in 1..Len(us) /\ p \in 1..Len(ks) /\ p \in DOMAIN ks
  <2>1. ks \in Seq(Nat) /\ us \in Seq(Nat) /\ m.nextUid \in Nat
    BY DEF Lists3
  <2>2. p \in DOMAIN ks
    BY SoundPositions
  <2> QED
    BY <2>1, <2>2, ListOf
<1>2. /\ Rising(ks) /\ Range(ks) \subseteq DOMAIN f
      /\ \A k \in DOMAIN f \ Range(ks), j \in Range(ks) : j < k
      /\ Rising(us) /\ Range(us) \subseteq 1..m.nextUid - 1 /\ Len(us) <= Len(ks) /\ 1 <= m.nextUid
      /\ DOMAIN o \subseteq 1..m.nextUid - 1
      /\ \A i \in DOMAIN us : us[i] \in DOMAIN o => o[us[i]] = f[ks[i]]
  BY DEF Sound, Lowest
<1>3. /\ n.keys \in Seq(Nat) /\ Len(n.keys) = Len(ks) - 1
      /\ \A i \in 1..(Len(ks) - 1) : n.keys[i] = IF i < p THEN ks[i] ELSE ks[i + 1]
      /\ Rising(n.keys) /\ Range(n.keys) = Range(ks) \ {ks[p]}
  <2>1. n.keys = RemoveAt(ks, p) /\ ks \in Seq(Nat) /\ p \in 1..Len(ks) /\ Rising(ks)
    BY <1>1, <1>2
  <2> HIDE DEF ks
  <2>2. /\ RemoveAt(ks, p) \in Seq(Nat) /\ Len(RemoveAt(ks, p)) = Len(ks) - 1
        /\ \A i \in 1..(Len(ks) - 1) : RemoveAt(ks, p)[i] = IF i < p THEN ks[i] ELSE ks[i + 1]
    BY <2>1, RemovedAt
  <2>3. /\ Rising(RemoveAt(ks, p)) /\ Range(RemoveAt(ks, p)) = Range(ks) \ {ks[p]}
    BY <2>1, RemovedRising
  <2> QED
    BY <2>1, <2>2, <2>3
<1>4. /\ n.uids \in Seq(Nat) /\ Len(n.uids) = Len(us) - 1
      /\ \A i \in 1..(Len(us) - 1) : n.uids[i] = IF i < p THEN us[i] ELSE us[i + 1]
      /\ Rising(n.uids) /\ Range(n.uids) = Range(us) \ {us[p]}
  <2>1. n.uids = RemoveAt(us, p) /\ us \in Seq(Nat) /\ p \in 1..Len(us) /\ Rising(us)
    BY <1>1, <1>2
  <2> HIDE DEF us
  <2>2. /\ RemoveAt(us, p) \in Seq(Nat) /\ Len(RemoveAt(us, p)) = Len(us) - 1
        /\ \A i \in 1..(Len(us) - 1) : RemoveAt(us, p)[i] = IF i < p THEN us[i] ELSE us[i + 1]
    BY <2>1, RemovedAt
  <2>3. /\ Rising(RemoveAt(us, p)) /\ Range(RemoveAt(us, p)) = Range(us) \ {us[p]}
    BY <2>1, RemovedRising
  <2> QED
    BY <2>1, <2>2, <2>3
<1>5. DOMAIN n.keys = 1..Len(ks) - 1 /\ DOMAIN n.uids = 1..Len(us) - 1
  BY <1>3, <1>4, ListOf
<1> HIDE DEF ks, us
<1>6. Lists3(n)
  BY <1>1, <1>3, <1>4 DEF Lists3
<1>7. Lowest(n.keys, DOMAIN g)
  <2>1. Range(n.keys) \subseteq DOMAIN g
    BY <1>2, <1>3 DEF ks
  <2>2. DOMAIN g \ Range(n.keys) \subseteq DOMAIN f \ Range(ks) /\ Range(n.keys) \subseteq Range(ks)
    BY <1>3 DEF ks
  <2> QED
    BY <1>2, <1>3, <2>1, <2>2 DEF Lowest
<1>8. Len(n.uids) <= Len(n.keys)
  BY <1>1, <1>2, <1>3, <1>4
<1>9. ASSUME NEW i \in DOMAIN n.uids, n.uids[i] \in DOMAIN o PROVE o[n.uids[i]] = g[n.keys[i]]
  <2> DEFINE l == IF i < p THEN i ELSE i + 1
  <2>1. i \in 1..Len(us) - 1 /\ i \in 1..Len(ks) - 1 /\ l \in DOMAIN us
    <3>1. i \in 1..Len(us) - 1 /\ p \in 1..Len(us) /\ Len(us) \in Nat /\ Len(ks) \in Nat /\ Len(us) <= Len(ks)
      BY <1>1, <1>2, <1>5
    <3>2. i \in 1..Len(ks) - 1 /\ l \in 1..Len(us)
      BY <3>1
    <3> QED
      BY <1>1, <3>1, <3>2
  <2>2. n.uids[i] = us[l] /\ n.keys[i] = ks[l]
    BY <1>3, <1>4, <2>1
  <2> HIDE DEF l
  <2>3. o[us[l]] = f[ks[l]]
    BY <1>2, <1>9, <2>1, <2>2
  <2>4. i \in DOMAIN n.keys
    BY <1>5, <2>1
  <2>5. n.keys[i] \in DOMAIN g
    BY <1>7, <2>4 DEF Range, Lowest
  <2> QED
    BY <2>2, <2>3, <2>5
<1>10. Sound(n, g, o)
  <2>1. Range(n.uids) \subseteq 1..n.nextUid - 1 /\ DOMAIN o \subseteq 1..n.nextUid - 1
    BY <1>2, <1>4
  <2> QED
    BY <1>4, <1>7, <1>8, <1>9, <2>1 DEF Sound
<1>11. \A i \in DOMAIN us : i < p => i \in DOMAIN n.uids /\ n.keys[i] = ks[i]
  <2> SUFFICES ASSUME NEW i \in DOMAIN us, i < p PROVE i \in DOMAIN n.uids /\ n.keys[i] = ks[i]
    OBVIOUS
  <2>1. i \in 1..Len(us) - 1 /\ i \in 1..Len(ks) - 1
    BY <1>1
  <2> QED
    BY <1>3, <1>5, <2>1
<1> QED
  BY <1>3, <1>4, <1>6, <1>10, <1>11 DEF ks, us

\* A list with nothing in it is sound.
LEMMA SoundNothing ==
  ASSUME NEW m, NEW f, NEW o, m.keys = <<>>, m.uids = <<>>, m.nextUid \in Nat \ {0},
         DOMAIN o \subseteq 1..m.nextUid - 1
  PROVE  Lists3(m) /\ Sound(m, f, o)
<1>1. /\ m.keys \in Seq(Nat) /\ m.uids \in Seq(Nat) /\ Len(m.keys) = 0 /\ Len(m.uids) = 0
      /\ Rising(m.keys) /\ Rising(m.uids) /\ Range(m.keys) = {} /\ Range(m.uids) = {}
      /\ DOMAIN m.uids = {}
  BY EmptyList
<1>2. 1 <= m.nextUid
  OBVIOUS
<1> QED
  BY <1>1, <1>2 DEF Lists3, Sound, Lowest

\* The lists and the folder as it was read, when everything read is listed.
LEMMA NothingNew ==
  ASSUME NEW ks \in Seq(Nat), NEW scan \in Seq(Nat), Rising(ks), Rising(scan),
         Range(ks) \subseteq Range(scan), Ascending(Range(scan) \ Range(ks)) = <<>>
  PROVE  scan = ks
<1> DEFINE K == Range(scan) \ Range(ks)
<1>1. K \subseteq Nat /\ IsFiniteSet(K)
  <2>1. Range(scan) \subseteq Nat /\ IsFiniteSet(Range(scan))
    BY ListOf, RangeFinite
  <2> QED
    BY <2>1, FS_Subset
<1>2. Range(Ascending(K)) = K
  BY <1>1, AscendingLists
<1>3. K = {}
  BY <1>2, EmptyList
<1>4. Range(scan) = Range(ks)
  BY <1>3
<1> QED
  BY <1>4, SameList

\* The keys that the folder has beyond the lists of m, and the UIDs for them.
NewKeys(m, scan) == Ascending(Range(scan) \ Range(m.keys))
NewUids(m, scan) == [i \in DOMAIN NewKeys(m, scan) |-> m.nextUid + i - 1]

\* The lists of n are those of m with the rest of the folder.
Extends(m, n, scan) ==
  /\ n.keys = m.keys \o NewKeys(m, scan) /\ n.uids = m.uids \o NewUids(m, scan)
  /\ n.nextUid = IF n.uids = <<>> THEN m.nextUid ELSE Last(n.uids) + 1

\* Messages that the folder has beyond the lists get the next UIDs.
LEMMA SoundFinds ==
  ASSUME NEW m, NEW n, NEW f, NEW o, NEW scan \in Seq(Nat),
         Lists3(m), Sound(m, f, o), Len(m.uids) = Len(m.keys),
         Lowest(scan, DOMAIN f), Range(m.keys) \subseteq Range(scan),
         Extends(m, n, scan), NewKeys(m, scan) # <<>> \/ m.uids = <<>>
  PROVE  /\ Lists3(n) /\ Sound(n, f, o)
         /\ n.keys = scan /\ Len(n.uids) = Len(n.keys)
         /\ NewKeys(m, scan) \in Seq(Nat) /\ Range(NewKeys(m, scan)) = Range(scan) \ Range(m.keys)
<1> DEFINE ks == m.keys
           us == m.uids
           K  == Range(scan) \ Range(ks)
<1>1. PICK new : new = NewKeys(m, scan)
  OBVIOUS
<1>2. PICK newUids : newUids = NewUids(m, scan)
  OBVIOUS
<1>3. /\ new = Ascending(K) /\ (new # <<>> \/ us = <<>>)
      /\ newUids = [i \in DOMAIN new |-> m.nextUid + i - 1]
      /\ n.keys = ks \o new /\ n.uids = us \o newUids
      /\ n.uids = <<>> => n.nextUid = m.nextUid
      /\ n.uids # <<>> => n.nextUid = n.uids[Len(n.uids)] + 1
  BY <1>1, <1>2 DEF Extends, NewKeys, NewUids, Last
<1>4. /\ ks \in Seq(Nat) /\ us \in Seq(Nat) /\ m.nextUid \in Nat /\ 1 <= m.nextUid
      /\ Rising(ks) /\ Rising(us) /\ Range(us) \subseteq 1..m.nextUid - 1
      /\ Len(us) = Len(ks) /\ Lowest(ks, DOMAIN f) /\ DOMAIN o \subseteq 1..m.nextUid - 1
      /\ \A i \in DOMAIN us : us[i] \in DOMAIN o => o[us[i]] = f[ks[i]]
  BY DEF Lists3, Sound, Lowest
<1>5. K \subseteq Nat /\ IsFiniteSet(K)
  <2>1. Range(scan) \subseteq Nat /\ IsFiniteSet(Range(scan))
    BY ListOf, RangeFinite
  <2> QED
    BY <2>1, FS_Subset
<1>6. new \in Seq(Nat) /\ Rising(new) /\ Range(new) = K
  BY <1>5, <1>3, AscendingLists
<1>7. \A k \in Range(ks), l \in Range(new) : k < l
  <2>1. Range(scan) \subseteq DOMAIN f
    BY DEF Lowest
  <2>2. K \subseteq DOMAIN f \ Range(ks)
    BY <2>1
  <2> QED
    BY <1>4, <1>6, <2>2 DEF Lowest
<1> HIDE DEF ks, us
<1>8. PICK next \in Nat : next = m.nextUid /\ 1 <= next
  BY <1>4
<1>9. PICK beyond : beyond = n.nextUid
  OBVIOUS
<1>10. Range(us) \subseteq 1..next - 1 /\ DOMAIN o \subseteq 1..next - 1
  BY <1>4, <1>8
<1>11. /\ ks \o new \in Seq(Nat) /\ Rising(ks \o new)
       /\ Range(ks \o new) = Range(ks) \cup Range(new)
       /\ Len(ks \o new) = Len(ks) + Len(new)
       /\ \A i \in DOMAIN ks : i \in DOMAIN (ks \o new) /\ (ks \o new)[i] = ks[i]
  BY <1>4, <1>6, <1>7, JoinedRising
<1>12. n.keys = scan /\ n.keys = ks \o new
  <2>1. Range(ks \o new) = Range(scan)
    BY <1>6, <1>11 DEF ks
  <2>2. Rising(scan)
    BY DEF Lowest
  <2>3. ks \o new = scan
    BY <1>11, <2>1, <2>2, SameList
  <2> QED
    BY <1>3, <2>3 DEF ks
<1>13. /\ Len(new) \in Nat /\ DOMAIN new = 1..Len(new)
       /\ Len(us) \in Nat /\ DOMAIN us = 1..Len(us)
       /\ \A i \in DOMAIN us : us[i] \in Range(us)
  BY <1>4, <1>6, ListOf
<1>14. /\ newUids \in Seq(Nat) /\ Len(newUids) = Len(new) /\ DOMAIN newUids = 1..Len(new)
       /\ \A i \in 1..Len(new) : newUids[i] = next + i - 1
  <2>1. \A i \in 1..Len(new) : next + i - 1 \in Nat
    BY <1>13
  <2>2. newUids = [i \in 1..Len(new) |-> next + i - 1]
    BY <1>13, <1>8, <1>3
  <2>3. newUids \in [1..Len(new) -> Nat]
    BY <2>1, <2>2
  <2>4. newUids \in Seq(Nat)
    <3>1. Len(new) \in Nat
      BY <1>13
    <3> QED
      BY <2>3, <3>1
  <2>5. DOMAIN newUids = 1..Len(new)
    BY <2>2
  <2>6. DOMAIN newUids = 1..Len(newUids) /\ Len(newUids) \in Nat
    BY <2>4, ListOf
  <2>7. Len(newUids) = Len(new)
    BY <1>13, <2>3, <2>4, <2>5, <2>6
  <2> QED
    BY <2>2, <2>4, <2>5, <2>7
<1>15. Rising(newUids) /\ \A l \in Range(newUids) : next <= l /\ l \in Nat
  <2>1. \A i \in DOMAIN newUids : newUids[i] = next + i - 1 /\ i \in Nat \ {0}
    BY <1>13, <1>14
  <2>2. Rising(newUids)
    <3> SUFFICES ASSUME NEW i \in DOMAIN newUids, NEW j \in DOMAIN newUids, i < j
                 PROVE  newUids[i] < newUids[j]
      BY DEF Rising
    <3>1. /\ newUids[i] = next + i - 1 /\ newUids[j] = next + j - 1
          /\ i \in Nat /\ j \in Nat
      BY <2>1
    <3>2. next + i - 1 < next + j - 1
      BY <3>1
    <3> QED
      BY <3>1, <3>2
  <2>3. \A i \in DOMAIN newUids : next <= newUids[i] /\ newUids[i] \in Nat
    BY <2>1
  <2> QED
    BY <2>2, <2>3 DEF Range
<1>16. \A k \in Range(us), l \in Range(newUids) : k < l
  BY <1>15, <1>10
<1>17. /\ n.uids \in Seq(Nat) /\ Rising(n.uids)
       /\ Range(n.uids) = Range(us) \cup Range(newUids)
       /\ Len(n.uids) = Len(us) + Len(newUids)
       /\ \A i \in DOMAIN us : i \in DOMAIN n.uids /\ n.uids[i] = us[i]
       /\ \A i \in DOMAIN n.uids \ DOMAIN us :
            i - Len(us) \in DOMAIN newUids /\ n.uids[i] = newUids[i - Len(us)]
  <2>1. n.uids = us \o newUids
    BY <1>3
  <2>2. newUids \in Seq(Nat) /\ Rising(newUids) /\ us \in Seq(Nat) /\ Rising(us)
    BY <1>4, <1>14, <1>15
  <2>3. /\ us \o newUids \in Seq(Nat) /\ Rising(us \o newUids)
        /\ Range(us \o newUids) = Range(us) \cup Range(newUids)
        /\ Len(us \o newUids) = Len(us) + Len(newUids)
        /\ \A i \in DOMAIN us : i \in DOMAIN (us \o newUids) /\ (us \o newUids)[i] = us[i]
        /\ \A i \in DOMAIN (us \o newUids) \ DOMAIN us :
             i - Len(us) \in DOMAIN newUids /\ (us \o newUids)[i] = newUids[i - Len(us)]
    BY <1>16, <2>2, JoinedRising
  <2> QED
    BY <2>1, <2>3
<1>18. Len(n.uids) = Len(n.keys)
  <2>1. Len(n.keys) = Len(ks) + Len(new)
    BY <1>11, <1>12
  <2> QED
    BY <1>4, <1>14, <1>17, <2>1
<1>19. /\ beyond \in Nat /\ next <= beyond
       /\ \A u \in Range(n.uids) : u < beyond
  <2>1. CASE n.uids = <<>>
    <3>1. beyond = next /\ Range(n.uids) = {}
      BY <1>8, <1>9, <1>3, <2>1, EmptyList
    <3> QED
      BY <3>1
  <2>2. CASE n.uids # <<>>
    <3> DEFINE last == Len(n.uids)
    <3>1. beyond = n.uids[last] + 1
      BY <1>9, <1>3, <2>2
    <3>2. last \in Nat /\ DOMAIN n.uids = 1..last /\ last # 0
      BY <1>17, <2>2, ListOf, EmptyList
    <3>3. last \in DOMAIN n.uids /\ n.uids[last] \in Nat /\ \A i \in DOMAIN n.uids : n.uids[i] \in Nat
      <4>1. last \in DOMAIN n.uids
        BY <3>2
      <4>2. \A i \in DOMAIN n.uids : n.uids[i] \in Nat
        BY <1>17, ListOf
      <4> QED
        BY <4>1, <4>2
    <3>4. \A i \in DOMAIN n.uids : n.uids[i] <= n.uids[last]
      <4> SUFFICES ASSUME NEW i \in DOMAIN n.uids PROVE n.uids[i] <= n.uids[last]
        OBVIOUS
      <4>1. i = last \/ i < last
        <5>1. i \in 1..last
          BY <3>2
        <5> QED
          BY <3>2, <5>1
      <4>2. i < last => n.uids[i] < n.uids[last]
        BY <1>17, <3>3 DEF Rising
      <4>3. n.uids[i] \in Nat /\ n.uids[last] \in Nat
        BY <3>3
      <4> QED
        BY <4>1, <4>2, <4>3
    <3>5. Len(new) # 0
      <4>1. new = <<>> => us = <<>>
        BY <1>3
      <4>2. new = <<>> => Len(us) = 0 /\ Len(new) = 0
        BY <4>1, EmptyList
      <4>3. Len(new) = 0 => new = <<>>
        BY <1>6, EmptyList
      <4> QED
        BY <1>13, <1>14, <1>17, <3>2, <4>2, <4>3
    <3>6. next <= n.uids[last]
      <4>1. last = Len(us) + Len(new) /\ last \notin DOMAIN us
        <5>1. last = Len(us) + Len(new) /\ Len(us) \in Nat /\ Len(new) \in Nat
          BY <1>13, <1>14, <1>17
        <5>2. last \notin 1..Len(us)
          BY <3>5, <5>1
        <5> QED
          BY <1>13, <5>1, <5>2
      <4>2. n.uids[last] = newUids[last - Len(us)] /\ last - Len(us) \in DOMAIN newUids
        BY <1>17, <3>3, <4>1
      <4>3. n.uids[last] \in Range(newUids)
        BY <4>2 DEF Range
      <4> QED
        BY <1>15, <4>3
    <3> HIDE DEF last
    <3>7. \A u \in Range(n.uids) : u <= n.uids[last] /\ u \in Nat
      BY <3>3, <3>4 DEF Range
    <3>8. n.uids[last] \in Nat
      BY <3>3
    <3>9. beyond \in Nat /\ next <= beyond
      BY <3>1, <3>6, <3>8
    <3>10. \A u \in Range(n.uids) : u < beyond
      BY <3>1, <3>7, <3>8
    <3> QED
      BY <3>9, <3>10
  <2> QED
    BY <2>1, <2>2
<1>20. Range(n.uids) \subseteq 1..n.nextUid - 1 /\ DOMAIN o \subseteq 1..n.nextUid - 1
  <2>1. \A u \in Range(us) : u \in Nat /\ 1 <= u
    BY <1>10
  <2>2. \A u \in Range(newUids) : u \in Nat /\ 1 <= u
    BY <1>15, <1>8
  <2>3. \A u \in Range(n.uids) : u \in Nat /\ 1 <= u
    BY <1>17, <2>1, <2>2
  <2>4. \A u \in Range(n.uids) : u \in 1..beyond - 1
    BY <1>19, <2>3
  <2>5. \A u \in DOMAIN o : u \in 1..beyond - 1
    BY <1>19, <1>10
  <2> QED
    BY <1>9, <2>4, <2>5
<1>21. ASSUME NEW i \in DOMAIN n.uids, n.uids[i] \in DOMAIN o PROVE o[n.uids[i]] = f[n.keys[i]]
  <2>1. CASE i \in DOMAIN us
    <3>1. n.uids[i] = us[i]
      BY <1>17, <2>1
    <3>2. i \in DOMAIN ks
      BY <1>4, <1>13, <2>1, ListOf
    <3>3. n.keys[i] = ks[i]
      BY <1>11, <1>12, <3>2
    <3> QED
      BY <1>4, <1>21, <2>1, <3>1, <3>3
  <2>2. CASE i \notin DOMAIN us
    <3>1. n.uids[i] \in Range(newUids)
      BY <1>17, <2>2 DEF Range
    <3>2. next <= n.uids[i] /\ n.uids[i] \in 1..next - 1
      BY <1>15, <1>21, <1>10, <3>1
    <3> QED
      BY <3>2
  <2> QED
    BY <2>1, <2>2
<1>22. Lists3(n)
  BY <1>12, <1>17, <1>19, <1>9 DEF Lists3
<1>23. Len(n.uids) <= Len(n.keys) /\ 1 <= n.nextUid
  <2>1. Len(n.uids) \in Nat
    BY <1>17, ListOf
  <2>2. Len(n.uids) <= Len(n.keys)
    BY <1>18, <2>1
  <2>3. 1 <= beyond
    BY <1>19, <1>8
  <2> QED
    BY <1>9, <2>2, <2>3
<1>24. Sound(n, f, o)
  BY <1>12, <1>17, <1>20, <1>21, <1>23 DEF Sound
<1> QED
  BY <1>6, <1>1, <1>12, <1>18, <1>22, <1>24 DEF ks
-----------------------------------------------------------------------------
(* The folder *)

LEMMA FilesOf ==
  ASSUME NEW f, NEW b \in Nat, Files(f, b)
  PROVE  /\ DOMAIN f \subseteq Nat /\ DOMAIN f \subseteq Nat \ {0} /\ IsFiniteSet(DOMAIN f)
         /\ \A k \in DOMAIN f : f[k] \in 1..b
         /\ \A k, l \in DOMAIN f : f[k] = f[l] => k = l
BY DEF Files, Range, IsInjective

LEMMA FilesAre ==
  ASSUME NEW f, NEW b, DOMAIN f \subseteq Nat \ {0}, IsFiniteSet(DOMAIN f),
         \A k \in DOMAIN f : f[k] \in 1..b,
         \A k, l \in DOMAIN f : f[k] = f[l] => k = l
  PROVE  Files(f, b)
BY DEF Files, Range, IsInjective

\* A new message comes behind all others.
LEMMA AboveAll ==
  ASSUME NEW S, S \subseteq Nat, IsFiniteSet(S)
  PROVE  Above(S) \in Nat \ {0} /\ Above(S) \notin S /\ \A k \in S : k < Above(S)
<1>1. CASE S = {}
  BY <1>1 DEF Above
<1>2. CASE S # {}
  <2>1. Max(S) \in S /\ \A k \in S : k <= Max(S)
    BY <1>2, MaxOf
  <2>2. Above(S) = Max(S) + 1 /\ Max(S) \in Nat
    BY <1>2, <2>1 DEF Above
  <2>3. \A k \in S : k < Above(S)
    BY <2>1, <2>2
  <2>4. Above(S) \notin S
    BY <2>2, <2>3
  <2> QED
    BY <2>2, <2>3, <2>4
<1> QED
  BY <1>1, <1>2

\* The folder g is f with one message more, c, whose key n is the highest.
Grown(f, g, n, c) ==
  /\ DOMAIN g = DOMAIN f \cup {n} /\ g[n] = c
  /\ \A k \in DOMAIN f : k < n /\ g[k] = f[k]

\* One message more.
LEMMA FilesGrow ==
  ASSUME NEW f, NEW b, b \in Nat, Files(f, b), NEW c, c \in Nat, b < c, NEW g, g = Added(f, c)
  PROVE  Files(g, c) /\ Grown(f, g, Above(DOMAIN f), c)
<1>1. PICK n : n = Above(DOMAIN f)
  OBVIOUS
<1>2. n \in Nat \ {0} /\ n \notin DOMAIN f /\ \A k \in DOMAIN f : k < n
  BY <1>1, FilesOf, AboveAll
<1>3. g = [k \in DOMAIN f \cup {n} |-> IF k = n THEN c ELSE f[k]]
  BY <1>1 DEF Added
<1>4. DOMAIN g = DOMAIN f \cup {n} /\ g[n] = c /\ \A k \in DOMAIN f : g[k] = f[k]
  BY <1>2, <1>3
<1>5. DOMAIN g \subseteq Nat \ {0} /\ IsFiniteSet(DOMAIN g)
  BY <1>2, <1>4, FilesOf, FS_AddElement
<1>6. 1..b \subseteq 1..c /\ c \in 1..c /\ c \notin 1..b
  OBVIOUS
<1>7. \A k \in DOMAIN g : g[k] \in 1..c
  BY <1>4, <1>6, FilesOf
<1>8. \A k, l \in DOMAIN g : g[k] = g[l] => k = l
  BY <1>4, <1>6, FilesOf
<1>9. Files(g, c)
  BY <1>5, <1>7, <1>8, FilesAre
<1> QED
  BY <1>1, <1>2, <1>4, <1>9 DEF Grown

\* Some messages fewer.
LEMMA FilesShrink ==
  ASSUME NEW f, NEW b \in Nat, Files(f, b), NEW K, NEW g, g = [k \in DOMAIN f \ K |-> f[k]]
  PROVE  Files(g, b) /\ DOMAIN g = DOMAIN f \ K /\ \A k \in DOMAIN g : g[k] = f[k]
<1>1. DOMAIN g = DOMAIN f \ K /\ \A k \in DOMAIN g : g[k] = f[k]
  OBVIOUS
<1>2. IsFiniteSet(DOMAIN g)
  BY <1>1, FilesOf, FS_Subset
<1>3. \A k, l \in DOMAIN g : g[k] = g[l] => k = l
  BY <1>1, FilesOf
<1>4. Files(g, b)
  BY <1>1, <1>2, <1>3, FilesOf, FilesAre
<1> QED
  BY <1>1, <1>4

\* The messages of a packed folder are those there were, in the order they were in.
LEMMA FilesPacked ==
  ASSUME NEW f, NEW b \in Nat, Files(f, b), NEW g, g = Packed(f)
  PROVE  /\ Files(g, b) /\ DOMAIN g = 1..Cardinality(DOMAIN f)
         /\ \A k \in DOMAIN f : Rank(DOMAIN f, k) \in DOMAIN g /\ g[Rank(DOMAIN f, k)] = f[k]
         /\ \A n \in DOMAIN g : \E k \in DOMAIN f : n = Rank(DOMAIN f, k)
<1> DEFINE K == DOMAIN f
           N == Cardinality(K)
<1>1. /\ K \subseteq Nat /\ IsFiniteSet(K)
      /\ \A k, l \in K : f[k] = f[l] => k = l
      /\ \A k \in K : f[k] \in 1..b
  BY FilesOf
<1>2. N \in Nat
  BY <1>1, AscendingLists
<1>3. DOMAIN g = 1..N /\ \A n \in 1..N : g[n] = f[Ascending(K)[n]]
  BY DEF Packed
<1> HIDE DEF N, K
<1>4. \A k \in K : Rank(K, k) \in 1..N /\ Ascending(K)[Rank(K, k)] = k
  BY <1>1, AscendingLists DEF N
<1>5. \A n \in 1..N : Rank(K, Ascending(K)[n]) = n /\ Ascending(K)[n] \in K
  <2>1. \A n \in 1..N : Rank(K, Ascending(K)[n]) = n
    BY <1>1, AscendingLists DEF N
  <2>2. Ascending(K) \in Seq(K) /\ Len(Ascending(K)) = N
    BY <1>1, AscendingLists DEF N
  <2>3. \A n \in 1..N : Ascending(K)[n] \in K
    BY <2>2, ListOf
  <2> QED
    BY <2>1, <2>3
<1>6. \A k \in K : Rank(K, k) \in DOMAIN g /\ g[Rank(K, k)] = f[k]
  BY <1>3, <1>4
<1>7. \A n \in DOMAIN g : \E k \in K : n = Rank(K, k)
  BY <1>3, <1>5
<1>8. ASSUME NEW n \in DOMAIN g, NEW p \in DOMAIN g, g[n] = g[p] PROVE n = p
  <2>1. f[Ascending(K)[n]] = f[Ascending(K)[p]]
    BY <1>3, <1>8
  <2>2. Ascending(K)[n] = Ascending(K)[p]
    BY <1>1, <1>3, <1>5, <2>1
  <2>3. Rank(K, Ascending(K)[n]) = Rank(K, Ascending(K)[p])
    BY <2>2
  <2> QED
    BY <1>3, <1>5, <2>3
<1>9. \A n \in DOMAIN g : g[n] \in 1..b
  BY <1>1, <1>3, <1>5
<1>10. DOMAIN g \subseteq Nat \ {0} /\ IsFiniteSet(DOMAIN g)
  <2>1. IsFiniteSet(1..N)
    BY <1>2, FS_Interval
  <2>2. 1..N \subseteq Nat \ {0}
    BY <1>2
  <2> QED
    BY <1>3, <2>1, <2>2
<1>11. Files(g, b)
  BY <1>8, <1>9, <1>10, FilesAre
<1> QED
  BY <1>3, <1>6, <1>7, <1>11 DEF K, N

\* A pack leaves the lists sound.
LEMMA SoundPacked ==
  ASSUME NEW f, NEW b \in Nat, Files(f, b), NEW m, NEW n, NEW o, Lists3(m), Sound(m, f, o),
         NEW g, g = Packed(f),
         n.keys = Ascending(DOMAIN g), n.uids = m.uids, n.nextUid = m.nextUid
  PROVE  Sound(n, g, o)
<1> DEFINE K == DOMAIN f
           N == Cardinality(K)
<1>1. /\ K \subseteq Nat /\ IsFiniteSet(K) /\ N \in Nat /\ DOMAIN g = 1..N
      /\ \A k \in K : Rank(K, k) \in 1..N /\ g[Rank(K, k)] = f[k]
  <2>1. K \subseteq Nat /\ IsFiniteSet(K)
    BY FilesOf
  <2>2. N \in Nat
    BY <2>1, AscendingLists
  <2>3. DOMAIN g = 1..N /\ \A k \in K : Rank(K, k) \in DOMAIN g /\ g[Rank(K, k)] = f[k]
    BY FilesPacked
  <2> QED
    BY <2>1, <2>2, <2>3
<1>2. DOMAIN g = 1..N /\ 1..N \subseteq Nat /\ IsFiniteSet(1..N)
  BY <1>1, FS_Interval
<1> HIDE DEF N, K
<1>3. PICK ks : ks = n.keys
  OBVIOUS
<1>4. ks \in Seq(Nat) /\ Rising(ks) /\ Range(ks) = 1..N /\ Len(ks) = N /\ DOMAIN ks = 1..N
  <2>1. ks = Ascending(1..N)
    BY <1>2, <1>3
  <2>2. Cardinality(1..N) = N
    BY <1>1, FS_Interval
  <2>3. ks \in Seq(Nat) /\ Rising(ks) /\ Range(ks) = 1..N /\ Len(ks) = N
    BY <1>2, <2>1, <2>2, AscendingLists
  <2> QED
    BY <2>3, ListOf
<1>5. Lowest(ks, DOMAIN g)
  BY <1>2, <1>4 DEF Lowest
<1>6. \A i \in 1..N : ks[i] = i
  <2> SUFFICES ASSUME NEW i \in 1..N PROVE ks[i] = i
    OBVIOUS
  <2>1. Rank(1..N, ks[i]) = i
    BY <1>2, <1>4, <1>5, LowestRanks
  <2>2. PICK k \in 1..N : k = ks[i]
    BY <1>4, ListOf
  <2>3. {j \in 1..N : j <= k} = 1..k /\ k \in Nat
    BY <1>1, <2>2
  <2>4. Cardinality(1..k) = k
    BY <2>3, FS_Interval
  <2>5. Rank(1..N, k) = k
    BY <2>3, <2>4 DEF Rank
  <2> QED
    BY <2>1, <2>2, <2>5
<1>7. /\ m.keys \in Seq(Nat) /\ Lowest(m.keys, K) /\ m.uids \in Seq(Nat)
      /\ Len(m.keys) \in Nat /\ DOMAIN m.keys = 1..Len(m.keys)
      /\ Len(m.uids) \in Nat /\ DOMAIN m.uids = 1..Len(m.uids)
      /\ Len(m.uids) <= Len(m.keys)
  BY ListOf DEF Lists3, Sound, K
<1>8. ASSUME NEW i \in DOMAIN m.keys PROVE i \in 1..N /\ g[i] = f[m.keys[i]]
  <2>1. Rank(K, m.keys[i]) = i
    BY <1>1, <1>7, LowestRanks
  <2>2. m.keys[i] \in K
    BY <1>7 DEF Lowest, Range
  <2> QED
    BY <1>1, <2>1, <2>2
<1>9. Len(n.uids) <= Len(ks)
  <2>1. CASE Len(m.keys) = 0
    BY <1>1, <1>4, <1>7, <2>1
  <2>2. CASE Len(m.keys) # 0
    <3>1. Len(m.keys) \in DOMAIN m.keys
      BY <1>7, <2>2
    <3>2. Len(m.keys) \in 1..N
      BY <1>8, <3>1
    <3> QED
      BY <1>1, <1>4, <1>7, <3>2
  <2> QED
    BY <2>1, <2>2
<1>10. ASSUME NEW i \in DOMAIN n.uids, n.uids[i] \in DOMAIN o
       PROVE  o[n.uids[i]] = g[ks[i]]
  <2>1. i \in DOMAIN m.keys
    <3>1. i \in 1..Len(m.uids)
      BY <1>7
    <3> QED
      BY <1>7, <3>1
  <2>2. g[ks[i]] = f[m.keys[i]]
    BY <1>6, <1>8, <2>1
  <2>3. o[m.uids[i]] = f[m.keys[i]]
    BY <1>10 DEF Sound
  <2> QED
    BY <2>2, <2>3
<1> QED
  BY <1>3, <1>5, <1>9, <1>10 DEF Sound

=============================================================================
