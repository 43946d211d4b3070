---------------------------- MODULE PagingProofs ----------------------------
(***************************************************************************)
(* What a first page holds, whichever of the possible arrangements it was  *)
(* cut from.                                                               *)
(***************************************************************************)
EXTENDS Paging, FiniteSetTheorems, SequenceTheorems, TLAPS

(* An arrangement of a finite set is a sequence that holds all of it.      *)
LEMMA Arrangement ==
    ASSUME NEW ids, IsFiniteSet(ids), NEW s \in SetToSeqs(ids)
    PROVE  /\ s \in Seq(ids)
           /\ Len(s) = Cardinality(ids)
           /\ DOMAIN s = 1..Cardinality(ids)
           /\ Cardinality(ids) \in Nat
           /\ \A i \in ids : \E k \in DOMAIN s : s[k] = i
           /\ \A a, b \in DOMAIN s : a # b => s[a] # s[b]
  <1> DEFINE n == Cardinality(ids)
  <1>1. n \in Nat
    BY FS_CardinalityType
  <1>2. s \in [1..n -> ids] /\ \A i, j \in 1..n : i # j => s[i] # s[j]
    BY DEF SetToSeqs
  <1>3. s \in Seq(ids) /\ Len(s) = n /\ DOMAIN s = 1..n
    BY <1>1, <1>2
  <1>4. s \in Injection(1..n, ids)
    BY <1>2 DEF Injection, IsInjective
  <1>5. Cardinality(1..n) = n
    BY <1>1, FS_Interval
  <1>6. s \in Surjection(1..n, ids)
    BY <1>4, <1>5, FS_Injection
  <1>7. \A i \in ids : \E k \in 1..n : s[k] = i
    BY <1>6 DEF Surjection
  <1>8. QED
    BY <1>1, <1>2, <1>3, <1>7

(* A first page in any order is of rows it was asked for, none twice, is   *)
(* no longer than the limit, and holds all of them when it is shorter.     *)
LEMMA ShortPage ==
    ASSUME NEW ids, IsFiniteSet(ids), NEW key, NEW direction, NEW limit \in Nat,
           NEW page \in Pages(ids, key, direction, limit, 0)
    PROVE  /\ page \in Seq(ids)
           /\ Len(page) <= limit
           /\ Len(page) < limit => ids \subseteq ToSet(page)
           /\ \A a, b \in DOMAIN page : a # b => page[a] # page[b]
  <1> DEFINE last(s) == IF limit < Len(s) THEN limit ELSE Len(s)
  <1>1. PICK s \in SetToSeqs(ids) : page = SubSeq(s, 1, last(s))
    <2>1. PICK s \in SetToSeqs(ids) :
            page = SubSeq(s, 0 + 1, IF 0 + limit < Len(s) THEN 0 + limit ELSE Len(s))
      BY DEF Pages
    <2>2. 0 + limit = limit /\ 0 + 1 = 1
      OBVIOUS
    <2>3. QED
      BY <2>1, <2>2
  <1>2. /\ s \in Seq(ids)
        /\ DOMAIN s = 1..Len(s)
        /\ Len(s) \in Nat
        /\ \A i \in ids : \E k \in 1..Len(s) : s[k] = i
        /\ \A a, b \in 1..Len(s) : a # b => s[a] # s[b]
    BY Arrangement
  <1> DEFINE n == Len(s)
             m == last(s)
  <1>3. n \in Nat /\ m \in 0..n /\ m <= limit /\ (m < limit => m = n)
    <2>1. n \in Nat /\ m = IF limit < n THEN limit ELSE n
      BY <1>2
    <2> HIDE DEF n, m
    <2>2. QED
      BY <2>1
  <1>4. \A i \in 1..n : s[i] \in ids
    BY <1>2
  <1>5. page = SubSeq(s, 1, m)
    BY <1>1
  <1> HIDE DEF m
  <1>6. /\ page \in Seq(ids)
        /\ Len(page) = m
        /\ \A i \in 1..m : page[i] = s[i]
    <2>1. m \in Int /\ m \in 0..Len(s)
      BY <1>3
    <2>2. /\ SubSeq(s, 1, m) \in Seq(ids)
          /\ Len(SubSeq(s, 1, m)) = IF 1 <= m THEN m - 1 + 1 ELSE 0
          /\ \A i \in 1..(m - 1 + 1) : SubSeq(s, 1, m)[i] = s[1 + i - 1]
      BY <1>2, <1>4, <2>1, SubSeqProperties
    <2>3. QED
      BY <1>3, <1>5, <2>2
  <1>7. DOMAIN page = 1..m
    BY <1>6
  <1>8. ASSUME m < limit, NEW i \in ids PROVE i \in ToSet(page)
    <2>1. PICK k \in 1..n : s[k] = i
      BY <1>2
    <2>2. k \in 1..m
      BY <1>3, <1>8
    <2>3. page[k] = i /\ k \in DOMAIN page
      BY <1>6, <1>7, <2>1, <2>2
    <2>4. QED
      BY <2>3 DEF ToSet
  <1>9. ASSUME NEW a \in 1..m, NEW b \in 1..m, a # b PROVE page[a] # page[b]
    <2>1. a \in 1..n /\ b \in 1..n
      BY <1>3
    <2>2. QED
      BY <1>2, <1>6, <1>9, <2>1
  <1>10. QED
    BY <1>3, <1>6, <1>7, <1>8, <1>9

(* A first page, newest first, is no longer than the limit, lists only     *)
(* rows it was asked for, none before one with a greater key, and leaves   *)
(* one out only if it is full and no row on it has a smaller key.          *)
LEMMA FirstPage ==
    ASSUME NEW ids, IsFiniteSet(ids), NEW key \in [ids -> Int], NEW limit \in Nat,
           NEW page \in Pages(ids, key, "DESC", limit, 0)
    PROVE  /\ page \in Seq(ids)
           /\ Len(page) <= limit
           /\ \A a, b \in DOMAIN page : a < b => key[page[a]] >= key[page[b]]
           /\ \A i \in ids : i \notin ToSet(page) =>
                /\ Len(page) = limit
                /\ \A k \in ToSet(page) : k \in ids /\ key[k] >= key[i]
  <1> DEFINE InOrder(s) == \A a, b \in DOMAIN s : a < b => key[s[a]] >= key[s[b]]
             last(s)    == IF limit < Len(s) THEN limit ELSE Len(s)
  <1>1. PICK s \in SetToSeqs(ids) : InOrder(s) /\ page = SubSeq(s, 1, last(s))
    <2>1. PICK s \in SetToSeqs(ids) :
            /\ \A a, b \in DOMAIN s : a < b => IF "DESC" = "DESC" THEN key[s[a]] >= key[s[b]]
                                                                  ELSE key[s[a]] <= key[s[b]]
            /\ page = SubSeq(s, 0 + 1, IF 0 + limit < Len(s) THEN 0 + limit ELSE Len(s))
      BY DEF Pages
    <2>2. 0 + limit = limit /\ 0 + 1 = 1
      OBVIOUS
    <2>3. QED
      BY <2>1, <2>2
  <1>2. s \in Seq(ids) /\ DOMAIN s = 1..Len(s) /\ Len(s) \in Nat
    BY Arrangement
  <1>2a. \A i \in ids : \E k \in 1..Len(s) : s[k] = i
    BY Arrangement
  <1> DEFINE m == last(s)
  <1>3. m \in 0..Len(s) /\ m <= limit /\ (m < Len(s) => m = limit)
    <2>1. Len(s) \in Nat
      BY <1>2
    <2> DEFINE len == Len(s)
    <2>2. len \in Nat /\ m = IF limit < len THEN limit ELSE len
      BY <2>1
    <2> HIDE DEF len, m
    <2>3. m \in 0..len /\ m <= limit /\ (m < len => m = limit)
      BY <2>2
    <2>4. QED
      BY <2>3 DEF len
  <1>4. \A i \in 1..Len(s) : s[i] \in ids
    BY <1>2
  <1>5. page = SubSeq(s, 1, m)
    BY <1>1
  <1> HIDE DEF m
  <1>6. /\ page \in Seq(ids)
        /\ Len(page) = m
        /\ \A i \in 1..m : page[i] = s[i]
    <2>1. m \in Int
      BY <1>2, <1>3
    <2>2. /\ SubSeq(s, 1, m) \in Seq(ids)
          /\ Len(SubSeq(s, 1, m)) = IF 1 <= m THEN m - 1 + 1 ELSE 0
          /\ \A i \in 1..(m - 1 + 1) : SubSeq(s, 1, m)[i] = s[1 + i - 1]
      BY <1>2, <1>3, <1>4, <2>1, SubSeqProperties
    <2>3. QED
      BY <1>2, <1>3, <1>5, <2>2
  <1>7. DOMAIN page = 1..m
    BY <1>6
  <1>8. ASSUME NEW a \in 1..m, NEW b \in 1..m, a < b
        PROVE  key[page[a]] >= key[page[b]]
    <2>1. a \in DOMAIN s /\ b \in DOMAIN s
      BY <1>2, <1>3
    <2>2. key[s[a]] >= key[s[b]]
      BY <1>1, <1>8, <2>1
    <2>3. QED
      BY <1>6, <2>2
  <1>9. ASSUME NEW i \in ids, i \notin ToSet(page)
        PROVE  /\ Len(page) = limit
               /\ \A k \in ToSet(page) : k \in ids /\ key[k] >= key[i]
    <2>1. PICK b \in 1..Len(s) : s[b] = i
      BY <1>2a
    <2>2. b > m
      <3>1. ASSUME b \in 1..m PROVE FALSE
        BY <1>6, <1>7, <1>9, <2>1, <3>1 DEF ToSet
      <3>2. QED
        BY <1>2, <1>3, <3>1
    <2>3. m = limit
      BY <1>2, <1>3, <2>2
    <2>4. ASSUME NEW k \in ToSet(page) PROVE k \in ids /\ key[k] >= key[i]
      <3>1. PICK a \in 1..m : k = s[a]
        BY <1>6, <1>7, <2>4 DEF ToSet
      <3>2. a < b /\ a \in DOMAIN s /\ b \in DOMAIN s
        BY <1>2, <1>3, <2>2, <3>1
      <3>3. QED
        BY <1>1, <1>4, <2>1, <3>1, <3>2
    <2>5. QED
      BY <1>6, <2>3, <2>4
  <1>10. QED
    BY <1>3, <1>6, <1>7, <1>8, <1>9
=============================================================================
