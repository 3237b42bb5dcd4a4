--------------------------- MODULE DequeTheorems ---------------------------
(***************************************************************************)
(* Facts about the deque idioms of module Deques: what push_back,          *)
(* pop_front, erase/remove and the sorted insert do to the elements of a   *)
(* deque, to their being distinct, and to their order; and what joining    *)
(* sequences and filtering them gives, which takes an induction.           *)
(***************************************************************************)
EXTENDS Deques, SequenceTheorems, WellFoundedInduction, TLAPS

(* The elements of a deque are those at its positions.                     *)
LEMMA InRange ==
    ASSUME NEW S, NEW s \in Seq(S), NEW y
    PROVE  y \in Range(s) <=> \E i \in 1 .. Len(s) : y = s[i]
  BY LenProperties DEF Range

(* std::deque::pop_front: the front leaves, the others stay in their order *)
(* (RunLoop.cpp:24-25, 33-34, 51-52).                                      *)
LEMMA PopFront ==
    ASSUME NEW S, NEW s \in Seq(S), s # <<>>
    PROVE  /\ Head(s) \in S /\ Tail(s) \in Seq(S)
           /\ Head(s) \in Range(s)
           /\ Range(s) = {Head(s)} \cup Range(Tail(s))
           /\ Distinct(s) => Distinct(Tail(s)) /\ Head(s) \notin Range(Tail(s))
<1>1. /\ Head(s) \in S /\ Tail(s) \in Seq(S)
      /\ Len(Tail(s)) = Len(s) - 1
      /\ \A i \in 1 .. Len(Tail(s)) : Tail(s)[i] = s[i+1]
  BY HeadTailProperties
<1>2. Len(s) \in Nat /\ Len(s) >= 1 /\ Head(s) = s[1]
  BY LenProperties
<1>3. Head(s) \in Range(s)
  BY <1>2, InRange
<1>4. ASSUME NEW y \in Range(s), y # Head(s)
      PROVE  y \in Range(Tail(s))
  <2>1. PICK i \in 1 .. Len(s) : y = s[i]
    BY InRange
  <2>2. i - 1 \in 1 .. Len(Tail(s)) /\ Tail(s)[i-1] = y
    BY <1>1, <1>2, <1>4, <2>1
  <2>3. QED
    BY <1>1, <2>2, InRange
<1>5. Range(Tail(s)) \subseteq Range(s)
  <2>1. SUFFICES ASSUME NEW y \in Range(Tail(s)) PROVE y \in Range(s)
    OBVIOUS
  <2>2. PICK i \in 1 .. Len(Tail(s)) : y = Tail(s)[i]
    BY <1>1, InRange
  <2>3. i + 1 \in 1 .. Len(s) /\ y = s[i+1]
    BY <1>1, <1>2, <2>2
  <2>4. QED
    BY <2>3, InRange
<1>6. ASSUME Distinct(s)
      PROVE  Distinct(Tail(s)) /\ Head(s) \notin Range(Tail(s))
  <2>1. Distinct(Tail(s))
    <3>1. SUFFICES ASSUME NEW i \in 1 .. Len(Tail(s)), NEW j \in 1 .. Len(Tail(s)),
                          i # j
                   PROVE  Tail(s)[i] # Tail(s)[j]
      BY DEF Distinct
    <3>2. i + 1 \in 1 .. Len(s) /\ j + 1 \in 1 .. Len(s) /\ i + 1 # j + 1
      BY <1>1, <1>2, <3>1
    <3>3. QED
      BY <1>1, <1>6, <3>2 DEF Distinct
  <2>2. ASSUME Head(s) \in Range(Tail(s)) PROVE FALSE
    <3>1. PICK i \in 1 .. Len(Tail(s)) : Head(s) = Tail(s)[i]
      BY <1>1, <2>2, InRange
    <3>2. i + 1 \in 1 .. Len(s) /\ 1 \in 1 .. Len(s) /\ i + 1 # 1 /\ s[i+1] = s[1]
      BY <1>1, <1>2, <3>1
    <3>3. QED
      BY <1>6, <3>2 DEF Distinct
  <2>3. QED
    BY <2>1, <2>2
<1>7. QED
  BY <1>1, <1>3, <1>4, <1>5, <1>6

(* std::deque::push_back (RunLoop.cpp:68).                                 *)
LEMMA PushBack ==
    ASSUME NEW S, NEW s \in Seq(S), NEW x \in S
    PROVE  /\ Append(s, x) \in Seq(S)
           /\ Append(s, x) # <<>>
           /\ Range(Append(s, x)) = Range(s) \cup {x}
           /\ s # <<>> => Head(Append(s, x)) = Head(s)
           /\ Distinct(s) /\ x \notin Range(s) => Distinct(Append(s, x))
<1> DEFINE a == Append(s, x)
<1>1. /\ a \in Seq(S) /\ a # <<>>
      /\ Len(a) = Len(s) + 1
      /\ \A i \in 1 .. Len(s) : a[i] = s[i]
      /\ a[Len(s) + 1] = x
  BY AppendProperties
<1>2. Len(s) \in Nat
  BY LenProperties
<1> HIDE DEF a
<1>3. Range(a) \subseteq Range(s) \cup {x}
  <2>1. SUFFICES ASSUME NEW y \in Range(a), y # x PROVE y \in Range(s)
    OBVIOUS
  <2>2. PICK i \in 1 .. Len(a) : y = a[i]
    BY <1>1, InRange
  <2>3. i \in 1 .. Len(s)
    BY <1>1, <1>2, <2>1, <2>2
  <2>4. QED
    BY <1>1, <2>2, <2>3, InRange
<1>4. Range(s) \subseteq Range(a)
  <2>1. SUFFICES ASSUME NEW y \in Range(s) PROVE y \in Range(a)
    OBVIOUS
  <2>2. PICK i \in 1 .. Len(s) : y = s[i]
    BY InRange
  <2>3. i \in 1 .. Len(a) /\ y = a[i]
    BY <1>1, <1>2, <2>2
  <2>4. QED
    BY <1>1, <2>3, InRange
<1>5. x \in Range(a)
  <2>1. Len(s) + 1 \in 1 .. Len(a)
    BY <1>1, <1>2
  <2>2. QED
    BY <1>1, <2>1, InRange
<1>6. ASSUME Distinct(s), x \notin Range(s) PROVE Distinct(a)
  <2>1. SUFFICES ASSUME NEW i \in 1 .. Len(a), NEW j \in 1 .. Len(a), i # j
                 PROVE  a[i] # a[j]
    BY DEF Distinct
  <2>2. \A k \in 1 .. Len(s) : s[k] # x
    BY <1>6, InRange
  <2>3. CASE i \in 1 .. Len(s) /\ j \in 1 .. Len(s)
    BY <1>1, <1>6, <2>1, <2>3 DEF Distinct
  <2>4. CASE i = Len(s) + 1 /\ j \in 1 .. Len(s)
    BY <1>1, <2>2, <2>4
  <2>5. CASE j = Len(s) + 1 /\ i \in 1 .. Len(s)
    BY <1>1, <2>2, <2>5
  <2>6. QED
    BY <1>1, <1>2, <2>1, <2>3, <2>4, <2>5
<1>7. s # <<>> => Head(a) = Head(s)
  <2>1. SUFFICES ASSUME s # <<>> PROVE Head(a) = Head(s)
    OBVIOUS
  <2>2. 1 \in 1 .. Len(s) /\ Head(s) = s[1] /\ Head(a) = a[1]
    BY <1>1, <1>2, <2>1
  <2>3. QED
    BY <1>1, <2>2
<1>8. QED
  BY <1>1, <1>3, <1>4, <1>5, <1>6, <1>7 DEF a
(* erase/remove: the element leaves, and nothing else does                 *)
(* (RunLoop.cpp:77-79, 91-93).                                             *)
LEMMA EraseProperties ==
    ASSUME NEW S, NEW s \in Seq(S), NEW x
    PROVE  /\ Erase(s, x) \in Seq(S)
           /\ x \notin Range(s) => Erase(s, x) = s
           /\ Distinct(s) => Distinct(Erase(s, x)) /\ Range(Erase(s, x)) = Range(s) \ {x}
<1>1. CASE x \notin Range(s)
  BY <1>1 DEF Erase
<1>2. CASE x \in Range(s)
  <2> DEFINE e == Erase(s, x)
             n == Len(s)
             p == IndexOf(s, x)
  <2>1. n \in Nat /\ \A i \in 1 .. n : s[i] \in S
    BY LenProperties
  <2>2. p \in 1 .. n /\ s[p] = x
    <3>1. \E i \in 1 .. Len(s) : s[i] = x
      BY <1>2, InRange
    <3>2. QED
      BY <3>1 DEF IndexOf
  <2>3. e = [j \in 1 .. n - 1 |-> IF j < p THEN s[j] ELSE s[j+1]]
    BY <1>2 DEF Erase
  <2> HIDE DEF e, n, p
  <2>4. \A j \in 1 .. n - 1 : /\ e[j] = IF j < p THEN s[j] ELSE s[j+1]
                              /\ e[j] \in S
    BY <2>1, <2>2, <2>3
  <2>5. e \in [1 .. n - 1 -> S] /\ n - 1 \in Nat
    <3>1. n - 1 \in Nat
      BY <2>1, <2>2
    <3>2. QED
      BY <2>1, <2>2, <2>3, <3>1
  <2>6. e \in Seq(S) /\ Len(e) = n - 1
    BY <2>5, IsASeq, LenProperties
  <2>7. ASSUME Distinct(s) PROVE Distinct(e) /\ Range(e) = Range(s) \ {x}
    <3>1. \A i, j \in 1 .. n : i # j => s[i] # s[j]
      BY <2>7 DEF Distinct, n
    <3>2. ASSUME NEW i \in 1 .. n - 1, NEW j \in 1 .. n - 1, i # j
          PROVE  e[i] # e[j]
      <4>1. CASE i < p /\ j < p
        BY <2>1, <2>4, <3>1, <3>2, <4>1
      <4>2. CASE i < p /\ ~(j < p)
        <5>1. j + 1 \in 1 .. n /\ i \in 1 .. n /\ i # j + 1
          BY <2>1, <2>2, <4>2
        <5>2. QED
          BY <2>4, <3>1, <4>2, <5>1
      <4>3. CASE ~(i < p) /\ j < p
        <5>1. i + 1 \in 1 .. n /\ j \in 1 .. n /\ i + 1 # j
          BY <2>1, <2>2, <4>3
        <5>2. QED
          BY <2>4, <3>1, <4>3, <5>1
      <4>4. CASE ~(i < p) /\ ~(j < p)
        <5>1. i + 1 \in 1 .. n /\ j + 1 \in 1 .. n /\ i + 1 # j + 1
          BY <2>1, <3>2
        <5>2. QED
          BY <2>4, <3>1, <4>4, <5>1
      <4>5. QED
        BY <4>1, <4>2, <4>3, <4>4
    <3>3. Distinct(e)
      BY <2>6, <3>2 DEF Distinct
    <3>4. ASSUME NEW y \in Range(e) PROVE y \in Range(s) \ {x}
      <4>1. PICK j \in 1 .. n - 1 : y = e[j]
        BY <2>6, InRange
      <4>2. \E i \in 1 .. n : i # p /\ y = s[i]
        <5>1. CASE j < p
          BY <2>1, <2>2, <2>4, <4>1, <5>1
        <5>2. CASE ~(j < p)
          <6>1. j + 1 \in 1 .. n /\ j + 1 # p /\ y = s[j+1]
            BY <2>1, <2>2, <2>4, <4>1, <5>2
          <6>2. QED
            BY <6>1
        <5>3. QED
          BY <5>1, <5>2
      <4>3. PICK i \in 1 .. n : i # p /\ y = s[i]
        BY <4>2
      <4>4. y # x
        BY <2>2, <3>1, <4>3
      <4>5. QED
        BY <4>3, <4>4, InRange DEF n
    <3>5. ASSUME NEW y \in Range(s), y # x PROVE y \in Range(e)
      <4>1. PICK i \in 1 .. n : y = s[i]
        BY InRange DEF n
      <4>2. i # p
        BY <2>2, <3>5, <4>1
      <4>3. CASE i < p
        <5>1. i \in 1 .. n - 1 /\ y = e[i]
          BY <2>1, <2>2, <2>4, <4>1, <4>3
        <5>2. QED
          BY <2>6, <5>1, InRange
      <4>4. CASE i > p
        <5>1. i - 1 \in 1 .. n - 1 /\ y = e[i-1]
          <6>1. i - 1 \in 1 .. n - 1 /\ ~(i - 1 < p) /\ (i - 1) + 1 = i
            BY <2>1, <2>2, <4>4
          <6>2. QED
            BY <2>4, <4>1, <6>1
        <5>2. QED
          BY <2>6, <5>1, InRange
      <4>5. QED
        BY <2>1, <2>2, <4>2, <4>3, <4>4
    <3>6. QED
      BY <3>3, <3>4, <3>5
  <2>8. QED
    BY <1>2, <2>6, <2>7 DEF e
<1>3. QED
  BY <1>1, <1>2

(* lower_bound finds a position: the first key that is not less, if any.   *)
LEMMA LowerBoundProperties ==
    ASSUME NEW S, NEW s \in Seq(S), NEW key \in [S -> Int], NEW k \in Int
    PROVE  LET p == LowerBound(s, key, k)
           IN  /\ p \in 1 .. Len(s) + 1
               /\ p <= Len(s) => key[s[p]] >= k
               /\ \A j \in 1 .. p - 1 : key[s[j]] < k
<1> DEFINE n == Len(s)
           T == {j \in 1 .. n + 1 : j <= n => key[s[j]] >= k}
<1>1. n \in Nat /\ \A i \in 1 .. n : s[i] \in S /\ key[s[i]] \in Int
  BY LenProperties
<1>2. T # {} /\ T \subseteq Nat
  <2>1. n + 1 \in T
    BY <1>1
  <2>2. QED
    BY <1>1, <2>1
<1>3. PICK p \in T : \A q \in T : ~(<<q, p>> \in OpToRel(<, Nat))
  <2>1. IsWellFoundedOn(OpToRel(<, Nat), Nat)
    BY NatLessThanWellFounded
  <2> DEFINE R == OpToRel(<, Nat)
  <2> HIDE DEF R, T
  <2>2. \E p \in T : \A q \in T : ~(<<q, p>> \in R)
    BY <1>2, <2>1, WFMin DEF R
  <2>3. QED
    BY <2>2 DEF R
<1>4. \A q \in T : ~(q < p)
  BY <1>2, <1>3 DEF OpToRel
<1>5. \A j \in 1 .. p - 1 : key[s[j]] < k
  <2>1. SUFFICES ASSUME NEW j \in 1 .. p - 1, ~(key[s[j]] < k) PROVE FALSE
    OBVIOUS
  <2>2. p \in 1 .. n + 1
    OBVIOUS
  <2>3. j \in 1 .. n /\ j < p
    BY <1>1, <2>2
  <2>4. j \in T
    BY <1>1, <2>1, <2>3
  <2>5. QED
    BY <1>4, <2>3, <2>4
<1>6. QED
  BY <1>5 DEF LowerBound

(* What an insert gives is a deque again, whatever the order was.          *)
LEMMA InsertType ==
    ASSUME NEW S, NEW s \in Seq(S), NEW key \in [S -> Int], NEW x \in S, NEW k \in Int
    PROVE  InsertBefore(s, LowerBound(s, key, k), x) \in Seq(S)
<1> DEFINE n == Len(s)
           p == LowerBound(s, key, k)
           r == InsertBefore(s, p, x)
<1>1. n \in Nat /\ \A i \in 1 .. n : s[i] \in S
  BY LenProperties
<1>2. p \in 1 .. n + 1
  BY LowerBoundProperties
<1>3. r = [j \in 1 .. n + 1 |-> IF j < p THEN s[j] ELSE IF j = p THEN x ELSE s[j-1]]
  BY DEF InsertBefore
<1> HIDE DEF n, p, r
<1>4. ASSUME NEW j \in 1 .. n + 1 PROVE r[j] \in S
  <2>1. CASE j < p
    BY <1>1, <1>2, <1>3, <2>1
  <2>2. CASE j = p
    BY <1>3, <2>2
  <2>3. CASE j > p
    BY <1>1, <1>2, <1>3, <2>3
  <2>4. QED
    BY <1>1, <1>2, <2>1, <2>2, <2>3
<1>5. r \in [1 .. n + 1 -> S] /\ n + 1 \in Nat
  BY <1>1, <1>3, <1>4
<1>6. \A m \in Nat : r \in [1 .. m -> S] => r \in Seq(S)
  BY SeqDef
<1>7. QED
  BY <1>5, <1>6 DEF n, p, r

(* The sorted insert of a timer: it is a permutation that adds one element *)
(* and keeps the order of the keys (RunLoop.cpp:84-86).                    *)
LEMMA InsertProperties ==
    ASSUME NEW S, NEW s \in Seq(S), NEW key \in [S -> Int], NEW x \in S,
           NEW newKey \in [S -> Int], x \notin Range(s),
           \A y \in S : y # x => newKey[y] = key[y]
    PROVE  LET r == InsertBefore(s, LowerBound(s, key, newKey[x]), x)
           IN  /\ r \in Seq(S) /\ r # <<>>
               /\ Distinct(s) => Distinct(r)
               /\ Ordered(s, key) => Ordered(r, newKey)
<1> DEFINE n == Len(s)
           k == newKey[x]
           p == LowerBound(s, key, k)
           r == InsertBefore(s, p, x)
<1>1. n \in Nat /\ k \in Int /\ \A i \in 1 .. n : s[i] \in S /\ s[i] # x
  BY LenProperties, InRange
<1>2. /\ p \in 1 .. n + 1
      /\ p <= n => key[s[p]] >= k
      /\ \A j \in 1 .. p - 1 : key[s[j]] < k
  BY <1>1, LowerBoundProperties
<1>3. r = [j \in 1 .. n + 1 |-> IF j < p THEN s[j] ELSE IF j = p THEN x ELSE s[j-1]]
  BY DEF InsertBefore
<1> HIDE DEF n, k, p, r
<1>4. /\ \A j \in 1 .. n + 1 : j < p => j \in 1 .. n /\ r[j] = s[j]
      /\ r[p] = x
      /\ \A j \in 1 .. n + 1 : j > p => j - 1 \in 1 .. n /\ r[j] = s[j-1]
  BY <1>1, <1>2, <1>3
<1>5. r \in Seq(S) /\ Len(r) = n + 1
  <2>1. ASSUME NEW j \in 1 .. n + 1 PROVE r[j] \in S
    <3>1. CASE j < p
      BY <1>1, <1>4, <3>1
    <3>2. CASE j = p
      BY <1>4, <3>2
    <3>3. CASE j > p
      BY <1>1, <1>4, <3>3
    <3>4. QED
      BY <1>1, <1>2, <3>1, <3>2, <3>3
  <2>2. r \in [1 .. n + 1 -> S] /\ n + 1 \in Nat
    BY <1>1, <1>3, <2>1
  <2>3. r \in Seq(S)
    <3>1. \A m \in Nat : r \in [1 .. m -> S] => r \in Seq(S)
      BY SeqDef
    <3>2. QED
      BY <2>2, <3>1
  <2>4. DOMAIN r = 1 .. n + 1 /\ DOMAIN r = 1 .. Len(r) /\ Len(r) \in Nat
    BY <2>2, <2>3, LenProperties
  <2>5. QED
    BY <2>2, <2>3, <2>4
<1>6. r # <<>>
  BY <1>1, <1>5
<1>7. ASSUME Distinct(s) PROVE Distinct(r)
  <2>1. \A i, j \in 1 .. n : i # j => s[i] # s[j]
    BY <1>7 DEF Distinct, n
  <2>2. ASSUME NEW a \in 1 .. n + 1, NEW b \in 1 .. n + 1, a < b
        PROVE  r[a] # r[b]
    <3>1. CASE b < p
      <4>1. a < p
        BY <1>1, <1>2, <2>2, <3>1
      <4>2. QED
        BY <1>4, <2>1, <2>2, <3>1, <4>1
    <3>2. CASE b = p
      BY <1>1, <1>4, <2>2, <3>2
    <3>3. CASE b > p
      <4>1. b - 1 \in 1 .. n /\ r[b] = s[b-1]
        BY <1>4, <3>3
      <4>2. CASE a < p
        <5>1. a \in 1 .. n /\ r[a] = s[a] /\ a # b - 1
          BY <1>2, <1>4, <2>2, <3>3, <4>2
        <5>2. QED
          BY <2>1, <4>1, <5>1
      <4>3. CASE a = p
        BY <1>1, <1>4, <4>1, <4>3
      <4>4. CASE a > p
        <5>1. a - 1 \in 1 .. n /\ r[a] = s[a-1] /\ a - 1 # b - 1
          BY <1>4, <2>2, <4>4
        <5>2. QED
          BY <2>1, <4>1, <5>1
      <4>5. QED
        BY <1>1, <1>2, <4>2, <4>3, <4>4
    <3>4. QED
      BY <1>1, <1>2, <3>1, <3>2, <3>3
  <2>3. ASSUME NEW i \in 1 .. n + 1, NEW j \in 1 .. n + 1, i # j
        PROVE  r[i] # r[j]
    <3>1. CASE i < j
      BY <2>2, <3>1
    <3>2. CASE j < i
      BY <2>2, <3>2
    <3>3. QED
      BY <1>1, <2>3, <3>1, <3>2
  <2>4. QED
    BY <1>5, <2>3 DEF Distinct
<1>8. ASSUME Ordered(s, key) PROVE Ordered(r, newKey)
  <2>1. \A i, j \in 1 .. n : i < j => key[s[i]] <= key[s[j]]
    BY <1>8 DEF Ordered, n
  <2>2. \A i \in 1 .. n : key[s[i]] \in Int /\ newKey[s[i]] = key[s[i]]
    BY <1>1
  <2>3. SUFFICES ASSUME NEW a \in 1 .. n + 1, NEW b \in 1 .. n + 1, a < b
                 PROVE  newKey[r[a]] <= newKey[r[b]]
    BY <1>5 DEF Ordered
  <2>4. CASE b < p
    <3>1. a < p
      BY <1>1, <1>2, <2>3, <2>4
    <3>2. a \in 1 .. n /\ b \in 1 .. n /\ r[a] = s[a] /\ r[b] = s[b]
      BY <1>4, <2>4, <3>1
    <3>3. key[s[a]] <= key[s[b]]
      BY <2>1, <2>3, <3>2
    <3>4. QED
      BY <2>2, <3>2, <3>3
  <2>5. CASE b = p
    <3>1. a \in 1 .. p - 1 /\ a \in 1 .. n /\ r[a] = s[a] /\ r[b] = x
      BY <1>1, <1>2, <1>4, <2>3, <2>5
    <3>2. key[s[a]] < k /\ newKey[r[a]] = key[s[a]] /\ newKey[r[b]] = k
      BY <1>2, <2>2, <3>1 DEF k
    <3>3. QED
      BY <1>1, <2>2, <3>1, <3>2
  <2>6. CASE b > p
    <3>1. b - 1 \in 1 .. n /\ r[b] = s[b-1]
      BY <1>4, <2>6
    <3>2. CASE a < p
      <4>1. a < b - 1 \/ a = b - 1
        BY <1>1, <1>2, <1>4, <2>3, <2>6, <3>2
      <4>2. a \in 1 .. n /\ r[a] = s[a]
        BY <1>4, <3>2
      <4>3. QED
        BY <2>1, <2>2, <3>1, <4>1, <4>2
    <3>3. CASE a = p
      <4>1. p <= n /\ key[s[p]] >= k /\ p \in 1 .. n
        BY <1>1, <1>2, <2>3, <2>6
      <4>2. key[s[p]] <= key[s[b-1]]
        <5>1. CASE p = b - 1
          BY <2>2, <3>1, <4>1, <5>1
        <5>2. CASE p < b - 1
          BY <2>1, <3>1, <4>1, <5>2
        <5>3. QED
          BY <1>1, <1>2, <2>6, <3>1, <5>1, <5>2
      <4>3. newKey[r[a]] = k /\ newKey[r[b]] = key[s[b-1]]
        BY <1>4, <2>2, <3>1, <3>3 DEF k
      <4>4. k \in Int /\ key[s[p]] \in Int /\ key[s[b-1]] \in Int
        BY <1>1, <2>2, <3>1, <4>1
      <4>5. k <= key[s[b-1]]
        BY <4>1, <4>2, <4>4
      <4>6. QED
        BY <4>3, <4>5
    <3>4. CASE a > p
      <4>1. a - 1 \in 1 .. n /\ r[a] = s[a-1] /\ a - 1 < b - 1
        BY <1>4, <2>3, <3>4
      <4>2. QED
        BY <2>1, <2>2, <3>1, <4>1
    <3>5. QED
      BY <1>1, <1>2, <3>2, <3>3, <3>4
  <2>7. QED
    BY <1>1, <1>2, <2>4, <2>5, <2>6
<1>9. QED
  BY <1>5, <1>6, <1>7, <1>8 DEF n, k, p, r

(* pop_front and erase/remove keep the order of the keys, and what is not  *)
(* less than the front is at the front's place or behind it.               *)
LEMMA OrderedPopFront ==
    ASSUME NEW S, NEW s \in Seq(S), NEW key \in [S -> Int], s # <<>>, Ordered(s, key)
    PROVE  /\ Ordered(Tail(s), key)
           /\ \A y \in Range(s) : key[Head(s)] <= key[y]
<1>1. /\ Len(Tail(s)) = Len(s) - 1
      /\ \A i \in 1 .. Len(Tail(s)) : Tail(s)[i] = s[i+1]
  BY HeadTailProperties
<1>2. /\ Len(s) \in Nat /\ Len(s) >= 1 /\ Head(s) = s[1]
      /\ \A i \in 1 .. Len(s) : s[i] \in S /\ key[s[i]] \in Int
  BY LenProperties
<1>3. Ordered(Tail(s), key)
  <2>1. SUFFICES ASSUME NEW i \in 1 .. Len(Tail(s)), NEW j \in 1 .. Len(Tail(s)), i < j
                 PROVE  key[Tail(s)[i]] <= key[Tail(s)[j]]
    BY DEF Ordered
  <2>2. i + 1 \in 1 .. Len(s) /\ j + 1 \in 1 .. Len(s) /\ i + 1 < j + 1
    BY <1>1, <1>2, <2>1
  <2>3. QED
    BY <1>1, <2>2 DEF Ordered
<1>4. ASSUME NEW y \in Range(s) PROVE key[Head(s)] <= key[y]
  <2>1. PICK i \in 1 .. Len(s) : y = s[i]
    BY InRange
  <2>2. CASE i = 1
    BY <1>2, <2>1, <2>2
  <2>3. CASE i > 1
    BY <1>2, <2>1, <2>3 DEF Ordered
  <2>4. QED
    BY <1>2, <2>2, <2>3
<1>5. QED
  BY <1>3, <1>4

(* Erasing an element keeps the order of the keys of the others            *)
(* (RunLoop.cpp:91-93).                                                    *)
LEMMA OrderedErase ==
    ASSUME NEW S, NEW s \in Seq(S), NEW key \in [S -> Int], NEW x, Ordered(s, key)
    PROVE  Ordered(Erase(s, x), key)
<1>1. CASE x \notin Range(s)
  BY <1>1 DEF Erase
<1>2. CASE x \in Range(s)
  <2> DEFINE n == Len(s)
             p == IndexOf(s, x)
             e == Erase(s, x)
  <2>1. n \in Nat
    BY LenProperties
  <2>2. p \in 1 .. n
    <3>1. \E i \in 1 .. Len(s) : s[i] = x
      BY <1>2, InRange
    <3>2. QED
      BY <3>1 DEF IndexOf
  <2>3. e = [j \in 1 .. n - 1 |-> IF j < p THEN s[j] ELSE s[j+1]]
    BY <1>2 DEF Erase
  <2>4. e \in Seq(S)
    BY EraseProperties
  <2> HIDE DEF n, p, e
  <2>5. Len(e) = n - 1
    BY <2>1, <2>2, <2>3, <2>4, LenProperties
  <2>6. SUFFICES ASSUME NEW i \in 1 .. n - 1, NEW j \in 1 .. n - 1, i < j
                 PROVE  key[e[i]] <= key[e[j]]
    BY <2>5 DEF Ordered, e
  <2>7. \E a, b \in 1 .. n : a < b /\ e[i] = s[a] /\ e[j] = s[b]
    <3>1. CASE i < p /\ j < p
      <4>1. i \in 1 .. n /\ j \in 1 .. n /\ e[i] = s[i] /\ e[j] = s[j]
        BY <2>1, <2>3, <3>1
      <4>2. QED
        BY <2>6, <4>1
    <3>2. CASE i < p /\ ~(j < p)
      <4>1. i \in 1 .. n /\ j + 1 \in 1 .. n /\ i < j + 1 /\ e[i] = s[i] /\ e[j] = s[j+1]
        BY <2>1, <2>3, <2>6, <3>2
      <4>2. QED
        BY <4>1
    <3>3. CASE ~(i < p) /\ ~(j < p)
      <4>1. /\ i + 1 \in 1 .. n /\ j + 1 \in 1 .. n /\ i + 1 < j + 1
            /\ e[i] = s[i+1] /\ e[j] = s[j+1]
        BY <2>1, <2>3, <2>6, <3>3
      <4>2. QED
        BY <4>1
    <3>4. QED
      BY <2>1, <2>2, <2>6, <3>1, <3>2, <3>3
  <2>8. QED
    BY <2>7 DEF Ordered, n
<1>3. QED
  BY <1>1, <1>2

(* The order does not depend on the keys of what is not in the deque.      *)
LEMMA OrderedOther ==
    ASSUME NEW S, NEW s \in Seq(S), NEW key \in [S -> Int], NEW x, NEW k,
           x \notin Range(s), Ordered(s, key)
    PROVE  Ordered(s, [key EXCEPT ![x] = k])
<1>1. \A i \in 1 .. Len(s) : s[i] \in S /\ s[i] # x
  BY LenProperties, InRange
<1>2. \A i \in 1 .. Len(s) : [key EXCEPT ![x] = k][s[i]] = key[s[i]]
  BY <1>1
<1>3. QED
  BY <1>2 DEF Ordered

-----------------------------------------------------------------------------
(* Induction over the naturals, for a set instead of a predicate, from     *)
(* there being a least number that is not in it.                           *)
LEMMA LessThan ==
    \E R : /\ IsWellFoundedOn(R, Nat)
           /\ \A x, y \in Nat : <<x, y>> \in R <=> x < y
<1> DEFINE Below == OpToRel(<, Nat)
<1>1. IsWellFoundedOn(Below, Nat)
  BY NatLessThanWellFounded
<1>2. \A x, y \in Nat : <<x, y>> \in Below <=> x < y
  BY DEF OpToRel
<1> HIDE DEF Below
<1> QED
  BY <1>1, <1>2

(* Every set of numbers has a least one.                                   *)
LEMMA Least ==
    ASSUME NEW S, S \subseteq Nat, S # {}
    PROVE  \E x \in S : \A y \in S : x =< y
<1>1. PICK R : /\ IsWellFoundedOn(R, Nat)
               /\ \A x, y \in Nat : <<x, y>> \in R <=> x < y
  BY LessThan
<1>2. IsWellFoundedOn(R, Nat)
  BY <1>1
<1>3. \E x \in S : \A y \in S : ~(<<y, x>> \in R)
  BY <1>2, WFMin, Zenon
<1>4. \A x, y \in Nat : ~(<<y, x>> \in R) => x =< y
  BY <1>1
<1> QED
  BY <1>3, <1>4

(* Induction.                                                              *)
LEMMA Induction ==
    ASSUME NEW S, 0 \in S, \A n \in Nat : n \in S => n + 1 \in S
    PROVE  \A n \in Nat : n \in S
<1> SUFFICES ASSUME NEW m \in Nat, m \notin S PROVE FALSE
  OBVIOUS
<1> DEFINE T == Nat \ S
<1>1. PICK n \in T : \A k \in T : n =< k
  BY Least
<1>2. n # 0 /\ n - 1 \in Nat /\ n - 1 \notin T
  BY <1>1
<1> QED
  BY <1>2, <1>1

(* f is the function FlattenSeq defines by recursion, on the first n.      *)
IsFlattening(f, ss, n) ==
    f = [i \in 1 .. n |-> IF i = 1 THEN ss[i] ELSE f[i - 1] \o ss[i]]

(* It exists, which the definition alone does not say.                     *)
LEMMA FlatteningExists ==
    ASSUME NEW ss
    PROVE  \A n \in Nat : \E f : IsFlattening(f, ss, n)
<1> DEFINE S == {n \in Nat : \E f : IsFlattening(f, ss, n)}
<1>1. 0 \in S
  <2> DEFINE f == [i \in 1 .. 0 |-> ss]
  <2>1. IsFlattening(f, ss, 0)
    BY DEF IsFlattening
  <2> QED
    BY <2>1
<1>2. ASSUME NEW n \in Nat, n \in S PROVE n + 1 \in S
  <2>1. PICK f : IsFlattening(f, ss, n)
    BY <1>2
  <2> DEFINE last == IF n = 0 THEN ss[1] ELSE f[n] \o ss[n + 1]
             g == [i \in 1 .. n + 1 |-> IF i = n + 1 THEN last ELSE f[i]]
  <2>2. \A i \in 1 .. n : f[i] = IF i = 1 THEN ss[i] ELSE f[i - 1] \o ss[i]
    BY <2>1 DEF IsFlattening
  <2>3. \A i \in 1 .. n + 1 : g[i] = IF i = 1 THEN ss[i] ELSE g[i - 1] \o ss[i]
    BY <2>2
  <2>4. IsFlattening(g, ss, n + 1)
    BY <2>3 DEF IsFlattening
  <2> QED
    BY <2>4
<1> HIDE DEF S
<1>3. \A n \in Nat : n \in S
  BY <1>1, <1>2, Induction
<1> QED
  BY <1>3 DEF S

(* So FlattenSeq is what its recursion says.                               *)
LEMMA FlattenDef ==
    ASSUME NEW S, NEW ss \in Seq(Seq(S))
    PROVE  /\ ss = <<>> => FlattenSeq(ss) = <<>>
           /\ ss # <<>> => \E f : /\ IsFlattening(f, ss, Len(ss))
                                  /\ FlattenSeq(ss) = f[Len(ss)]
<1>1. Len(ss) \in Nat /\ (Len(ss) = 0 <=> ss = <<>>)
  BY EmptySeq, LenProperties
<1>2. ASSUME ss # <<>> PROVE \E f : IsFlattening(f, ss, Len(ss)) /\ FlattenSeq(ss) = f[Len(ss)]
  <2> DEFINE f == CHOOSE g : IsFlattening(g, ss, Len(ss))
  <2>1. IsFlattening(f, ss, Len(ss))
    BY <1>1, FlatteningExists
  <2>2. FlattenSeq(ss) = f[Len(ss)]
    BY <1>1, <1>2 DEF FlattenSeq, IsFlattening
  <2> QED
    BY <2>1, <2>2
<1> QED
  BY <1>1, <1>2 DEF FlattenSeq

(* One step of the recursion.                                              *)
LEMMA FlatteningOf ==
    ASSUME NEW f, NEW ss, NEW n \in Nat, IsFlattening(f, ss, n), NEW i \in 1 .. n
    PROVE  f[i] = IF i = 1 THEN ss[i] ELSE f[i - 1] \o ss[i]
BY DEF IsFlattening

(* One more at the end.                                                    *)
LEMMA FlattenAppend ==
    ASSUME NEW S, NEW ss \in Seq(Seq(S)), NEW s \in Seq(S)
    PROVE  /\ FlattenSeq(ss) \in Seq(S)
           /\ FlattenSeq(Append(ss, s)) = FlattenSeq(ss) \o s
<1> DEFINE n == Len(ss)
           tt == Append(ss, s)
<1>1. /\ n \in Nat /\ (n = 0 <=> ss = <<>>) /\ \A i \in 1 .. n : ss[i] \in Seq(S)
  BY EmptySeq, LenProperties
<1>2. /\ tt \in Seq(Seq(S)) /\ Len(tt) = n + 1 /\ tt # <<>> /\ tt[n + 1] = s
      /\ \A i \in 1 .. n : tt[i] = ss[i]
  BY <1>1, AppendProperties
<1> HIDE DEF n, tt
<1>3. PICK g : IsFlattening(g, tt, n + 1) /\ FlattenSeq(tt) = g[n + 1]
  BY <1>2, FlattenDef
<1>4. CASE ss = <<>>
  <2>1. n = 0
    BY <1>1, <1>4
  <2>2. g[1] = tt[1]
    BY <1>3, <2>1, FlatteningOf
  <2>3. FlattenSeq(tt) = s
    BY <1>2, <1>3, <2>1, <2>2
  <2>4. FlattenSeq(ss) = <<>>
    BY <1>4, FlattenDef
  <2> QED
    BY <2>3, <2>4, ConcatEmptySeq, EmptySeq DEF tt
<1>5. CASE ss # <<>>
  <2>1. PICK f : IsFlattening(f, ss, n) /\ FlattenSeq(ss) = f[n]
    BY <1>5, FlattenDef DEF n
  <2> DEFINE T == {i \in Nat : i \in 1 .. n => f[i] = g[i] /\ f[i] \in Seq(S)}
  <2>2. 0 \in T
    OBVIOUS
  <2>3. ASSUME NEW i \in Nat, i \in T PROVE i + 1 \in T
    <3> SUFFICES ASSUME i + 1 \in 1 .. n PROVE f[i + 1] = g[i + 1] /\ f[i + 1] \in Seq(S)
      OBVIOUS
    <3>1. f[i + 1] = IF i + 1 = 1 THEN ss[i + 1] ELSE f[(i + 1) - 1] \o ss[i + 1]
      BY <1>1, <2>1, FlatteningOf
    <3>2. g[i + 1] = IF i + 1 = 1 THEN tt[i + 1] ELSE g[(i + 1) - 1] \o tt[i + 1]
      BY <1>1, <1>3, FlatteningOf
    <3>3. ss[i + 1] = tt[i + 1] /\ ss[i + 1] \in Seq(S)
      BY <1>1, <1>2
    <3>4. CASE i = 0
      BY <3>1, <3>2, <3>3, <3>4
    <3>5. CASE i # 0
      <4>1. f[i] = g[i] /\ f[i] \in Seq(S)
        BY <2>3, <3>5, <1>1
      <4>2. f[i + 1] = f[i] \o ss[i + 1] /\ g[i + 1] = g[i] \o tt[i + 1]
        BY <3>1, <3>2, <3>5, (i + 1) - 1 = i, i + 1 # 1
      <4> QED
        BY <4>1, <4>2, <3>3, ConcatProperties
    <3> QED
      BY <3>4, <3>5
  <2> HIDE DEF T
  <2>4. n \in T
    BY <2>2, <2>3, <1>1, Induction
  <2>5. f[n] = g[n] /\ f[n] \in Seq(S)
    BY <2>4, <1>1, <1>5 DEF T
  <2>6. g[n + 1] = g[n] \o s
    <3>1. g[n + 1] = IF n + 1 = 1 THEN tt[n + 1] ELSE g[(n + 1) - 1] \o tt[n + 1]
      BY <1>1, <1>3, FlatteningOf
    <3> QED
      BY <3>1, <1>1, <1>2, <1>5, (n + 1) - 1 = n, n + 1 # 1
  <2> QED
    BY <2>1, <2>5, <2>6, <1>3 DEF tt
<1> QED
  BY <1>4, <1>5

LEMMA FlattenType ==
    ASSUME NEW S, NEW ss \in Seq(Seq(S))
    PROVE  FlattenSeq(ss) \in Seq(S)
<1>1. <<>> \in Seq(S)
  BY EmptySeq
<1> QED
  BY <1>1, FlattenAppend

(* Appending to the second of two is appending to both.                    *)
LEMMA ConcatAppend ==
    ASSUME NEW S, NEW s \in Seq(S), NEW t \in Seq(S), NEW x \in S
    PROVE  s \o Append(t, x) = Append(s \o t, x) /\ s \o t \in Seq(S)
<1>1. <<x>> \in Seq(S) /\ s \o t \in Seq(S)
  BY ConcatProperties
<1>2. s \o (t \o <<x>>) = (s \o t) \o <<x>>
  BY <1>1, ConcatAssociative
<1>3. Append(t, x) = t \o <<x>>
  BY AppendIsConcat
<1>4. Append(s \o t, x) = (s \o t) \o <<x>>
  BY <1>1, AppendIsConcat
<1> QED
  BY <1>1, <1>2, <1>3, <1>4

(* Two sequences of sequences, one after the other.                        *)
LEMMA FlattenConcat ==
    ASSUME NEW S, NEW ss \in Seq(Seq(S)), NEW tt \in Seq(Seq(S))
    PROVE  FlattenSeq(ss \o tt) = FlattenSeq(ss) \o FlattenSeq(tt)
<1> DEFINE Part(k) == SubSeq(tt, 1, k)
           T == {k \in Nat : k <= Len(tt) =>
                    FlattenSeq(ss \o Part(k)) = FlattenSeq(ss) \o FlattenSeq(Part(k))}
<1>1. Len(tt) \in Nat /\ \A i \in 1 .. Len(tt) : tt[i] \in Seq(S)
  BY LenProperties
<1>2. \A k \in 0 .. Len(tt) : Part(k) \in Seq(Seq(S))
  BY <1>1, SubSeqProperties
<1>3. 0 \in T
  <2>1. Part(0) = <<>>
    BY SubSeqEmpty
  <2>2. FlattenSeq(<<>>) = <<>> /\ FlattenSeq(ss) \in Seq(S)
    BY FlattenDef, FlattenAppend, EmptySeq
  <2> HIDE DEF Part
  <2> QED
    BY <2>1, <2>2, ConcatEmptySeq
<1>4. ASSUME NEW k \in Nat, k \in T PROVE k + 1 \in T
  <2> SUFFICES ASSUME k + 1 <= Len(tt)
               PROVE  FlattenSeq(ss \o Part(k + 1)) = FlattenSeq(ss) \o FlattenSeq(Part(k + 1))
    OBVIOUS
  <2>1. FlattenSeq(ss \o Part(k)) = FlattenSeq(ss) \o FlattenSeq(Part(k))
    BY <1>4, <1>1
  <2>2. Part(k) \in Seq(Seq(S)) /\ tt[k + 1] \in Seq(S)
    BY <1>1, <1>2
  <2>3. Part(k + 1) = Append(Part(k), tt[k + 1])
    <3>1. Part(k + 1) = Part(k) \o <<tt[k + 1]>>
      BY <1>1, SubSeqRecursiveSecond
    <3> HIDE DEF Part
    <3> QED
      BY <3>1, <2>2, AppendIsConcat
  <2> HIDE DEF Part
  <2>4. ss \o Part(k + 1) = Append(ss \o Part(k), tt[k + 1]) /\ ss \o Part(k) \in Seq(Seq(S))
    <3>1. \A x \in Seq(S), p \in Seq(Seq(S)) :
              ss \o Append(p, x) = Append(ss \o p, x) /\ ss \o p \in Seq(Seq(S))
      BY ConcatAppend
    <3> QED
      BY <2>2, <2>3, <3>1
  <2>5. FlattenSeq(ss \o Part(k + 1)) = FlattenSeq(ss \o Part(k)) \o tt[k + 1]
    BY <2>2, <2>4, FlattenAppend
  <2>7. FlattenSeq(Part(k + 1)) = FlattenSeq(Part(k)) \o tt[k + 1]
    BY <2>2, <2>3, FlattenAppend
  <2>6. FlattenSeq(ss) \in Seq(S) /\ FlattenSeq(Part(k)) \in Seq(S)
    BY <2>2, FlattenAppend
  <2>8. (FlattenSeq(ss) \o FlattenSeq(Part(k))) \o tt[k + 1]
            = FlattenSeq(ss) \o (FlattenSeq(Part(k)) \o tt[k + 1])
    <3>1. \A a, b, c \in Seq(S) : (a \o b) \o c = a \o (b \o c)
      BY ONLY ConcatAssociative
    <3> QED
      BY <2>2, <2>6, <3>1
  <2> QED
    BY <2>1, <2>5, <2>7, <2>8
<1> HIDE DEF T
<1>5. Len(tt) \in T
  BY <1>1, <1>3, <1>4, Induction
<1>6. Part(Len(tt)) = tt
  BY SubSeqFull
<1>7. FlattenSeq(ss \o Part(Len(tt))) = FlattenSeq(ss) \o FlattenSeq(Part(Len(tt)))
  BY <1>1, <1>5 DEF T
<1> QED
  BY <1>6, <1>7

(* The parts that a filter joins.                                          *)
Kept(s, T) == [i \in DOMAIN s |-> IF s[i] \in T THEN <<s[i]>> ELSE <<>>]

LEMMA KeptType ==
    ASSUME NEW S, NEW T, NEW s \in Seq(S)
    PROVE  /\ Kept(s, T) \in Seq(Seq(S \cap T))
           /\ Len(Kept(s, T)) = Len(s)
<1>1. /\ Len(s) \in Nat /\ DOMAIN s = 1 .. Len(s) /\ \A i \in 1 .. Len(s) : s[i] \in S
  BY LenProperties
<1>2. <<>> \in Seq(S \cap T)
  BY EmptySeq
<1>3. \A x \in S \cap T : <<x>> \in Seq(S \cap T)
  OBVIOUS
<1>4. \A i \in 1 .. Len(s) : (IF s[i] \in T THEN <<s[i]>> ELSE <<>>) \in Seq(S \cap T)
  BY <1>1, <1>2, <1>3
<1>5. Kept(s, T) \in [1 .. Len(s) -> Seq(S \cap T)]
  BY <1>1, <1>4 DEF Kept
<1> QED
  BY <1>1, <1>5

LEMMA KeptAt ==
    ASSUME NEW S, NEW T
    PROVE  \A v \in Seq(S) :
               /\ Len(Kept(v, T)) = Len(v)
               /\ \A i \in 1 .. Len(v) : Kept(v, T)[i] = IF v[i] \in T THEN <<v[i]>> ELSE <<>>
<1> SUFFICES ASSUME NEW v \in Seq(S)
             PROVE  /\ Len(Kept(v, T)) = Len(v)
                    /\ \A i \in 1 .. Len(v) :
                           Kept(v, T)[i] = IF v[i] \in T THEN <<v[i]>> ELSE <<>>
  OBVIOUS
<1>1. Len(v) \in Nat /\ DOMAIN v = 1 .. Len(v)
  BY LenProperties
<1>2. Kept(v, T) \in Seq(Seq(S \cap T)) /\ Len(Kept(v, T)) = Len(v)
  BY KeptType
<1> QED
  BY <1>1, <1>2 DEF Kept

LEMMA FilterType ==
    ASSUME NEW S, NEW T, NEW s \in Seq(S)
    PROVE  Filter(s, T) \in Seq(S \cap T) /\ Filter(s, T) \in Seq(S)
<1>1. Filter(s, T) = FlattenSeq(Kept(s, T))
  BY DEF Filter, Kept
<1>2. Filter(s, T) \in Seq(S \cap T)
  BY <1>1, KeptType, FlattenType
<1> QED
  BY <1>2, SeqMonotonic, S \cap T \subseteq S

LEMMA FilterEmpty == ASSUME NEW T PROVE Filter(<<>>, T) = <<>>
<1>1. Filter(<<>>, T) = FlattenSeq(Kept(<<>>, T))
  BY DEF Filter, Kept
<1>2. <<>> \in Seq(T)
  BY EmptySeq
<1>3. Kept(<<>>, T) \in Seq(Seq(T \cap T)) /\ Len(Kept(<<>>, T)) = 0
  BY <1>2, KeptType, EmptySeq
<1>4. Kept(<<>>, T) = <<>>
  BY <1>3, EmptySeq
<1> QED
  BY <1>1, <1>3, <1>4, FlattenDef

(* Two sequences, one after the other.                                     *)
LEMMA FilterConcat ==
    ASSUME NEW S, NEW T, NEW s \in Seq(S), NEW t \in Seq(S)
    PROVE  Filter(s \o t, T) = Filter(s, T) \o Filter(t, T)
<1> DEFINE R == Seq(S \cap T)
<1>1. /\ s \o t \in Seq(S) /\ Len(s \o t) = Len(s) + Len(t)
      /\ \A i \in 1 .. Len(s) + Len(t) :
             (s \o t)[i] = IF i <= Len(s) THEN s[i] ELSE t[i - Len(s)]
  BY ConcatProperties
<1>2. Len(s) \in Nat /\ Len(t) \in Nat
  BY LenProperties
<1>3. Kept(s, T) \in Seq(R) /\ Kept(t, T) \in Seq(R) /\ Kept(s \o t, T) \in Seq(R)
  BY <1>1, KeptType
<1>4. Kept(s \o t, T) = Kept(s, T) \o Kept(t, T)
  <2> DEFINE u == s \o t
             k == Kept(u, T)
             l == Kept(s, T) \o Kept(t, T)
  <2> HIDE DEF R
  <2>0. \A v \in Seq(S) :
            /\ Len(Kept(v, T)) = Len(v)
            /\ \A i \in 1 .. Len(v) : Kept(v, T)[i] = IF v[i] \in T THEN <<v[i]>> ELSE <<>>
    BY KeptAt
  <2>1. /\ Len(Kept(s, T)) = Len(s) /\ Len(Kept(t, T)) = Len(t)
        /\ \A i \in 1 .. Len(s) : Kept(s, T)[i] = IF s[i] \in T THEN <<s[i]>> ELSE <<>>
        /\ \A i \in 1 .. Len(t) : Kept(t, T)[i] = IF t[i] \in T THEN <<t[i]>> ELSE <<>>
    BY <2>0
  <2>2. /\ Len(k) = Len(s) + Len(t)
        /\ \A i \in 1 .. Len(s) + Len(t) : k[i] = IF u[i] \in T THEN <<u[i]>> ELSE <<>>
    <3> HIDE DEF u
    <3> QED
      BY <1>1, <2>0 DEF u
  <2>3. /\ l \in Seq(R) /\ Len(l) = Len(s) + Len(t)
        /\ \A i \in 1 .. Len(s) + Len(t) :
               l[i] = IF i <= Len(s) THEN Kept(s, T)[i] ELSE Kept(t, T)[i - Len(s)]
    <3> DEFINE a == Kept(s, T)
               b == Kept(t, T)
    <3>1. a \in Seq(R) /\ b \in Seq(R) /\ Len(a) = Len(s) /\ Len(b) = Len(t)
      BY <1>3, <2>1
    <3> HIDE DEF a, b
    <3>2. /\ a \o b \in Seq(R) /\ Len(a \o b) = Len(a) + Len(b)
          /\ \A i \in 1 .. Len(a) + Len(b) :
                 (a \o b)[i] = IF i <= Len(a) THEN a[i] ELSE b[i - Len(a)]
      BY <3>1, ConcatProperties
    <3> QED
      BY <3>1, <3>2 DEF a, b
  <2>4. \A i \in 1 .. Len(s) + Len(t) : k[i] = l[i]
    <3> SUFFICES ASSUME NEW i \in 1 .. Len(s) + Len(t) PROVE k[i] = l[i]
      OBVIOUS
    <3> HIDE DEF k, l
    <3>1. k[i] = IF u[i] \in T THEN <<u[i]>> ELSE <<>>
      BY <2>2
    <3>2. u[i] = IF i <= Len(s) THEN s[i] ELSE t[i - Len(s)]
      BY <1>1
    <3>3. l[i] = IF i <= Len(s) THEN Kept(s, T)[i] ELSE Kept(t, T)[i - Len(s)]
      BY <2>3
    <3>4. CASE i <= Len(s)
      <4>1. Kept(s, T)[i] = IF s[i] \in T THEN <<s[i]>> ELSE <<>>
        BY <1>2, <2>1, <3>4
      <4> QED
        BY <3>1, <3>2, <3>3, <3>4, <4>1
    <3>5. CASE ~(i <= Len(s))
      <4>1. i - Len(s) \in 1 .. Len(t)
        BY <1>2, <3>5
      <4>2. Kept(t, T)[i - Len(s)] = IF t[i - Len(s)] \in T THEN <<t[i - Len(s)]>> ELSE <<>>
        BY <2>1, <4>1
      <4> QED
        BY <3>1, <3>2, <3>3, <3>5, <4>2
    <3> QED
      BY <3>4, <3>5
  <2> HIDE DEF k, l
  <2> QED
    BY <1>3, <2>2, <2>3, <2>4, SeqEqual DEF k, l
<1>5. FlattenSeq(Kept(s, T) \o Kept(t, T)) = FlattenSeq(Kept(s, T)) \o FlattenSeq(Kept(t, T))
  BY <1>3, FlattenConcat
<1> QED
  BY <1>4, <1>5 DEF Filter, Kept

(* One element.                                                            *)
LEMMA FilterOne ==
    ASSUME NEW T, NEW x
    PROVE  Filter(<<x>>, T) = IF x \in T THEN <<x>> ELSE <<>>
<1> DEFINE y == IF x \in T THEN <<x>> ELSE <<>>
<1>1. y \in Seq({x}) /\ <<>> \in Seq(Seq({x}))
  <2>1. <<>> \in Seq({x}) /\ <<>> \in Seq(Seq({x}))
    BY EmptySeq
  <2>2. <<x>> \in Seq({x})
    OBVIOUS
  <2> QED
    BY <2>1, <2>2
<1>2. Kept(<<x>>, T) = <<y>> /\ <<y>> = Append(<<>>, y)
  BY DEF Kept
<1>3. FlattenSeq(<<>>) = <<>>
  BY <1>1, FlattenDef
<1> HIDE DEF y
<1>4. FlattenSeq(Append(<<>>, y)) = <<>> \o y
  BY <1>1, <1>3, FlattenAppend
<1>5. <<>> \o y = y
  BY <1>1, ConcatEmptySeq
<1>6. Filter(<<x>>, T) = FlattenSeq(Kept(<<x>>, T))
  BY DEF Filter, Kept
<1> QED
  BY <1>2, <1>4, <1>5, <1>6 DEF y

(* One more at the end.                                                    *)
LEMMA FilterAppend ==
    ASSUME NEW S, NEW T, NEW s \in Seq(S), NEW x \in S
    PROVE  Filter(Append(s, x), T)
               = IF x \in T THEN Append(Filter(s, T), x) ELSE Filter(s, T)
<1>1. Append(s, x) = s \o <<x>> /\ <<x>> \in Seq(S)
  BY AppendIsConcat
<1>2. Filter(s \o <<x>>, T) = Filter(s, T) \o Filter(<<x>>, T)
  BY <1>1, FilterConcat
<1>3. Filter(s, T) \in Seq(S)
  BY FilterType
<1>4. Filter(s, T) \o <<x>> = Append(Filter(s, T), x) /\ Filter(s, T) \o <<>> = Filter(s, T)
  BY <1>3, AppendIsConcat, ConcatEmptySeq
<1> QED
  BY <1>1, <1>2, <1>4, FilterOne

-----------------------------------------------------------------------------
(* Joining is associative, whatever set the elements are from.             *)
LEMMA Associative ==
    ASSUME NEW S
    PROVE  \A a, b, c \in Seq(S) : /\ (a \o b) \o c = a \o (b \o c)
                                   /\ a \o b \in Seq(S)
  BY ConcatAssociative, ConcatProperties

(* Cutting a sequence at n and joining the parts gives it back.            *)
LEMMA Cut ==
    ASSUME NEW S
    PROVE  \A s \in Seq(S) : \A n \in 0 .. Len(s) :
               /\ FirstOf(n, s) \in Seq(S) /\ Len(FirstOf(n, s)) = n
               /\ AllAfter(n, s) \in Seq(S) /\ Len(AllAfter(n, s)) = Len(s) - n
               /\ FirstOf(n, s) \o AllAfter(n, s) = s
<1> SUFFICES ASSUME NEW s \in Seq(S), NEW n \in 0 .. Len(s)
             PROVE  /\ FirstOf(n, s) \in Seq(S) /\ Len(FirstOf(n, s)) = n
                    /\ AllAfter(n, s) \in Seq(S) /\ Len(AllAfter(n, s)) = Len(s) - n
                    /\ FirstOf(n, s) \o AllAfter(n, s) = s
  OBVIOUS
<1>1. Len(s) \in Nat /\ \A i \in 1 .. Len(s) : s[i] \in S
  BY LenProperties
<1>2. FirstOf(n, s) \in Seq(S) /\ Len(FirstOf(n, s)) = n
  <2>1. \A i \in 1 .. n : s[i] \in S
    BY <1>1
  <2> QED
    BY <1>1, <2>1, SubSeqProperties DEF FirstOf
<1>3. AllAfter(n, s) \in Seq(S) /\ Len(AllAfter(n, s)) = Len(s) - n
  <2>1. \A i \in n + 1 .. Len(s) : s[i] \in S
    BY <1>1
  <2> QED
    BY <1>1, <2>1, SubSeqProperties DEF AllAfter
<1>4. SubSeq(s, 1, n) \o SubSeq(s, n + 1, Len(s)) = SubSeq(s, 1, Len(s))
  <2>1. 1 \in 1 .. Len(s) + 1 /\ n \in (1 - 1) .. Len(s) /\ Len(s) \in n .. Len(s)
    BY <1>1
  <2> QED
    BY <2>1, ConcatAdjacentSubSeq
<1> QED
  BY <1>2, <1>3, <1>4, SubSeqFull DEF FirstOf, AllAfter

(* A part of a sequence stays the same when the sequence grows.            *)
LEMMA PartOfAppend ==
    ASSUME NEW S, NEW s \in Seq(S), NEW x \in S, NEW m \in Nat \ {0}, NEW n \in 0 .. Len(s)
    PROVE  /\ SubSeq(Append(s, x), m, n) = SubSeq(s, m, n)
           /\ SubSeq(s, m, n) \in Seq(S)
<1> DEFINE t == Append(s, x)
<1>1. /\ Len(s) \in Nat /\ \A i \in 1 .. Len(s) : s[i] \in S
      /\ \A i \in 1 .. Len(s) : t[i] = s[i]
  BY LenProperties, AppendProperties
<1> HIDE DEF t
<1>2. \A i \in m .. n : s[i] \in S /\ t[i] \in S /\ s[i] = t[i]
  BY <1>1
<1>3. /\ SubSeq(s, m, n) \in Seq(S)
      /\ Len(SubSeq(s, m, n)) = IF m <= n THEN n - m + 1 ELSE 0
      /\ \A i \in 1 .. n - m + 1 : SubSeq(s, m, n)[i] = s[m + i - 1]
  BY <1>2, SubSeqProperties
<1>4. /\ SubSeq(t, m, n) \in Seq(S)
      /\ Len(SubSeq(t, m, n)) = IF m <= n THEN n - m + 1 ELSE 0
      /\ \A i \in 1 .. n - m + 1 : SubSeq(t, m, n)[i] = t[m + i - 1]
  BY <1>2, SubSeqProperties
<1>5. \A i \in 1 .. Len(SubSeq(t, m, n)) : SubSeq(t, m, n)[i] = SubSeq(s, m, n)[i]
  <2> SUFFICES ASSUME NEW i \in 1 .. Len(SubSeq(t, m, n))
               PROVE  SubSeq(t, m, n)[i] = SubSeq(s, m, n)[i]
    OBVIOUS
  <2>1. m <= n /\ i \in 1 .. n - m + 1
    BY <1>4, 1 .. 0 = {}
  <2>2. m + i - 1 \in m .. n
    BY <2>1
  <2> QED
    BY <1>2, <1>3, <1>4, <2>1, <2>2
<1>6. SubSeq(t, m, n) = SubSeq(s, m, n)
  <2> DEFINE u == SubSeq(t, m, n)
             v == SubSeq(s, m, n)
  <2>1. u \in Seq(S) /\ v \in Seq(S) /\ Len(u) = Len(v) /\ \A i \in 1 .. Len(u) : u[i] = v[i]
    BY <1>3, <1>4, <1>5
  <2> HIDE DEF u, v
  <2>2. u = v
    BY <2>1, SeqEqual
  <2> QED
    BY <2>2 DEF u, v
<1> QED
  BY <1>3, <1>6 DEF t

(* The last part of a sequence grows with it.                              *)
LEMMA TailOfAppend ==
    ASSUME NEW S, NEW s \in Seq(S), NEW x \in S, NEW m \in 1 .. Len(s) + 1
    PROVE  /\ SubSeq(Append(s, x), m, Len(s) + 1) = Append(SubSeq(s, m, Len(s)), x)
           /\ SubSeq(s, m, Len(s)) \in Seq(S)
<1>1. /\ Len(s) \in Nat /\ Append(s, x) \in Seq(S) /\ Len(Append(s, x)) = Len(s) + 1
      /\ Append(s, x)[Len(s) + 1] = x
  BY LenProperties, AppendProperties
<1>2. SubSeq(Append(s, x), m, Len(s) + 1) = SubSeq(Append(s, x), m, (Len(s) + 1) - 1) \o <<x>>
  <2>1. m \in 1 .. Len(Append(s, x)) /\ Len(s) + 1 \in m .. Len(Append(s, x))
    BY <1>1
  <2> QED
    BY <1>1, <2>1, SubSeqRecursiveSecond
<1>3. SubSeq(Append(s, x), m, Len(s)) = SubSeq(s, m, Len(s)) /\ SubSeq(s, m, Len(s)) \in Seq(S)
  BY <1>1, PartOfAppend
<1>4. (Len(s) + 1) - 1 = Len(s)
  BY <1>1
<1> QED
  BY <1>2, <1>3, <1>4, AppendIsConcat

(* Filters that agree on the elements give the same.                       *)
LEMMA FilterSame ==
    ASSUME NEW S, NEW s \in Seq(S), NEW T, NEW U, \A i \in 1 .. Len(s) : s[i] \in T <=> s[i] \in U
    PROVE  Filter(s, T) = Filter(s, U)
<1>1. DOMAIN s = 1 .. Len(s)
  BY LenProperties
<1>2. \A i \in DOMAIN s : (IF s[i] \in T THEN <<s[i]>> ELSE <<>>)
                              = (IF s[i] \in U THEN <<s[i]>> ELSE <<>>)
  BY <1>1
<1>3. [i \in DOMAIN s |-> IF s[i] \in T THEN <<s[i]>> ELSE <<>>]
          = [i \in DOMAIN s |-> IF s[i] \in U THEN <<s[i]>> ELSE <<>>]
  BY <1>2
<1> QED
  BY <1>3 DEF Filter

(* Induction over sequences that grow at their end, for a set of them.     *)
LEMMA SeqInduction ==
    ASSUME NEW S, NEW P, <<>> \in P,
           \A s \in Seq(S) : \A x \in S : s \in P => Append(s, x) \in P
    PROVE  \A s \in Seq(S) : s \in P
<1> DEFINE T == {n \in Nat : \A s \in Seq(S) : Len(s) = n => s \in P}
<1>1. 0 \in T
  <2> SUFFICES ASSUME NEW s \in Seq(S), Len(s) = 0 PROVE s \in P
    OBVIOUS
  <2> QED
    BY EmptySeq
<1>2. ASSUME NEW n \in Nat, n \in T PROVE n + 1 \in T
  <2> SUFFICES ASSUME NEW s \in Seq(S), Len(s) = n + 1 PROVE s \in P
    OBVIOUS
  <2>1. s # <<>>
    BY EmptySeq
  <2>2. PICK t \in Seq(S), x \in S : s = Append(t, x)
    BY <2>1, SequenceEmptyOrAppend
  <2>3. Len(t) = n
    BY <2>2, AppendProperties, LenProperties
  <2> QED
    BY <1>2, <2>2, <2>3
<1> HIDE DEF T
<1>3. \A n \in Nat : n \in T
  BY <1>1, <1>2, Induction
<1> QED
  BY <1>3, LenProperties DEF T

(* A filter that lets everything through.                                  *)
LEMMA FilterAll ==
    ASSUME NEW S, NEW T, S \subseteq T
    PROVE  \A s \in Seq(S) : Filter(s, T) = s
<1> DEFINE P == {s \in Seq(S) : Filter(s, T) = s}
<1>1. <<>> \in P
  BY FilterEmpty, EmptySeq
<1>2. ASSUME NEW s \in Seq(S), NEW x \in S, s \in P PROVE Append(s, x) \in P
  <2>1. Filter(Append(s, x), T) = Append(Filter(s, T), x)
    BY FilterAppend
  <2> QED
    BY <1>2, <2>1, AppendProperties
<1> HIDE DEF P
<1>3. \A s \in Seq(S) : s \in P
  BY <1>1, <1>2, SeqInduction
<1> QED
  BY <1>3 DEF P
=============================================================================
