--------------------------- MODULE AddrInfoProofs ---------------------------
(***************************************************************************)
(* Proofs about module AddrInfo, for any hosts, workers and addresses of   *)
(* requests, which may be used again and again: requests are not lost nor  *)
(* in two places, and a delegate is given the result of its own host,      *)
(* which stays put while it looks.                                         *)
(***************************************************************************)
EXTENDS AddrInfo, DequeTheorems, FiniteSetTheorems

(* The back of a vector, and the vector without it.                        *)
LEMMA PopBack ==
    ASSUME NEW S, NEW s \in Seq(S), s # <<>>
    PROVE  /\ Last(s) \in S /\ Front(s) \in Seq(S)
           /\ Range(s) = Range(Front(s)) \cup {Last(s)}
           /\ Distinct(s) => Distinct(Front(s)) /\ Last(s) \notin Range(Front(s))
<1> DEFINE n == Len(s)
           f == Front(s)
<1>1. n \in Nat /\ n >= 1 /\ \A i \in 1 .. n : s[i] \in S
  BY LenProperties, EmptySeq
<1>2. f \in Seq(S) /\ Len(f) = n - 1 /\ \A i \in 1 .. n - 1 : f[i] = s[i]
  <2>1. f = SubSeq(s, 1, n - 1)
    BY DEF Front
  <2> HIDE DEF f, n
  <2>2. \A i \in 1 .. n - 1 : s[i] \in S
    BY <1>1
  <2> QED
    BY <1>1, <2>1, <2>2, SubSeqProperties
<1> HIDE DEF f
<1>3. \A y : y \in Range(s) <=> \E i \in 1 .. n : y = s[i]
  BY InRange
<1>4. \A y : y \in Range(f) <=> \E i \in 1 .. n - 1 : y = s[i]
  BY <1>2, InRange
<1>5. Range(s) = Range(f) \cup {s[n]}
  BY <1>1, <1>3, <1>4
<1>6. Distinct(s) => Distinct(f) /\ s[n] \notin Range(f)
  BY <1>1, <1>2, <1>4 DEF Distinct
<1> QED
  BY <1>1, <1>2, <1>5, <1>6 DEF Last, f

(* The last of a vector takes the place of one that leaves                 *)
(* (AsyncAddrInfo.cpp:164-172).                                            *)
LEMMA SwapOut ==
    ASSUME NEW S, NEW s \in Seq(S), Distinct(s), NEW i \in 1 .. Len(s)
    PROVE  LET r == Front([s EXCEPT ![i] = Last(s)])
           IN  r \in Seq(S) /\ Distinct(r) /\ Range(r) = Range(s) \ {s[i]}
<1> DEFINE n == Len(s)
           t == [s EXCEPT ![i] = Last(s)]
           r == Front(t)
<1>1. n \in Nat /\ n >= 1 /\ \A j \in 1 .. n : s[j] \in S
  BY LenProperties
<1>2. t \in Seq(S) /\ Len(t) = n /\ \A j \in 1 .. n : t[j] = IF j = i THEN s[n] ELSE s[j]
  BY <1>1, ExceptSeq DEF Last
<1> HIDE DEF t
<1>3. r \in Seq(S) /\ Len(r) = n - 1 /\ \A j \in 1 .. n - 1 : r[j] = t[j]
  BY <1>1, <1>2, SubSeqProperties DEF Front
<1> HIDE DEF r
<1>4. \A y : y \in Range(r) <=> \E j \in 1 .. n - 1 : y = IF j = i THEN s[n] ELSE s[j]
  BY <1>1, <1>2, <1>3, InRange
<1>5. \A y : y \in Range(s) <=> \E j \in 1 .. n : y = s[j]
  BY InRange
<1>6. \A j, k \in 1 .. n : j # k => s[j] # s[k]
  BY DEF Distinct
<1>7. ASSUME NEW y \in Range(r) PROVE y \in Range(s) /\ y # s[i]
  <2>1. PICK j \in 1 .. n - 1 : y = IF j = i THEN s[n] ELSE s[j]
    BY <1>4
  <2> QED
    BY <1>1, <1>5, <1>6, <2>1
<1>8. ASSUME NEW y \in Range(s), y # s[i] PROVE y \in Range(r)
  <2>1. PICK j \in 1 .. n : y = s[j] /\ j # i
    BY <1>5, <1>8
  <2>2. CASE j = n
    BY <1>1, <1>4, <2>1, <2>2
  <2>3. CASE j # n
    BY <1>1, <1>4, <2>1, <2>3
  <2> QED
    BY <2>2, <2>3
<1>9. Distinct(r)
  BY <1>1, <1>2, <1>3, <1>6 DEF Distinct
<1> QED
  BY <1>3, <1>7, <1>8, <1>9 DEF r, t

(* The constructor of the pool makes each worker once                      *)
(* (AsyncAddrInfo.cpp:181-192).                                            *)
LEMMA WorkersMade ==
    NewWorkers \in Seq(Workers) /\ Distinct(NewWorkers) /\ Range(NewWorkers) = Workers
<1> DEFINE n == Cardinality(Workers)
           I == 1 .. n
           P(ws) == Range(ws) = Workers
<1>1. n \in Nat
  BY WorkersAssumption, FS_CardinalityType
<1>2. IsFiniteSet(I) /\ Cardinality(I) = n
  BY <1>1, FS_Interval
<1>3. ExistsBijection(I, Workers)
  BY <1>2, WorkersAssumption, FS_SameCardinalityBij
<1>4. \E ws \in [I -> Workers] : P(ws)
  <2>1. PICK ws \in [I -> Workers] : \A w \in Workers : \E i \in I : ws[i] = w
    BY <1>3 DEF ExistsBijection, Bijection, Surjection
  <2>2. Range(ws) = Workers
    BY <2>1 DEF Range
  <2> QED
    BY <2>2
<1>5. NewWorkers \in [I -> Workers] /\ Range(NewWorkers) = Workers
  BY <1>4 DEF NewWorkers
<1>6. NewWorkers \in Surjection(I, Workers)
  BY <1>5 DEF Surjection, Range
<1>7. NewWorkers \in Injection(I, Workers)
  BY <1>2, <1>6, FS_SurjSameCardinalityImpliesInj
<1>8. NewWorkers \in Seq(Workers) /\ Len(NewWorkers) = n
  BY <1>1, <1>5
<1>9. \A i, j \in I : NewWorkers[i] = NewWorkers[j] => i = j
  BY <1>5, <1>7 DEF Injection, IsInjective
<1> QED
  BY <1>5, <1>8, <1>9 DEF Distinct

-----------------------------------------------------------------------------
(* The vectors: each worker is in one of them, once, from the moment its   *)
(* thread is started.                                                      *)
Pool == Range(free) \cup Range(working)

VectorInv ==
    /\ free \in Seq(Workers) /\ working \in Seq(Workers)
    /\ Distinct(free) /\ Distinct(working) /\ Range(free) \cap Range(working) = {}
    /\ Pool \in {{}, Workers}
    /\ \A w \in Workers : wpc[w] = "none" <=> w \notin Pool
    /\ \A w \in Workers : phase[w] = "none" <=> wpc[w] = "none"

(* Where the loop thread is, and what it holds there.                      *)
Quitting == pc \in {"quit", "join", "exit"}

LoopInv ==
    /\ pc \in {"delegate", "after"} => curW \in Workers /\ phase[curW] = "handling"
    /\ pc = "delegate" /\ cur # Null => cur \in Reqs /\ Alive(cur) /\ res[curW] = key[cur]
    /\ pc \in {"quit", "join"} => curW \in Workers /\ destroyed[curW]
    /\ Quitting => \A r \in Reqs : ~Alive(r)
    /\ \A w \in Workers : destroyed[w] => Quitting

(* W is the set of the waiting requests and O that of the working workers: *)
(* they have requests that are alive, each once, and all that are          *)
(* unanswered.                                                             *)
Fits(W, O, ks, count, has) ==
    /\ \A r \in W : r \in Reqs /\ ks[r] # Null
    /\ \A w \in O : has[w] \in Reqs /\ ks[has[w]] # Null /\ has[w] \notin W
    /\ \A v, w \in O : has[v] = has[w] => v = w
    /\ \A r \in Reqs : ks[r] # Null /\ count[r] = 0 => r \in W \/ \E w \in O : has[w] = r
    /\ \A r \in Reqs : ks[r] = Null => count[r] = 0

(* They have only those, and nothing was answered twice.                   *)
Fresh(W, O, count, has) ==
    /\ \A r \in W : count[r] = 0
    /\ \A w \in O : count[has[w]] = 0
    /\ \A r \in Reqs : count[r] <= 1

HolderInv ==
    /\ Distinct(waiting)
    /\ Fits(Range(waiting), Range(working), key, answers, addr)
    /\ ~late => Fresh(Range(waiting), Range(working), answers, addr)

(* Until a request is taken from its worker: a working worker has one job, *)
(* which is in its queue, with its thread, or in the mailbox, and the      *)
(* others have none.                                                       *)
InHand(w) == wpc[w] \in {"resolving", "filling"}

Resting(w) == need[w] = <<>> /\ ~InHand(w) /\ phase[w] # "posted"

HasJob(w, k) ==
    \/ need[w] = <<k>> /\ ~InHand(w) /\ phase[w] # "posted"
    \/ need[w] = <<>> /\ wpc[w] = "resolving" /\ work[w] = k /\ phase[w] # "posted"
    \/ need[w] = <<>> /\ wpc[w] = "filling" /\ res[w] = k /\ phase[w] # "posted"
    \/ need[w] = <<>> /\ ~InHand(w) /\ res[w] = k /\ phase[w] = "posted"

JobInv ==
    \A w \in Workers : IF w \in Range(working) THEN HasJob(w, key[addr[w]])
                                               ELSE Resting(w)

PoolInv ==
    /\ TypeOK /\ NoEmptyFront /\ VectorInv /\ LoopInv /\ HolderInv
    /\ ~abandoned => ~misused /\ ~late /\ JobInv

-----------------------------------------------------------------------------
(* How requests and workers that fit go on fitting: a request is made,     *)
(* given to a worker, answered, and destroyed.                             *)
LEMMA FitsMade ==
    ASSUME NEW W, NEW O, NEW ks \in [Reqs -> Keys \cup {Null}],
           NEW count, NEW has, Fits(W, O, ks, count, has), O \subseteq Workers,
           NEW r \in Reqs, ks[r] = Null, NEW k \in Keys
    PROVE  /\ Fits(W \cup {r}, O, [ks EXCEPT ![r] = k], count, has) /\ r \notin W
           /\ Fresh(W, O, count, has) => Fresh(W \cup {r}, O, count, has)
BY NullAssumption DEF Fits, Fresh

LEMMA FitsGiven ==
    ASSUME NEW W, NEW O, NEW ks, NEW count, NEW has \in [Workers -> Reqs \cup {Null}],
           Fits(W, O, ks, count, has),
           NEW r \in W, NEW w \in Workers, w \notin O, O \subseteq Workers,
           NEW V, V = W \ {r}, NEW P, P = O \cup {w},
           NEW had, had = [has EXCEPT ![w] = r]
    PROVE  /\ Fits(V, P, ks, count, had)
           /\ Fresh(W, O, count, has) => Fresh(V, P, count, had)
BY DEF Fits, Fresh

OneMoreAt(r, count, more) ==
    /\ more[r] # 0 /\ (count[r] = 0 => more[r] = 1)
    /\ \A q \in Reqs : q # r => more[q] = count[q]

HeldBy(O, has, r) == \E w \in O : has[w] = r

LEMMA FitsAnswered ==
    ASSUME NEW W, NEW O, NEW ks, NEW count, NEW has, Fits(W, O, ks, count, has),
           NEW r \in Reqs, ks[r] # Null, NEW P, P = {w \in O : has[w] # r},
           NEW more, OneMoreAt(r, count, more)
    PROVE  /\ Fits(W, P, ks, more, has)
           /\ Fresh(W, O, count, has) /\ HeldBy(O, has, r) => Fresh(W, P, more, has)
<1> USE DEF OneMoreAt
<1>1. Fits(W, P, ks, more, has)
  BY DEF Fits
<1>2. ASSUME Fresh(W, O, count, has), NEW w \in O, has[w] = r PROVE Fresh(W, P, more, has)
  <2>1. r \notin W /\ more[r] = 1
    BY <1>2 DEF Fits, Fresh
  <2> QED
    BY <1>2, <2>1 DEF Fits, Fresh
<1> QED
  BY <1>1, <1>2 DEF HeldBy

LEMMA FitsGone ==
    ASSUME NEW W, NEW O, NEW ks \in [Reqs -> Keys \cup {Null}],
           NEW count \in [Reqs -> Nat],
           NEW has, Fits(W, O, ks, count, has), O \subseteq Workers,
           NEW r \in Reqs, NEW V, V = W \ {r}, NEW P, P = {w \in O : has[w] # r},
           NEW less, less = [count EXCEPT ![r] = 0]
    PROVE  /\ Fits(V, P, [ks EXCEPT ![r] = Null], less, has)
           /\ Fresh(W, O, count, has) => Fresh(V, P, less, has)
<1>1. less[r] = 0 /\ \A q \in Reqs : q # r => less[q] = count[q]
  OBVIOUS
<1> QED
  BY <1>1 DEF Fits, Fresh

-----------------------------------------------------------------------------
(* assign_work gives one waiting request to one free worker, or changes    *)
(* nothing (AsyncAddrInfo.cpp:194-203).                                    *)
Gives(ws, fs, os) ==
    \E w \in Range(fs), r \in Range(ws) :
        /\ Range(waiting') = Range(ws) \ {r}
        /\ Range(working') = Range(os) \cup {w}
        /\ addr' = [addr EXCEPT ![w] = r]
        /\ need' = [need EXCEPT ![w] = Append(@, key'[r])]
        /\ hasWork' = [hasWork EXCEPT ![w] = TRUE]

GivesNothing(ws, fs, os) ==
    /\ waiting' = ws /\ free' = fs /\ working' = os
    /\ UNCHANGED <<addr, need, hasWork>>

LEMMA Assigning ==
    ASSUME NEW ws \in Seq(Reqs), NEW fs \in Seq(Workers), NEW os \in Seq(Workers),
           Distinct(ws), Distinct(fs), Distinct(os), Range(fs) \cap Range(os) = {},
           AssignWork(ws, fs, os)
    PROVE  /\ waiting' \in Seq(Reqs) /\ free' \in Seq(Workers)
           /\ working' \in Seq(Workers)
           /\ Distinct(waiting') /\ Distinct(free') /\ Distinct(working')
           /\ Range(free') \cap Range(working') = {}
           /\ Range(free') \cup Range(working') = Range(fs) \cup Range(os)
           /\ Gives(ws, fs, os) \/ GivesNothing(ws, fs, os)
<1>1. CASE ws # <<>> /\ fs # <<>>
  <2>1. PICK w \in Workers, r \in Reqs : w = Last(fs) /\ r = Head(ws)
    BY <1>1, PopBack, PopFront
  <2>2. /\ waiting' = Tail(ws) /\ free' = Front(fs) /\ working' = Append(os, w)
        /\ addr' = [addr EXCEPT ![w] = r]
        /\ need' = [need EXCEPT ![w] = Append(@, key'[r])]
        /\ hasWork' = [hasWork EXCEPT ![w] = TRUE]
    BY <1>1, <2>1 DEF AssignWork, Assignable
  <2>3. /\ waiting' \in Seq(Reqs) /\ Distinct(waiting') /\ r \in Range(ws)
        /\ Range(waiting') = Range(ws) \ {r}
    BY <1>1, <2>1, <2>2, PopFront
  <2>4. /\ free' \in Seq(Workers) /\ Distinct(free')
        /\ Range(fs) = Range(free') \cup {w} /\ w \notin Range(free')
    BY <1>1, <2>1, <2>2, PopBack
  <2>5. /\ working' \in Seq(Workers) /\ Distinct(working')
        /\ Range(working') = Range(os) \cup {w}
    BY <2>2, <2>4, PushBack
  <2>6. Gives(ws, fs, os)
    BY <2>2, <2>3, <2>4, <2>5 DEF Gives
  <2> QED
    BY <2>3, <2>4, <2>5, <2>6
<1>2. CASE ~(ws # <<>> /\ fs # <<>>)
  BY <1>2 DEF AssignWork, Assignable, GivesNothing
<1> QED
  BY <1>1, <1>2

(* return_worker_with finds the worker that has r, if one has              *)
(* (AsyncAddrInfo.cpp:161-174).                                            *)
LEMMA HolderReturned ==
    ASSUME working \in Seq(Workers), free \in Seq(Workers), Distinct(working),
           Distinct(free), Range(free) \cap Range(working) = {},
           NEW r, NEW w \in Range(working), addr[w] = r,
           \A v \in Range(working) : addr[v] = r => v = w
    PROVE  /\ Returned(r) \in Seq(Workers) /\ Without(working, r) \in Seq(Workers)
           /\ Distinct(Returned(r)) /\ Distinct(Without(working, r))
           /\ Range(Returned(r)) = Range(free) \cup {w}
           /\ Range(Without(working, r)) = Range(working) \ {w}
           /\ With(working, r) # {}
<1>1. PICK i \in 1 .. Len(working) : working[i] = w
  BY InRange
<1>2. \A j \in With(working, r) : working[j] = w
  BY InRange DEF With
<1>3. With(working, r) = {i}
  BY <1>1, <1>2 DEF With, Distinct
<1>4. (CHOOSE j \in With(working, r) : TRUE) = i
  BY <1>3
<1>5. Without(working, r) = Front([working EXCEPT ![i] = Last(working)])
  BY <1>3, <1>4 DEF Without
<1>6. Returned(r) = Append(free, w) /\ w \in Workers
  BY <1>1, <1>3, <1>4, InRange DEF Returned
<1>7. /\ Without(working, r) \in Seq(Workers) /\ Distinct(Without(working, r))
      /\ Range(Without(working, r)) = Range(working) \ {w}
  <2> DEFINE t == Front([working EXCEPT ![i] = Last(working)])
  <2>1. t \in Seq(Workers) /\ Distinct(t) /\ Range(t) = Range(working) \ {working[i]}
    BY SwapOut
  <2> QED
    BY <1>1, <1>5, <2>1
<1> QED
  BY <1>3, <1>6, <1>7, PushBack

LEMMA NobodyReturned ==
    ASSUME NEW r, working \in Seq(Workers), \A v \in Range(working) : addr[v] # r
    PROVE  /\ Returned(r) = free /\ Without(working, r) = working
           /\ With(working, r) = {}
<1>1. \A i \in 1 .. Len(working) : addr[working[i]] # r
  BY InRange
<1>2. With(working, r) = {}
  BY <1>1 DEF With
<1>3. Returned(r) = free
  BY <1>2 DEF Returned
<1>4. Without(working, r) = working
  BY <1>2 DEF Without
<1> QED
  BY <1>2, <1>3, <1>4

(* Both at once, for the vectors as they are.                              *)
LEMMA Returning ==
    ASSUME VectorInv, HolderInv, NEW r, NEW P,
           P = {w \in Range(working) : addr[w] # r}
    PROVE  /\ Returned(r) \in Seq(Workers) /\ Without(working, r) \in Seq(Workers)
           /\ Distinct(Returned(r)) /\ Distinct(Without(working, r))
           /\ Range(Without(working, r)) = P
           /\ Range(Returned(r)) = Range(free) \cup (Range(working) \ P)
           /\ With(working, r) = {} => P = Range(working)
<1>1. CASE \A w \in Range(working) : addr[w] # r
  <2>1. P = Range(working)
    BY <1>1
  <2> QED
    BY <1>1, <2>1, NobodyReturned DEF VectorInv
<1>2. CASE \E w \in Range(working) : addr[w] = r
  <2>1. PICK w \in Range(working) : addr[w] = r
    BY <1>2
  <2>2. \A v \in Range(working) : addr[v] = r => v = w
    BY <2>1 DEF HolderInv, Fits
  <2>3. P = Range(working) \ {w}
    BY <2>1, <2>2
  <2> QED
    BY <2>1, <2>2, <2>3, HolderReturned DEF VectorInv
<1> QED
  BY <1>1, <1>2

(* The vectors are empty until the workers are started.                    *)
LEMMA StartedIsPool ==
    VectorInv => (Started <=> Pool # {}) /\ (Pool = {} => free = <<>> /\ working = <<>>)
<1> SUFFICES ASSUME VectorInv
             PROVE  (Started <=> Pool # {}) /\ (Pool = {} => free = <<>> /\ working = <<>>)
  OBVIOUS
<1>1. \A s \in Seq(Workers) : s = <<>> <=> Range(s) = {}
  <2>1. ASSUME NEW s \in Seq(Workers) PROVE s = <<>> <=> Range(s) = {}
    <3>1. CASE s = <<>>
      BY <3>1 DEF Range
    <3>2. CASE s # <<>>
      BY <3>2, PopFront
    <3> QED
      BY <3>1, <3>2
  <2> QED
    BY <2>1
<1>2. free \o working = <<>> <=> free = <<>> /\ working = <<>>
  BY ConcatEqualIffEmpty DEF VectorInv
<1> QED
  BY <1>1, <1>2 DEF VectorInv, Started, Pool

(* What TypeOK says of the two vectors.                                    *)
LEMMA VectorTypes ==
    VectorInv => Range(free \o working) \in {{}, Workers} /\ Distinct(free \o working)
<1> SUFFICES ASSUME VectorInv
             PROVE  Range(free \o working) \in {{}, Workers} /\ Distinct(free \o working)
  OBVIOUS
<1>1. free \in Seq(Workers) /\ working \in Seq(Workers)
  BY DEF VectorInv
<1>2. Range(free \o working) = Pool
  BY <1>1, RangeConcatenation DEF Pool
<1>3. Distinct(free \o working)
  <2> DEFINE s == free \o working
             n == Len(free)
             k == Len(working)
  <2>1. n \in Nat /\ k \in Nat
    BY <1>1, LenProperties
  <2>2. Len(s) = n + k /\ \A i \in 1 .. n + k : s[i] = IF i <= n THEN free[i] ELSE working[i - n]
    BY <1>1, ConcatProperties
  <2>3. \A i \in 1 .. n : free[i] \in Range(free)
    BY <1>1, InRange
  <2>4. \A i \in 1 .. k : working[i] \in Range(working)
    BY <1>1, InRange
  <2> HIDE DEF s, n, k
  <2>5. SUFFICES ASSUME NEW i \in 1 .. n + k, NEW j \in 1 .. n + k, i # j
                 PROVE  s[i] # s[j]
    BY <2>2 DEF Distinct, s
  <2>6. /\ \A a, b \in 1 .. n : a # b => free[a] # free[b]
        /\ \A a, b \in 1 .. k : a # b => working[a] # working[b]
    BY DEF VectorInv, Distinct, n, k
  <2>7. CASE i <= n /\ j <= n
    BY <2>1, <2>2, <2>6, <2>7, <2>5
  <2>8. CASE ~(i <= n) /\ ~(j <= n)
    <3>1. i - n \in 1 .. k /\ j - n \in 1 .. k /\ i - n # j - n
      BY <2>1, <2>5, <2>8
    <3> QED
      BY <2>2, <2>6, <2>8, <3>1
  <2>9. CASE i <= n /\ ~(j <= n)
    <3>1. i \in 1 .. n /\ j - n \in 1 .. k
      BY <2>1, <2>9
    <3> QED
      BY <2>2, <2>3, <2>4, <2>9, <3>1 DEF VectorInv
  <2>10. CASE ~(i <= n) /\ j <= n
    <3>1. j \in 1 .. n /\ i - n \in 1 .. k
      BY <2>1, <2>10
    <3> QED
      BY <2>2, <2>3, <2>4, <2>10, <3>1 DEF VectorInv
  <2> QED
    BY <2>7, <2>8, <2>9, <2>10
<1> QED
  BY <1>2, <1>3 DEF VectorInv

-----------------------------------------------------------------------------
LEMMA InitPoolInv == Init => PoolInv
<1> SUFFICES ASSUME Init PROVE PoolInv
  OBVIOUS
<1> USE DEF Init, MailboxInit, Workers
<1>1. /\ <<>> \in Seq(Workers) /\ <<>> \in Seq(Reqs) /\ <<>> \in Seq(Keys)
      /\ Distinct(<<>>) /\ Range(<<>>) = {}
  BY DEF Distinct, Range
<1>2. VectorInv
  BY <1>1 DEF VectorInv, Pool
<1>3. HolderInv
  BY <1>1, NullAssumption DEF HolderInv, Fits, Fresh
<1>4. LoopInv /\ NoEmptyFront
  BY DEF LoopInv, Quitting, NoEmptyFront, Alive
<1>5. JobInv
  BY <1>1 DEF JobInv, Resting, InHand
<1>6. TypeOK
  BY <1>1, <1>2, VectorTypes DEF TypeOK, MailboxTypeOK, Phases
<1> QED
  BY <1>2, <1>3, <1>4, <1>5, <1>6 DEF PoolInv

LEMMA WaitingHaveKeys == PoolInv => \A r \in Range(waiting) : r \in Reqs /\ key[r] \in Keys
BY DEF PoolInv, HolderInv, Fits, TypeOK

(* What the constructor of a request gives assign_work to go on with: the  *)
(* waiting requests, the new one last, each with its key                   *)
(* (AsyncAddrInfo.cpp:145-149, 205-209).                                   *)
LEMMA Making ==
    ASSUME PoolInv, NEW r \in Reqs, StartResolve(r)
    PROVE  /\ Append(waiting, r) \in Seq(Reqs) /\ Distinct(Append(waiting, r))
           /\ Range(Append(waiting, r)) = Range(waiting) \cup {r}
           /\ \A q \in Range(Append(waiting, r)) : key'[q] \in Keys
           /\ \A w \in Range(working) : key'[addr[w]] = key[addr[w]]
<1>1. HolderInv /\ waiting \in Seq(Reqs) /\ key \in [Reqs -> Keys \cup {Null}]
  BY DEF PoolInv, TypeOK
<1>2. PICK k \in Keys : key' = [key EXCEPT ![r] = k]
  BY ReqsAssumption DEF StartResolve
<1>3. key[r] = Null /\ r \notin Range(waiting)
  BY <1>1 DEF StartResolve, Alive, HolderInv, Fits
<1>4. PICK ws : ws = Append(waiting, r)
  OBVIOUS
<1>5. ws \in Seq(Reqs) /\ Distinct(ws) /\ Range(ws) = Range(waiting) \cup {r}
  BY <1>1, <1>3, <1>4, PushBack DEF HolderInv
<1>6. \A q \in Range(waiting) : q \in Reqs /\ key[q] \in Keys
  BY WaitingHaveKeys
<1>7. \A w \in Range(working) : addr[w] # r
  BY <1>1, <1>3 DEF HolderInv, Fits
<1> QED
  BY <1>1, <1>2, <1>4, <1>5, <1>6, <1>7

-----------------------------------------------------------------------------
(* A worker has a slot and a thread once the vectors hold it, and moves    *)
(* between them without getting lost (AsyncAddrInfo.cpp:161-203).          *)
LEMMA VectorStep == PoolInv /\ [Next]_vars => VectorInv'
<1> SUFFICES ASSUME PoolInv, [Next]_vars PROVE VectorInv'
  OBVIOUS
<1>1. TypeOK /\ VectorInv /\ HolderInv /\ LoopInv
  BY DEF PoolInv
<1>2. waiting \in Seq(Reqs) /\ Distinct(waiting)
  BY <1>1 DEF TypeOK, HolderInv
<1>3. ASSUME NEW r \in Reqs, StartResolve(r) PROVE VectorInv'
  <2> DEFINE ws == Append(waiting, r)
  <2>1. AssignWork(ws, IF Started THEN free ELSE NewWorkers, working) /\ StartWorkers
    BY <1>3 DEF StartResolve
  <2>2. ws \in Seq(Reqs) /\ Distinct(ws)
    BY <1>3, Making
  <2> HIDE DEF ws
  <2>3. CASE Started
    BY <1>1, <2>1, <2>2, <2>3, Assigning DEF StartWorkers, VectorInv, Pool
  <2>4. CASE ~Started
    <3>1. Pool = {}
      BY <1>1, <2>4, StartedIsPool
    <3>2. Range(NewWorkers) \cap Range(working) = {}
      BY <3>1 DEF Pool
    <3>3. /\ free' \in Seq(Workers) /\ working' \in Seq(Workers)
          /\ Distinct(free') /\ Distinct(working')
          /\ Range(free') \cap Range(working') = {}
          /\ Range(free') \cup Range(working') = Workers
      BY <1>1, <2>1, <2>2, <2>4, <3>1, <3>2, WorkersMade, Assigning DEF VectorInv, Pool
    <3>4. \A w \in Workers : wpc'[w] = "idle" /\ phase'[w] = "free"
      BY <2>1, <2>4 DEF StartWorkers
    <3> QED
      BY <3>3, <3>4 DEF VectorInv, Pool
  <2> QED
    BY <2>3, <2>4
<1>4. ASSUME NEW r \in Reqs, CancelResolve(r) PROVE VectorInv'
  <2>1. wpc' = wpc /\ phase' = phase
    BY <1>4 DEF CancelResolve, mailbox, threadVars
  <2>2. CASE free' = free /\ working' = working
    BY <1>1, <2>1, <2>2 DEF VectorInv, Pool
  <2>3. CASE free' = Returned(r) /\ working' = Without(working, r)
    <3>1. PICK P : P = {w \in Range(working) : addr[w] # r}
      OBVIOUS
    <3>2. /\ free' \in Seq(Workers) /\ working' \in Seq(Workers)
          /\ Distinct(free') /\ Distinct(working') /\ Range(working') = P
          /\ Range(free') = Range(free) \cup (Range(working) \ P)
      BY <1>1, <2>3, <3>1, Returning
    <3>3. Pool' = Pool /\ Range(free') \cap Range(working') = {}
      BY <1>1, <3>1, <3>2 DEF VectorInv, Pool
    <3> QED
      BY <1>1, <2>1, <3>2, <3>3 DEF VectorInv
  <2> QED
    BY <1>4, <2>2, <2>3 DEF CancelResolve
<1>5. ASSUME NEW w \in Workers, OnCall(w) PROVE VectorInv'
  <2>1. /\ wpc' = wpc /\ phase[w] = "posted"
        /\ phase' = [phase EXCEPT ![w] = "handling"]
    BY <1>5 DEF OnCall, Handle, Move, threadVars
  <2>2. \A v \in Workers : phase'[v] = "none" <=> phase[v] = "none"
    BY <1>1, <2>1 DEF TypeOK, MailboxTypeOK, Workers
  <2>3. CASE free' = free /\ working' = working
    BY <1>1, <2>1, <2>2, <2>3 DEF VectorInv, Pool
  <2>4. CASE free' = Returned(addr[w]) /\ working' = Without(working, addr[w])
    <3>1. PICK P : P = {v \in Range(working) : addr[v] # addr[w]}
      OBVIOUS
    <3> QED
      BY <1>1, <2>1, <2>2, <2>4, <3>1, Returning DEF VectorInv, Pool
  <2> QED
    BY <1>5, <2>3, <2>4 DEF OnCall
<1>6. CASE ReturnDelegate
  BY <1>1, <1>2, <1>6, Assigning DEF ReturnDelegate, mailbox, threadVars, VectorInv, Pool
<1>7. ASSUME UNCHANGED <<free, working>>,
             \A w \in Workers : /\ wpc'[w] = "none" <=> wpc[w] = "none"
                                /\ phase'[w] = "none" <=> phase[w] = "none"
      PROVE  VectorInv'
  BY <1>1, <1>7 DEF VectorInv, Pool
<1>8. ASSUME NEW w \in Workers, Worker(w) PROVE VectorInv'
  BY <1>1, <1>7, <1>8
     DEF Worker, TakeWork, FillResult, TakeSlot, Fill, Throw, PostResult, Post, Move,
         mailbox, poolVars, TypeOK, MailboxTypeOK, Workers
<1>9. ASSUME NEW w \in Workers, Quit(w) PROVE VectorInv'
  BY <1>7, <1>9 DEF Quit, mailbox, poolVars
<1>10. CASE ReturnCall \/ LockQuit \/ JoinQuit
  BY <1>1, <1>7, <1>10
     DEF ReturnCall, LockQuit, JoinQuit, Done, Close, Move, mailbox, poolVars,
         threadVars, TypeOK, MailboxTypeOK, Workers
<1>11. CASE UNCHANGED vars
  BY <1>7, <1>11 DEF vars, mailbox, poolVars, threadVars
<1> QED
  BY <1>3, <1>4, <1>5, <1>6, <1>8, <1>9, <1>10, <1>11 DEF Next, LoopStep

(* The free workers assign_work finds: when the pool is made, all.         *)
Found == IF Started THEN free ELSE NewWorkers

LEMMA FoundFree ==
    VectorInv => /\ Found \in Seq(Workers) /\ Distinct(Found)
                 /\ Range(Found) \cap Range(working) = {}
<1> SUFFICES ASSUME VectorInv
             PROVE  /\ Found \in Seq(Workers) /\ Distinct(Found)
                    /\ Range(Found) \cap Range(working) = {}
  OBVIOUS
<1>1. CASE Started
  BY <1>1 DEF VectorInv, Found
<1>2. CASE ~Started
  BY <1>2, StartedIsPool, WorkersMade DEF Found, Pool
<1> QED
  BY <1>1, <1>2

(* What fits still does when assign_work has run.                          *)
LEMMA FitsAssigned ==
    ASSUME NEW ws \in Seq(Reqs), NEW fs \in Seq(Workers), NEW os \in Seq(Workers),
           Distinct(ws), Distinct(fs), Distinct(os), Range(fs) \cap Range(os) = {},
           addr \in [Workers -> Reqs \cup {Null}], AssignWork(ws, fs, os),
           NEW ks, NEW count, Fits(Range(ws), Range(os), ks, count, addr)
    PROVE  /\ Fits(Range(waiting'), Range(working'), ks, count, addr')
           /\ Fresh(Range(ws), Range(os), count, addr)
                => Fresh(Range(waiting'), Range(working'), count, addr')
<1>1. CASE GivesNothing(ws, fs, os)
  BY <1>1 DEF GivesNothing
<1>2. CASE Gives(ws, fs, os)
  <2>1. PICK w \in Range(fs), r \in Range(ws) :
            /\ Range(waiting') = Range(ws) \ {r}
            /\ Range(working') = Range(os) \cup {w}
            /\ addr' = [addr EXCEPT ![w] = r]
    BY <1>2 DEF Gives
  <2>2. w \in Workers /\ w \notin Range(os) /\ Range(os) \subseteq Workers
    BY InRange
  <2> QED
    BY <2>1, <2>2, FitsGiven
<1>3. Gives(ws, fs, os) \/ GivesNothing(ws, fs, os)
  BY Assigning
<1> QED
  BY <1>1, <1>2, <1>3

(* Requests are not lost and not in two places, and until a late result    *)
(* answers one, none that is answered is left behind.                      *)
LEMMA HolderStep == PoolInv /\ [Next]_vars => HolderInv'
<1> SUFFICES ASSUME PoolInv, [Next]_vars PROVE HolderInv'
  OBVIOUS
<1>1. TypeOK /\ VectorInv /\ HolderInv
  BY DEF PoolInv
<1> DEFINE W == Range(waiting)
           O == Range(working)
<1>2. /\ waiting \in Seq(Reqs) /\ Distinct(waiting) /\ answers \in [Reqs -> Nat]
      /\ key \in [Reqs -> Keys \cup {Null}]
      /\ addr \in [Workers -> Reqs \cup {Null}]
      /\ Fits(W, O, key, answers, addr) /\ (~late => Fresh(W, O, answers, addr))
  BY <1>1 DEF TypeOK, HolderInv
<1>3. O \subseteq Workers /\ working \in Seq(Workers) /\ Distinct(working)
  BY <1>1, InRange DEF VectorInv
<1>4. ASSUME NEW r \in Reqs, StartResolve(r) PROVE HolderInv'
  <2> DEFINE ws == Append(waiting, r)
  <2>1. PICK k \in Keys : key' = [key EXCEPT ![r] = k]
    BY <1>4, ReqsAssumption DEF StartResolve
  <2>2. key[r] = Null /\ AssignWork(ws, Found, working) /\ UNCHANGED <<answers, late>>
    BY <1>4 DEF StartResolve, Alive, Found, ghosts
  <2>3. /\ Fits(W \cup {r}, O, key', answers, addr)
        /\ ~late => Fresh(W \cup {r}, O, answers, addr)
    BY <1>2, <1>3, <2>1, <2>2, FitsMade
  <2>4. ws \in Seq(Reqs) /\ Distinct(ws) /\ Range(ws) = W \cup {r}
    BY <1>4, Making
  <2> HIDE DEF ws, W, O
  <2>5. /\ Found \in Seq(Workers) /\ Distinct(Found)
        /\ Range(Found) \cap Range(working) = {}
    BY <1>1, FoundFree
  <2>6. /\ Fits(Range(ws), Range(working), key', answers, addr)
        /\ ~late => Fresh(Range(ws), Range(working), answers, addr)
    BY <2>3, <2>4 DEF O
  <2>7. /\ Fits(Range(waiting'), Range(working'), key', answers, addr')
        /\ ~late => Fresh(Range(waiting'), Range(working'), answers, addr')
    BY <1>2, <1>3, <2>2, <2>4, <2>5, <2>6, FitsAssigned
  <2>8. Distinct(waiting')
    BY <1>3, <2>2, <2>4, <2>5, Assigning
  <2> QED
    BY <2>2, <2>7, <2>8 DEF HolderInv
<1>5. ASSUME NEW r \in Reqs, CancelResolve(r) PROVE HolderInv'
  <2>1. /\ key' = [key EXCEPT ![r] = Null] /\ answers' = [answers EXCEPT ![r] = 0]
        /\ addr' = addr /\ late' = late
    BY <1>5 DEF CancelResolve, workVars
  <2>2. PICK P : P = {w \in O : addr[w] # r}
    OBVIOUS
  <2>3. Distinct(waiting') /\ Range(waiting') = W \ {r} /\ Range(working') = P
    <3>1. CASE r \in W
      <4>1. waiting' = Erase(waiting, r) /\ working' = working
        BY <1>5, <3>1 DEF CancelResolve
      <4>2. P = O
        BY <1>2, <2>2, <3>1 DEF Fits
      <4> QED
        BY <1>2, <4>1, <4>2, EraseProperties
    <3>2. CASE r \notin W
      <4>1. waiting' = waiting /\ working' = Without(working, r)
        BY <1>5, <3>2 DEF CancelResolve
      <4> QED
        BY <1>1, <1>2, <2>2, <3>2, <4>1, Returning
    <3> QED
      BY <3>1, <3>2
  <2>4. PICK V : V = W \ {r}
    OBVIOUS
  <2>5. /\ Fits(V, P, key', answers', addr)
        /\ Fresh(W, O, answers, addr) => Fresh(V, P, answers', addr)
    BY <1>2, <1>3, <2>1, <2>2, <2>4, FitsGone
  <2> QED
    BY <1>2, <2>1, <2>3, <2>4, <2>5 DEF HolderInv
<1>6. ASSUME NEW w \in Workers, OnCall(w) PROVE HolderInv'
  <2>1. waiting' = waiting /\ key' = key /\ addr' = addr
    BY <1>6 DEF OnCall, workVars
  <2>2. CASE UNCHANGED <<answers, working, late>>
    BY <1>1, <2>1, <2>2 DEF HolderInv
  <2>3. CASE /\ addr[w] # Null /\ Alive(addr[w])
             /\ answers' = [answers EXCEPT ![addr[w]] = @ + 1]
             /\ working' = Without(working, addr[w])
             /\ late' = (late \/ w \notin Range(working))
    <3>1. PICK r \in Reqs : r = addr[w] /\ key[r] # Null
      BY <1>2, <2>3 DEF Alive
    <3>2. PICK P : P = {v \in O : addr[v] # r}
      OBVIOUS
    <3>3. Range(working') = P
      BY <1>1, <2>3, <3>1, <3>2, Returning
    <3>4. answers' = [answers EXCEPT ![r] = @ + 1]
      BY <2>3, <3>1
    <3>5. OneMoreAt(r, answers, answers')
      BY <1>2, <3>4 DEF OneMoreAt
    <3>6. PICK more : more = answers'
      OBVIOUS
    <3> HIDE DEF W, O
    <3>7. /\ Fits(W, P, key, more, addr)
          /\ Fresh(W, O, answers, addr) /\ HeldBy(O, addr, r) => Fresh(W, P, more, addr)
      BY <1>2, <3>1, <3>2, <3>5, <3>6, FitsAnswered
    <3>8. ~late' => Fresh(W, P, more, addr)
      BY <1>2, <2>3, <3>1, <3>7 DEF O, HeldBy
    <3> QED
      BY <1>2, <2>1, <3>3, <3>6, <3>7, <3>8 DEF HolderInv, W
  <2> QED
    BY <1>6, <2>2, <2>3 DEF OnCall
<1>7. CASE ReturnDelegate
  <2>1. AssignWork(waiting, free, working) /\ UNCHANGED <<key, answers, late>>
    BY <1>7 DEF ReturnDelegate, reqVars, ghosts
  <2>2. /\ free \in Seq(Workers) /\ Distinct(free) /\ Range(free) \cap Range(working) = {}
    BY <1>1 DEF VectorInv
  <2>3. /\ Fits(Range(waiting'), Range(working'), key, answers, addr')
        /\ ~late => Fresh(Range(waiting'), Range(working'), answers, addr')
    BY <1>2, <1>3, <2>1, <2>2, FitsAssigned
  <2>4. Distinct(waiting')
    BY <1>2, <1>3, <2>1, <2>2, Assigning
  <2> QED
    BY <2>1, <2>3, <2>4 DEF HolderInv
<1>8. ASSUME UNCHANGED <<waiting, working, key, answers, addr, late>> PROVE HolderInv'
  BY <1>1, <1>8 DEF HolderInv
<1>9. ASSUME NEW w \in Workers, Worker(w) \/ Quit(w) PROVE HolderInv'
  BY <1>8, <1>9
     DEF Worker, TakeWork, FillResult, Throw, PostResult, Quit, reqVars, poolVars, workVars,
         ghosts
<1>10. CASE ReturnCall \/ LockQuit \/ JoinQuit
  BY <1>8, <1>10 DEF ReturnCall, LockQuit, JoinQuit, reqVars, poolVars, workVars, ghosts
<1>11. CASE UNCHANGED vars
  BY <1>8, <1>11 DEF vars, reqVars, poolVars, workVars, ghosts
<1> QED
  BY <1>4, <1>5, <1>6, <1>7, <1>9, <1>10, <1>11 DEF Next, LoopStep

-----------------------------------------------------------------------------
(* What the loop thread holds stays as it is until it goes on: the slot it *)
(* handles is its own (AsyncAddrInfo.cpp:69-90, ActiveMsg.h:70-74).        *)
LEMMA PlaceStep == PoolInv /\ [Next]_vars => LoopInv'
<1> SUFFICES ASSUME PoolInv, [Next]_vars PROVE LoopInv'
  OBVIOUS
<1>1. LoopInv /\ VectorInv /\ HolderInv
  BY DEF PoolInv
<1>2. /\ phase \in [Workers -> Phases] /\ destroyed \in [Workers -> BOOLEAN]
      /\ res \in [Workers -> Keys \cup {Null}] /\ key \in [Reqs -> Keys \cup {Null}]
      /\ addr \in [Workers -> Reqs \cup {Null}]
  BY DEF PoolInv, TypeOK, MailboxTypeOK, Workers
<1> USE DEF LoopInv, Quitting, Alive
<1>3. ASSUME NEW r \in Reqs, StartResolve(r) PROVE LoopInv'
  <2>1. /\ UserRuns /\ StartWorkers /\ key[r] = Null
        /\ UNCHANGED <<pc, cur, curW, res, destroyed>>
        /\ \A q \in Reqs : q # r => key'[q] = key[q]
    BY <1>2, <1>3 DEF StartResolve, loopVars
  <2>2. CASE Started
    BY <1>1, <2>1, <2>2 DEF StartWorkers, UserRuns
  <2>3. CASE ~Started
    <3>1. \A w \in Workers : phase[w] = "none"
      BY <1>1, <2>3, StartedIsPool DEF VectorInv
    <3>2. pc = "user"
      BY <1>1, <2>1, <3>1 DEF UserRuns
    <3> QED
      BY <1>1, <2>1, <3>2
  <2> QED
    BY <2>2, <2>3
<1>4. ASSUME NEW r \in Reqs, CancelResolve(r) PROVE LoopInv'
  BY <1>1, <1>2, <1>4 DEF CancelResolve, threadVars, mailbox, UserRuns
<1>5. ASSUME NEW w \in Workers, OnCall(w) PROVE LoopInv'
  <2>1. /\ pc = "user" /\ curW' = w /\ phase'[w] = "handling"
        /\ UNCHANGED <<key, res, destroyed>>
    BY <1>2, <1>5 DEF OnCall, Handle, Move, threadVars
  <2>2. \/ pc' = "after"
        \/ pc' = "delegate" /\ cur' = addr[w] /\ addr[w] \in Reqs
           /\ key[addr[w]] # Null /\ key[addr[w]] = res[w]
    BY <1>2, <1>5 DEF OnCall, Answers
  <2> QED
    BY <1>1, <2>1, <2>2
<1>6. CASE ReturnDelegate \/ ReturnCall \/ LockQuit \/ JoinQuit
  BY <1>1, <1>2, <1>6
     DEF ReturnDelegate, ReturnCall, LockQuit, JoinQuit, mailbox, threadVars, reqVars
<1>7. ASSUME NEW w \in Workers, Quit(w) PROVE LoopInv'
  BY <1>1, <1>2, <1>7 DEF Quit, mailbox, reqVars
<1>8. ASSUME NEW w \in Workers, Worker(w) PROVE LoopInv'
  BY <1>1, <1>2, <1>8
     DEF Worker, TakeWork, FillResult, TakeSlot, Fill, Throw, PostResult, Post, Move,
         mailbox, reqVars, loopVars, Workers
<1>9. CASE UNCHANGED vars
  BY <1>1, <1>9 DEF vars, mailbox, reqVars, threadVars, loopVars
<1> QED
  BY <1>3, <1>4, <1>5, <1>6, <1>7, <1>8, <1>9 DEF Next, LoopStep

(* Worker::run finds something at the front of need_work                   *)
(* (AsyncAddrInfo.cpp:93-103).                                             *)
LEMMA FrontStep == PoolInv /\ [Next]_vars => NoEmptyFront'
<1> SUFFICES ASSUME PoolInv, [Next]_vars PROVE NoEmptyFront'
  OBVIOUS
<1>1. NoEmptyFront /\ VectorInv /\ LoopInv
  BY DEF PoolInv
<1>2. /\ hasWork \in [Workers -> BOOLEAN] /\ destroyed \in [Workers -> BOOLEAN]
      /\ need \in [Workers -> Seq(Keys)] /\ waiting \in Seq(Reqs)
  BY DEF PoolInv, TypeOK
<1> USE DEF NoEmptyFront
<1>3. ASSUME NEW ws \in Seq(Reqs), NEW fs \in Seq(Workers), AssignWork(ws, fs, working),
             \A r \in Range(ws) : key'[r] \in Keys, UNCHANGED destroyed
      PROVE  NoEmptyFront'
  <2>1. CASE UNCHANGED <<need, hasWork>>
    BY <1>1, <1>3, <2>1
  <2>2. CASE ws # <<>> /\ fs # <<>>
    <3>1. PICK w \in Workers, r \in Reqs : w = Last(fs) /\ r = Head(ws)
      BY <2>2, PopBack, PopFront
    <3>2. /\ need' = [need EXCEPT ![w] = Append(@, key'[r])]
          /\ hasWork' = [hasWork EXCEPT ![w] = TRUE]
      BY <1>3, <2>2, <3>1 DEF AssignWork, Assignable
    <3>3. Append(need[w], key'[r]) # <<>>
      <4>1. key'[r] \in Keys
        BY <1>3, <2>2, <3>1, PopFront
      <4> QED
        BY <1>2, <4>1, PushBack
    <3> QED
      BY <1>1, <1>2, <1>3, <3>2, <3>3
  <2> QED
    BY <1>3, <2>1, <2>2 DEF AssignWork, Assignable
<1>4. ASSUME NEW r \in Reqs, StartResolve(r) PROVE NoEmptyFront'
  <2>1. /\ Append(waiting, r) \in Seq(Reqs) /\ Found \in Seq(Workers)
        /\ \A q \in Range(Append(waiting, r)) : key'[q] \in Keys
    BY <1>1, <1>4, Making, FoundFree
  <2> QED
    BY <1>3, <1>4, <2>1 DEF StartResolve, Found
<1>5. CASE ReturnDelegate
  <2>1. \A r \in Range(waiting) : key'[r] \in Keys
    BY <1>5, WaitingHaveKeys DEF ReturnDelegate, reqVars
  <2> QED
    BY <1>1, <1>2, <1>3, <1>5, <2>1 DEF ReturnDelegate, threadVars, VectorInv
<1>6. CASE LockQuit
  BY <1>1, <1>2, <1>6 DEF LockQuit, LoopInv, threadVars
<1>7. ASSUME UNCHANGED <<need, hasWork>>,
             \A w \in Workers : destroyed[w] => destroyed'[w]
      PROVE  NoEmptyFront'
  BY <1>1, <1>7
<1>8. ASSUME NEW w \in Workers, TakeWork(w) PROVE NoEmptyFront'
  BY <1>1, <1>2, <1>8 DEF TakeWork, More
<1>9. ASSUME NEW w \in Workers, FillResult(w) \/ Throw(w) \/ PostResult(w) \/ Quit(w)
      PROVE  NoEmptyFront'
  BY <1>2, <1>7, <1>9 DEF FillResult, Throw, PostResult, Quit, workVars
<1>10. ASSUME NEW r \in Reqs, CancelResolve(r) PROVE NoEmptyFront'
  BY <1>7, <1>10 DEF CancelResolve, workVars, threadVars
<1>11. ASSUME NEW w \in Workers, OnCall(w) PROVE NoEmptyFront'
  BY <1>7, <1>11 DEF OnCall, workVars, threadVars
<1>12. CASE ReturnCall \/ JoinQuit
  BY <1>7, <1>12 DEF ReturnCall, JoinQuit, workVars, threadVars
<1>13. CASE UNCHANGED vars
  BY <1>7, <1>13 DEF vars, workVars, threadVars
<1> QED
  BY <1>4, <1>5, <1>6, <1>8, <1>9, <1>10, <1>11, <1>12, <1>13 DEF Next, LoopStep, Worker

-----------------------------------------------------------------------------
(* The message a worker posts is about the request it has, as long as none *)
(* was taken from a worker.                                                *)
LEMMA PostedIsCurrent ==
    ASSUME PoolInv, ~abandoned, NEW w \in Workers, phase[w] = "posted"
    PROVE  /\ w \in Range(working) /\ need[w] = <<>> /\ ~InHand(w)
           /\ addr[w] \in Reqs /\ Alive(addr[w]) /\ res[w] = key[addr[w]]
BY DEF PoolInv, JobInv, Resting, HasJob, HolderInv, Fits, Alive

LEMMA AnswerStep == PoolInv /\ [Next]_vars => (~abandoned' => ~misused' /\ ~late')
<1> SUFFICES ASSUME PoolInv, [Next]_vars, ~abandoned' PROVE ~misused' /\ ~late'
  OBVIOUS
<1>1. ~abandoned
  BY DEF Next, LoopStep, Worker, vars, StartResolve, CancelResolve, OnCall, ReturnDelegate,
         ReturnCall, Quit, LockQuit, JoinQuit, TakeWork, FillResult, Throw, PostResult, ghosts
<1>2. ~misused /\ ~late
  BY <1>1 DEF PoolInv
<1>3. ASSUME NEW w \in Workers, OnCall(w) PROVE ~misused' /\ ~late'
  <2>1. phase[w] = "posted"
    BY <1>3 DEF OnCall, Handle, Move
  <2>2. w \in Range(working) /\ Alive(addr[w])
    BY <1>1, <2>1, PostedIsCurrent
  <2> QED
    BY <1>2, <1>3, <2>2 DEF OnCall
<1>4. ASSUME UNCHANGED <<misused, late>> PROVE ~misused' /\ ~late'
  BY <1>2, <1>4
<1> QED
  BY <1>3, <1>4
     DEF Next, LoopStep, Worker, vars, StartResolve, CancelResolve, ReturnDelegate,
         ReturnCall, Quit, LockQuit, JoinQuit, TakeWork, FillResult, Throw, PostResult,
         ghosts

(* assign_work gives a job to a worker that rests.                         *)
LEMMA JobAssigned ==
    ASSUME PoolInv, JobInv, NEW ws \in Seq(Reqs), NEW fs \in Seq(Workers),
           Distinct(ws), Distinct(fs), Range(fs) \cap Range(working) = {},
           AssignWork(ws, fs, working), UNCHANGED <<work, res>>,
           \A r \in Range(ws) : key'[r] \in Keys,
           \A w \in Range(working) : key'[addr[w]] = key[addr[w]],
           \A w \in Workers :
               \/ wpc'[w] = wpc[w] /\ phase'[w] = phase[w]
               \/ w \notin Range(working) /\ wpc'[w] = "idle" /\ phase'[w] = "free"
    PROVE  JobInv'
<1>1. /\ working \in Seq(Workers) /\ Distinct(working)
      /\ addr \in [Workers -> Reqs \cup {Null}] /\ need \in [Workers -> Seq(Keys)]
  BY DEF PoolInv, VectorInv, TypeOK
<1>2. SUFFICES ASSUME NEW v \in Workers
               PROVE  IF v \in Range(working') THEN HasJob(v, key[addr[v]])'
                                               ELSE Resting(v)'
  BY DEF JobInv
<1>3. CASE GivesNothing(ws, fs, working)
  BY <1>3 DEF GivesNothing, JobInv, HasJob, Resting, InHand
<1>4. CASE Gives(ws, fs, working)
  <2>1. PICK w \in Range(fs), r \in Range(ws) :
            /\ Range(working') = Range(working) \cup {w}
            /\ addr' = [addr EXCEPT ![w] = r]
            /\ need' = [need EXCEPT ![w] = Append(@, key'[r])]
    BY <1>4 DEF Gives
  <2>2. w \in Workers /\ r \in Reqs /\ w \notin Range(working)
    BY InRange
  <2>3. CASE v # w
    BY <1>1, <2>1, <2>2, <2>3 DEF JobInv, HasJob, Resting, InHand
  <2>4. CASE v = w
    <3>1. Resting(w)
      BY <2>2 DEF JobInv
    <3>2. need'[w] = <<key'[r]>> /\ addr'[w] = r
      BY <1>1, <2>1, <2>2, <3>1 DEF Resting
    <3>3. ~InHand(w)' /\ phase'[w] # "posted"
      BY <2>2, <3>1 DEF Resting, InHand
    <3> QED
      BY <2>1, <2>4, <3>2, <3>3 DEF HasJob
  <2> QED
    BY <2>3, <2>4
<1>5. Gives(ws, fs, working) \/ GivesNothing(ws, fs, working)
  BY <1>1, Assigning
<1> QED
  BY <1>3, <1>4, <1>5

LEMMA JobStep == PoolInv /\ [Next]_vars => (~abandoned' => JobInv')
<1> SUFFICES ASSUME PoolInv, [Next]_vars, ~abandoned' PROVE JobInv'
  OBVIOUS
<1>1. ~abandoned
  BY DEF Next, LoopStep, Worker, vars, StartResolve, CancelResolve, OnCall, ReturnDelegate,
         ReturnCall, Quit, LockQuit, JoinQuit, TakeWork, FillResult, Throw, PostResult, ghosts
<1>2. JobInv /\ NoEmptyFront /\ VectorInv /\ LoopInv /\ HolderInv
  BY <1>1 DEF PoolInv
<1>3. /\ phase \in [Workers -> Phases] /\ need \in [Workers -> Seq(Keys)]
      /\ wpc \in [Workers -> {"none", "idle", "resolving", "filling", "exited"}]
      /\ work \in [Workers -> Keys \cup {Null}] /\ res \in [Workers -> Keys \cup {Null}]
      /\ waiting \in Seq(Reqs) /\ addr \in [Workers -> Reqs \cup {Null}]
      /\ key \in [Reqs -> Keys \cup {Null}]
  BY DEF PoolInv, TypeOK, MailboxTypeOK, Workers
<1>4. ASSUME NEW r \in Reqs, StartResolve(r) PROVE JobInv'
  <2> DEFINE ws == Append(waiting, r)
  <2>1. AssignWork(ws, Found, working) /\ StartWorkers /\ UNCHANGED <<work, res>>
    BY <1>4 DEF StartResolve, Found
  <2>2. /\ ws \in Seq(Reqs) /\ Distinct(ws) /\ \A q \in Range(ws) : key'[q] \in Keys
        /\ \A w \in Range(working) : key'[addr[w]] = key[addr[w]]
    BY <1>4, Making
  <2> HIDE DEF ws
  <2>3. \A w \in Workers :
            \/ wpc'[w] = wpc[w] /\ phase'[w] = phase[w]
            \/ w \notin Range(working) /\ wpc'[w] = "idle" /\ phase'[w] = "free"
    BY <1>2, <2>1, StartedIsPool DEF StartWorkers, Pool
  <2>4. /\ Found \in Seq(Workers) /\ Distinct(Found)
        /\ Range(Found) \cap Range(working) = {}
    BY <1>2, FoundFree
  <2> QED
    BY <1>2, <2>1, <2>2, <2>3, <2>4, JobAssigned
<1>5. ASSUME NEW r \in Reqs, CancelResolve(r) PROVE JobInv'
  <2>1. /\ UNCHANGED <<addr, need, work, res, wpc, phase>>
        /\ key' = [key EXCEPT ![r] = Null]
    BY <1>5 DEF CancelResolve, mailbox, workVars, threadVars
  <2>2. working' = working /\ \A w \in Range(working) : addr[w] # r
    <3>1. CASE r \in Range(waiting)
      BY <1>2, <1>5, <3>1 DEF CancelResolve, HolderInv, Fits
    <3>2. CASE r \notin Range(waiting)
      <4>1. working' = Without(working, r) /\ With(working, r) = {}
        BY <1>5, <3>2 DEF CancelResolve
      <4>2. PICK P : P = {w \in Range(working) : addr[w] # r}
        OBVIOUS
      <4>3. P = Range(working)
        BY <1>2, <4>1, <4>2, Returning
      <4> QED
        BY <4>1, <4>2, <4>3 DEF Without
    <3> QED
      BY <3>1, <3>2
  <2>3. \A w \in Range(working) : key'[addr[w]] = key[addr[w]]
    BY <1>2, <1>3, <2>1, <2>2 DEF HolderInv, Fits
  <2> QED
    BY <1>2, <2>1, <2>2, <2>3 DEF JobInv, HasJob, Resting, InHand
<1>6. ASSUME NEW w \in Workers, OnCall(w) PROVE JobInv'
  <2>1. phase[w] = "posted" /\ phase' = [phase EXCEPT ![w] = "handling"]
        /\ UNCHANGED <<key, addr, need, work, res, wpc>>
    BY <1>6 DEF OnCall, Handle, Move, workVars, threadVars
  <2>2. PICK r \in Reqs : r = addr[w]
    BY <1>1, <2>1, PostedIsCurrent
  <2>3. /\ w \in Range(working) /\ need[w] = <<>> /\ ~InHand(w)
        /\ Alive(r) /\ res[w] = key[r]
    BY <1>1, <2>1, <2>2, PostedIsCurrent
  <2>4. r # Null
    BY NullAssumption
  <2>5. working' = Without(working, r)
    BY <1>6, <2>2, <2>3, <2>4 DEF OnCall, Answers
  <2>6. PICK P : P = {v \in Range(working) : addr[v] # r}
    OBVIOUS
  <2>7. Range(working') = P
    BY <1>2, <2>5, <2>6, Returning
  <2>8. P = Range(working) \ {w}
    BY <1>2, <2>2, <2>3, <2>6 DEF HolderInv, Fits
  <2> QED
    BY <1>2, <1>3, <2>1, <2>3, <2>7, <2>8 DEF JobInv, HasJob, Resting, InHand
<1>7. CASE ReturnDelegate
  <2>1. /\ AssignWork(waiting, free, working)
        /\ UNCHANGED <<key, work, res, wpc, phase>>
    BY <1>7 DEF ReturnDelegate, mailbox, reqVars, threadVars
  <2>2. \A r \in Range(waiting) : key'[r] \in Keys
    BY <2>1, WaitingHaveKeys
  <2> QED
    BY <1>2, <1>3, <2>1, <2>2, JobAssigned DEF VectorInv, HolderInv
<1>8. ASSUME UNCHANGED <<key, working, addr, need, work, res, wpc, phase>> PROVE JobInv'
  BY <1>2, <1>8 DEF JobInv, HasJob, Resting, InHand
<1>9. CASE ReturnCall \/ LockQuit \/ JoinQuit
  <2>1. UNCHANGED <<key, working, addr, need, work, res, wpc>>
    BY <1>9 DEF ReturnCall, LockQuit, JoinQuit, poolVars, workVars, threadVars, reqVars
  <2>2. CASE ReturnCall
    BY <1>2, <1>3, <2>1, <2>2 DEF ReturnCall, Done, Move, JobInv, HasJob, Resting, InHand, Workers
  <2>3. CASE LockQuit
    BY <1>8, <2>1, <2>3 DEF LockQuit, mailbox
  <2>4. CASE JoinQuit
    <3>1. \A w \in Workers : w \notin Range(working)
      BY <1>2, <2>4 DEF JoinQuit, Quitting, LoopInv, HolderInv, Fits, Alive
    <3>2. \A w \in Workers : phase'[w] \in {phase[w], "gone"}
      BY <1>3, <2>4 DEF JoinQuit, Close, Workers
    <3> QED
      BY <1>2, <2>1, <3>1, <3>2 DEF JobInv, Resting, InHand
  <2> QED
    BY <1>9, <2>2, <2>3, <2>4
<1>10. ASSUME NEW w \in Workers, Quit(w) PROVE JobInv'
  BY <1>8, <1>10 DEF Quit, mailbox, reqVars, poolVars, workVars
<1>11. ASSUME NEW w \in Workers, TakeWork(w) PROVE JobInv'
  <2>1. UNCHANGED <<key, working, addr, res, phase>>
    BY <1>11 DEF TakeWork, mailbox, reqVars, poolVars
  <2>2. CASE destroyed[w]
    <3>1. UNCHANGED <<work, need>> /\ wpc[w] = "idle" /\ wpc' = [wpc EXCEPT ![w] = "exited"]
      BY <1>11, <2>2 DEF TakeWork
    <3> QED
      BY <1>2, <1>3, <2>1, <3>1 DEF JobInv, HasJob, Resting, InHand
  <2>3. CASE ~destroyed[w]
    <3>1. /\ wpc[w] = "idle" /\ wpc' = [wpc EXCEPT ![w] = "resolving"]
          /\ work' = [work EXCEPT ![w] = Head(need[w])]
          /\ need' = [need EXCEPT ![w] = Tail(need[w])]
          /\ need[w] # <<>>
      BY <1>2, <1>11, <2>3 DEF TakeWork, Popped, NoEmptyFront
    <3>2. w \in Range(working) /\ need[w] = <<key[addr[w]]>> /\ phase[w] # "posted"
      BY <1>2, <3>1 DEF JobInv, HasJob, Resting
    <3>3. work'[w] = key[addr[w]] /\ need'[w] = <<>>
      BY <1>3, <3>1, <3>2
    <3> QED
      BY <1>2, <1>3, <2>1, <3>1, <3>2, <3>3 DEF JobInv, HasJob, Resting, InHand
  <2> QED
    BY <2>2, <2>3
<1>12. ASSUME NEW w \in Workers, FillResult(w) PROVE JobInv'
  BY <1>2, <1>3, <1>12
     DEF FillResult, TakeSlot, Fill, Move, reqVars, poolVars, workVars, Workers,
         JobInv, HasJob, Resting, InHand
<1>13. ASSUME NEW w \in Workers, Throw(w) PROVE JobInv'
  <2>1. w \notin Range(working)
    BY <1>2, <1>13 DEF Throw, LoopInv, HolderInv, Fits, Alive
  <2>2. Resting(w)
    BY <1>2, <2>1 DEF JobInv
  <2> QED
    BY <1>13, <2>2 DEF Throw, Resting, InHand
<1>14. ASSUME NEW w \in Workers, PostResult(w) PROVE JobInv'
  BY <1>2, <1>3, <1>14
     DEF PostResult, Post, Move, reqVars, poolVars, workVars, Workers,
         JobInv, HasJob, Resting, InHand
<1>15. CASE UNCHANGED vars
  BY <1>8, <1>15 DEF vars, mailbox, reqVars, poolVars, workVars, threadVars
<1> QED
  BY <1>4, <1>5, <1>6, <1>7, <1>9, <1>10, <1>11, <1>12, <1>13, <1>14, <1>15
     DEF Next, LoopStep, Worker

-----------------------------------------------------------------------------
LEMMA TypeStep == PoolInv /\ [Next]_vars => TypeOK'
<1> SUFFICES ASSUME PoolInv, [Next]_vars PROVE TypeOK'
  OBVIOUS
<1>1. TypeOK /\ VectorInv /\ HolderInv /\ LoopInv /\ NoEmptyFront
  BY DEF PoolInv
<1>2. VectorInv'
  BY VectorStep
<1>3. (Range(free \o working) \in {{}, Workers} /\ Distinct(free \o working))'
  BY <1>2, VectorTypes, PTL
<1> DEFINE Shared ==
             /\ MailboxTypeOK
             /\ key \in [Reqs -> Keys \cup {Null}]
             /\ uses \in [Reqs -> Nat] /\ answers \in [Reqs -> Nat]
             /\ hasWork \in [Workers -> BOOLEAN] /\ destroyed \in [Workers -> BOOLEAN]
             /\ work \in [Workers -> Keys \cup {Null}] /\ res \in [Workers -> Keys \cup {Null}]
             /\ wpc \in [Workers -> {"none", "idle", "resolving", "filling", "exited"}]
             /\ pc \in {"user", "delegate", "after", "quit", "join", "exit"}
             /\ cur \in Reqs \cup {Null} /\ curW \in Workers \cup {Null}
           Lists ==
             /\ waiting \in Seq(Reqs)
             /\ addr \in [Workers -> Reqs \cup {Null}] /\ need \in [Workers -> Seq(Keys)]
             /\ hasWork \in [Workers -> BOOLEAN]
<1>4. Shared /\ Lists
  BY <1>1 DEF TypeOK
<1>5. SUFFICES Shared' /\ Lists'
  BY <1>3 DEF TypeOK
<1>6. ASSUME NEW ws \in Seq(Reqs), NEW fs \in Seq(Workers), AssignWork(ws, fs, working),
             \A r \in Range(ws) : key'[r] \in Keys
      PROVE  Lists'
  <2>1. CASE waiting' = ws /\ UNCHANGED <<addr, need, hasWork>>
    BY <1>4, <2>1
  <2>2. CASE ws # <<>> /\ fs # <<>>
    <3>1. PICK w \in Workers, r \in Reqs : w = Last(fs) /\ r = Head(ws)
      BY <2>2, PopBack, PopFront
    <3>2. /\ waiting' = Tail(ws) /\ addr' = [addr EXCEPT ![w] = r]
          /\ need' = [need EXCEPT ![w] = Append(@, key'[r])]
          /\ hasWork' = [hasWork EXCEPT ![w] = TRUE]
      BY <1>6, <2>2, <3>1 DEF AssignWork, Assignable
    <3>3. key'[r] \in Keys
      BY <1>6, <2>2, <3>1, PopFront
    <3>4. Append(need[w], key'[r]) \in Seq(Keys) /\ Tail(ws) \in Seq(Reqs)
      BY <1>4, <2>2, <3>3, PushBack, PopFront
    <3> QED
      BY <1>4, <3>2, <3>4
  <2> QED
    BY <1>6, <2>1, <2>2 DEF AssignWork, Assignable
<1>7. ASSUME UNCHANGED <<waiting, addr, need, hasWork>> PROVE Lists'
  BY <1>4, <1>7
<1>8. ASSUME NEW r \in Reqs, StartResolve(r) PROVE Shared' /\ Lists'
  <2>1. /\ Append(waiting, r) \in Seq(Reqs) /\ Found \in Seq(Workers)
        /\ \A q \in Range(Append(waiting, r)) : key'[q] \in Keys
    BY <1>1, <1>8, Making, FoundFree
  <2>2. Lists'
    BY <1>6, <1>8, <2>1 DEF StartResolve, Found
  <2>3. Shared'
    <3>1. UNCHANGED <<fifo, answers, work, res, destroyed, pc, cur, curW>>
      BY <1>8 DEF StartResolve, loopVars
    <3>2. key' \in [Reqs -> Keys \cup {Null}] /\ uses' \in [Reqs -> Nat]
      <4>1. PICK k \in Keys : key' = [key EXCEPT ![r] = k]
        BY <1>8, ReqsAssumption DEF StartResolve
      <4> QED
        BY <1>4, <1>8, <4>1 DEF StartResolve
    <3>3. /\ phase' \in [Workers -> Phases]
          /\ wpc' \in [Workers -> {"none", "idle", "resolving", "filling", "exited"}]
      BY <1>4, <1>8 DEF StartResolve, StartWorkers, MailboxTypeOK, Phases, Workers
    <3> QED
      BY <1>4, <2>2, <3>1, <3>2, <3>3 DEF MailboxTypeOK, Workers
  <2> QED
    BY <2>2, <2>3
<1>9. ASSUME NEW r \in Reqs, CancelResolve(r) PROVE Shared' /\ Lists'
  <2>1. waiting' \in Seq(Reqs)
    BY <1>4, <1>9, EraseProperties DEF CancelResolve
  <2> QED
    BY <1>4, <1>9, <2>1
       DEF CancelResolve, MailboxTypeOK, mailbox, workVars, threadVars
<1>10. ASSUME NEW w \in Workers, OnCall(w) PROVE Shared' /\ Lists'
  <2>1. Tail(fifo) \in Seq(Slots)
    BY <1>4, <1>10, PopFront DEF OnCall, Handle, MailboxTypeOK
  <2>2. MailboxTypeOK'
    BY <1>4, <1>10, <2>1 DEF OnCall, Handle, Move, MailboxTypeOK, Phases
  <2>3. answers' \in [Reqs -> Nat]
    <3>1. PICK r : r = addr[w]
      OBVIOUS
    <3>2. answers' = answers \/ answers' = [answers EXCEPT ![r] = @ + 1]
      BY <1>10, <3>1 DEF OnCall
    <3>3. r \in Reqs => answers[r] + 1 \in Nat
      BY <1>4
    <3> QED
      BY <1>4, <3>2, <3>3
  <2>4. pc' \in {"delegate", "after"} /\ cur' \in Reqs \cup {Null} /\ curW' \in Workers
    BY <1>4, <1>10 DEF OnCall
  <2> QED
    BY <1>4, <1>10, <2>2, <2>3, <2>4 DEF OnCall, workVars, threadVars
<1>11. CASE ReturnDelegate
  <2>1. \A r \in Range(waiting) : key'[r] \in Keys
    BY <1>11, WaitingHaveKeys DEF ReturnDelegate, reqVars
  <2>2. Lists'
    BY <1>1, <1>4, <1>6, <1>11, <2>1 DEF ReturnDelegate, VectorInv
  <2> QED
    BY <1>4, <1>11, <2>2 DEF ReturnDelegate, MailboxTypeOK, mailbox, reqVars, threadVars
<1>12. CASE ReturnCall
  BY <1>4, <1>12
     DEF ReturnCall, Done, Move, MailboxTypeOK, Phases, Workers, reqVars, poolVars, workVars,
         threadVars
<1>13. CASE LockQuit
  BY <1>4, <1>13 DEF LockQuit, MailboxTypeOK, mailbox, reqVars, poolVars, threadVars
<1>14. CASE JoinQuit
  <2>1. MailboxTypeOK'
    BY <1>4, <1>14, EraseProperties DEF JoinQuit, Close, MailboxTypeOK, Phases
  <2> QED
    BY <1>4, <1>14, <2>1 DEF JoinQuit, reqVars, poolVars, workVars, threadVars
<1>15. ASSUME NEW w \in Workers, Quit(w) PROVE Shared' /\ Lists'
  BY <1>4, <1>15 DEF Quit, MailboxTypeOK, mailbox, reqVars, poolVars, workVars
<1>16. ASSUME NEW w \in Workers, TakeWork(w) PROVE Shared' /\ Lists'
  <2>1. CASE destroyed[w]
    BY <1>4, <1>16, <2>1
       DEF TakeWork, MailboxTypeOK, mailbox, reqVars, poolVars, loopVars
  <2>2. CASE ~destroyed[w]
    <3>1. Head(need[w]) \in Keys /\ Tail(need[w]) \in Seq(Keys)
      BY <1>1, <1>4, <1>16, <2>2, PopFront DEF TakeWork, NoEmptyFront
    <3> QED
      BY <1>4, <1>16, <2>2, <3>1
         DEF TakeWork, Popped, More, MailboxTypeOK, mailbox, reqVars, poolVars, loopVars
  <2> QED
    BY <2>1, <2>2
<1>17. ASSUME NEW w \in Workers, FillResult(w) \/ Throw(w) PROVE Shared' /\ Lists'
  BY <1>4, <1>17
     DEF FillResult, TakeSlot, Fill, Throw, Move, MailboxTypeOK, Phases, Workers, mailbox,
         reqVars, poolVars, workVars, loopVars
<1>18. ASSUME NEW w \in Workers, PostResult(w) PROVE Shared' /\ Lists'
  <2>1. MailboxTypeOK'
    BY <1>4, <1>18, PushBack DEF PostResult, Post, Move, MailboxTypeOK, Phases, Workers
  <2> QED
    BY <1>4, <1>18, <2>1 DEF PostResult, reqVars, poolVars, workVars, loopVars
<1>19. CASE UNCHANGED vars
  BY <1>4, <1>19
     DEF vars, MailboxTypeOK, mailbox, reqVars, poolVars, workVars, threadVars, loopVars
<1> QED
  BY <1>8, <1>9, <1>10, <1>11, <1>12, <1>13, <1>14, <1>15, <1>16, <1>17, <1>18, <1>19
     DEF Next, LoopStep, Worker

-----------------------------------------------------------------------------
(* Each part of PoolInv is kept by every step.                             *)
LEMMA PoolInvariance == Spec => []PoolInv
<1>1. PoolInv /\ [Next]_vars => PoolInv'
  BY TypeStep, FrontStep, VectorStep, PlaceStep, HolderStep, AnswerStep, JobStep
     DEF PoolInv
<1> QED
  BY <1>1, InitPoolInv, PTL DEF Spec

(* A request that is alive is in one place while it is unanswered and in   *)
(* none once it is answered, unless late results answer, which never bring *)
(* it into two; and nothing destroyed is anywhere, although requests are   *)
(* known by addresses that are used again: the property Conserved, for any *)
(* addresses, hosts and workers (AsyncAddrInfo.cpp:76-85, 145-203).        *)
THEOREM ConservedHolds == Spec => []Conserved
<1>1. PoolInv => Conserved
  <2> SUFFICES ASSUME PoolInv PROVE Conserved
    OBVIOUS
  <2>1. TypeOK /\ NoEmptyFront /\ HolderInv /\ VectorInv
    BY DEF PoolInv
  <2>2. /\ waiting \in Seq(Reqs) /\ working \in Seq(Workers)
        /\ \A w \in Range(working) : w \in Workers
    <3>1. waiting \in Seq(Reqs) /\ working \in Seq(Workers)
      BY <2>1 DEF TypeOK, VectorInv
    <3>2. \A w \in Range(working) : w \in Workers
      BY <3>1, InRange
    <3> QED
      BY <3>1, <3>2
  <2>3. Cardinality({}) = 0 /\ \A x : Cardinality({x}) = 1
    BY FS_EmptySet, FS_Singleton
  <2>4. SUFFICES ASSUME NEW r \in Reqs
                 PROVE  LET places == {i \in 1 .. Len(waiting) : waiting[i] = r}
                            n == Cardinality(places) + Cardinality(With(working, r))
                        IN  /\ n <= 1
                            /\ ~Alive(r) => n = 0
                            /\ Alive(r) /\ answers[r] = 0 => n = 1
                            /\ ~late /\ answers[r] > 0 => n = 0
    BY <2>1 DEF Conserved
  <2> DEFINE places == {i \in 1 .. Len(waiting) : waiting[i] = r}
             holders == With(working, r)
             n == Cardinality(places) + Cardinality(holders)
  <2>5. places = {} <=> r \notin Range(waiting)
    BY <2>2, InRange
  <2>6. holders = {} <=> \A w \in Range(working) : addr[w] # r
    BY <2>2, InRange DEF With
  <2>7. places = {} \/ \E i : places = {i}
    BY <2>1 DEF HolderInv, Distinct
  <2>8. holders = {} \/ \E i : holders = {i}
    <3>1. ASSUME NEW i \in holders, NEW j \in holders PROVE i = j
      <4>1. /\ i \in 1 .. Len(working) /\ j \in 1 .. Len(working)
            /\ addr[working[i]] = r /\ addr[working[j]] = r
        BY <3>1 DEF With
      <4>2. working[i] \in Range(working) /\ working[j] \in Range(working)
        BY <2>2, <4>1, InRange
      <4>3. working[i] = working[j]
        BY <2>1, <4>1, <4>2 DEF HolderInv, Fits
      <4> QED
        BY <2>1, <4>1, <4>3 DEF VectorInv, Distinct
    <3> QED
      BY <3>1
  <2>9. places = {} \/ holders = {}
    BY <2>1, <2>2, <2>5, <2>6 DEF HolderInv, Fits
  <2>10. /\ places # {} \/ holders # {} => Alive(r)
         /\ Alive(r) /\ answers[r] = 0 => places # {} \/ holders # {}
         /\ ~late /\ (places # {} \/ holders # {}) => ~(answers[r] > 0)
    BY <2>1, <2>5, <2>6 DEF HolderInv, Fits, Fresh, Alive
  <2>11. /\ n = 0 \/ n = 1
         /\ n = 0 <=> places = {} /\ holders = {}
    <3> HIDE DEF places, holders
    <3>1. CASE places = {} /\ holders = {}
      BY <2>3, <3>1
    <3>2. CASE places # {}
      <4>1. Cardinality(places) = 1 /\ Cardinality(holders) = 0
        BY <2>3, <2>7, <2>9, <3>2
      <4> QED
        BY <3>2, <4>1
    <3>3. CASE holders # {}
      <4>1. Cardinality(places) = 0 /\ Cardinality(holders) = 1
        BY <2>3, <2>8, <2>9, <3>3
      <4> QED
        BY <3>3, <4>1
    <3> QED
      BY <3>1, <3>2, <3>3
  <2> HIDE DEF n
  <2>12. /\ n <= 1
         /\ ~Alive(r) => n = 0
         /\ Alive(r) /\ answers[r] = 0 => n = 1
         /\ ~late /\ answers[r] > 0 => n = 0
    BY <2>10, <2>11
  <2> QED
    BY <2>12 DEF n, places, holders
<1> QED
  BY <1>1, PoolInvariance, PTL

(* A delegate is given the addresses of its own host: RightAnswer          *)
(* (AsyncAddrInfo.cpp:69-90).                                              *)
THEOREM RightAnswerHolds == Spec => []RightAnswer
<1>1. PoolInv => RightAnswer
  BY DEF PoolInv, LoopInv, RightAnswer
<1> QED
  BY <1>1, PoolInvariance, PTL

(* No dead request used and no late answer, unless one was taken from a    *)
(* worker, and one answer each until a late one comes: OneAnswer           *)
(* (AsyncAddrInfo.cpp:53-57, 76-85, 161-174).                              *)
THEOREM OneAnswerHolds == Spec => []OneAnswer
<1>1. PoolInv => OneAnswer
  BY DEF PoolInv, HolderInv, Fresh, OneAnswer
<1> QED
  BY <1>1, PoolInvariance, PTL

(* The result a delegate looks at does not change under it: ResultStable   *)
(* (AsyncAddrInfo.cpp:128-132, ActiveMsg.h:36-50).                         *)
THEOREM ResultStableHolds == Spec => ResultStable
<1>1. PoolInv /\ [Next]_vars => [pc = "delegate" => res'[curW] = res[curW]]_vars
  <2> SUFFICES ASSUME PoolInv, [Next]_vars, pc = "delegate"
               PROVE  res'[curW] = res[curW]
    OBVIOUS
  <2>1. curW \in Workers /\ phase[curW] = "handling" /\ res \in [Workers -> Keys \cup {Null}]
    BY DEF PoolInv, LoopInv, TypeOK
  <2>2. ASSUME NEW w \in Workers, FillResult(w) PROVE res'[curW] = res[curW]
    BY <2>1, <2>2 DEF FillResult, TakeSlot, Fill, Move
  <2>3. ASSUME UNCHANGED res PROVE res'[curW] = res[curW]
    BY <2>3
  <2> QED
    BY <2>2, <2>3
       DEF Next, LoopStep, Worker, vars, StartResolve, CancelResolve, OnCall, ReturnDelegate,
           ReturnCall, Quit, LockQuit, JoinQuit, TakeWork, Throw, PostResult, threadVars
<1> QED
  BY <1>1, PoolInvariance, PTL DEF Spec, ResultStable
=============================================================================
