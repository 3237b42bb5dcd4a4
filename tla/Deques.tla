------------------------------- MODULE Deques -------------------------------
(***************************************************************************)
(* The std::deque idioms craplib uses on deques of pointers.  push_back is *)
(* Append, front is Head and pop_front is Tail; the two idioms below have  *)
(* no counterpart in Sequences.  Both are written without recursion, as    *)
(* index maps, so that proofs can reason about them element by element.    *)
(***************************************************************************)
EXTENDS Integers, SequencesExt

(* The position of x in the deque s.                                       *)
IndexOf(s, x) == CHOOSE i \in 1 .. Len(s) : s[i] = x

(* s.erase(std::remove(s.begin(), s.end(), x), s.end()), for a deque whose *)
(* elements are distinct: every user of it keeps them so, as an invariant. *)
Erase(s, x) ==
    IF x \in Range(s)
    THEN [j \in 1 .. Len(s) - 1 |-> IF j < IndexOf(s, x) THEN s[j] ELSE s[j+1]]
    ELSE s

(* s.insert(it, x), where it is the p-th position.                         *)
InsertBefore(s, p, x) ==
    [j \in 1 .. Len(s) + 1 |-> IF j < p THEN s[j]
                               ELSE IF j = p THEN x ELSE s[j-1]]

(* std::lower_bound(s.begin(), s.end(), x), where x has the key k and the  *)
(* elements of s the keys key[_]: the first position whose key is not less *)
(* than k, Len(s) + 1 when there is none.                                  *)
LowerBound(s, key, k) ==
    CHOOSE p \in 1 .. Len(s) + 1 :
        /\ p <= Len(s) => key[s[p]] >= k
        /\ \A j \in 1 .. p - 1 : key[s[j]] < k

(* The elements of s that are in T, in their order: what a loop that looks *)
(* at all of s and pushes back some makes.                                 *)
Filter(s, T) ==
    FlattenSeq([i \in DOMAIN s |-> IF s[i] \in T THEN <<s[i]>> ELSE <<>>])

(* What a Data or a buffer becomes when it is cut at n.                    *)
FirstOf(n, s)  == SubSeq(s, 1, n)
AllAfter(n, s) == SubSeq(s, n + 1, Len(s))
Smaller(m, n)  == IF m < n THEN m ELSE n

(* The elements of s are distinct.                                         *)
Distinct(s) == \A i, j \in 1 .. Len(s) : i # j => s[i] # s[j]

(* The elements of s are in the order of their keys.                       *)
Ordered(s, key) == \A i, j \in 1 .. Len(s) : i < j => key[s[i]] <= key[s[j]]
=============================================================================
