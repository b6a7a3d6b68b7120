------------------------------ MODULE FatProof ------------------------------
(***************************************************************************)
(* The file objects of the FAT library, for every number of them: however  *)
(* calls succeed and fail, each object is on exactly one of the two lists, *)
(* and those on the open list are the ones callers hold.  The argument     *)
(* names the order of each list (OnList) and follows fat_list.h through    *)
(* it; then _open_file, _create_file, fl_fclose and fl_remove only ever    *)
(* take the first free object, and give back the one they took.            *)
(***************************************************************************)
EXTENDS Fat, FiniteSetTheorems, TLAPS

Queues == {"open", "free"}

(* List q of L is s[1], ..., s[k]. *)
OnList(L, q, s, k) ==
    /\ k \in Nat /\ s \in [1 .. k -> Slots]
    /\ \A i, j \in 1 .. k : s[i] = s[j] => i = j
    /\ L.head[q] = IF k = 0 THEN Nil ELSE s[1]
    /\ L.tail[q] = IF k = 0 THEN Nil ELSE s[k]
    /\ \A i \in 1 .. k : L.prev[s[i]] = IF i = 1 THEN Nil ELSE s[i - 1]
    /\ \A i \in 1 .. k : L.next[s[i]] = IF i = k THEN Nil ELSE s[i + 1]

Members(s, k) == {s[i] : i \in 1 .. k}

(* M differs from L only in list q and in the pointers of objects of S. *)
Touches(L, M, q, S) ==
    /\ M \in Lists
    /\ \A p \in Queues \ {q} : M.head[p] = L.head[p] /\ M.tail[p] = L.tail[p]
    /\ \A n \in Slots \ S : M.prev[n] = L.prev[n] /\ M.next[n] = L.next[n]

(* H are the objects on the open list, the others are free. *)
Split(L, H) ==
    /\ L \in Lists
    /\ \E s, k : OnList(L, "open", s, k) /\ Members(s, k) = H
    /\ \E t, m : OnList(L, "free", t, m) /\ Members(t, m) = Slots \ H

----------------------------------------------------------------------------
(* NULL is no object.                                                      *)
LEMMA SlotFacts == Nil = 0 /\ Nil \notin Slots /\ MaxOpen \in Nat /\ MaxOpen > 0
  BY MaxOpenAssumption DEF Nil, Slots

(* A list that M does not touch is the same list in M. *)
LEMMA OtherList ==
  ASSUME NEW L, NEW M, NEW q \in Queues, NEW p \in Queues \ {q}, NEW S,
         NEW s, NEW k, OnList(L, p, s, k), Touches(L, M, q, S), Members(s, k) \cap S = {}
  PROVE  OnList(M, p, s, k)
<1>1. M.head[p] = L.head[p] /\ M.tail[p] = L.tail[p]
  BY DEF Touches
<1>2. \A i \in 1 .. k : s[i] \in Slots \ S
  BY DEF OnList, Members
<1>3. \A i \in 1 .. k : M.prev[s[i]] = L.prev[s[i]] /\ M.next[s[i]] = L.next[s[i]]
  BY <1>2 DEF Touches
<1> QED
  BY <1>1, <1>3 DEF OnList

(* fat_list_remove of the object at place m *)
Without(s, k, m) == [i \in 1 .. k - 1 |-> IF i < m THEN s[i] ELSE s[i + 1]]

(* The list closes over the place, and nothing else changes.               *)
LEMMA RemoveDoes ==
  ASSUME NEW L \in Lists, NEW q \in Queues, NEW s, NEW k, OnList(L, q, s, k), NEW m \in 1 .. k
  PROVE  /\ OnList(ListRemove(L, q, s[m]), q, Without(s, k, m), k - 1)
         /\ Touches(L, ListRemove(L, q, s[m]), q, Members(s, k))
<1> DEFINE n == s[m]
           p == L.prev[n]
           x == L.next[n]
           M == IF p = Nil THEN [L EXCEPT !.head[q] = x] ELSE [L EXCEPT !.next[p] = x]
           N == ListRemove(L, q, n)
<1>0. L.head \in [Queues -> {Nil} \cup Slots] /\ L.tail \in [Queues -> {Nil} \cup Slots]
  BY DEF Lists, Queues
<1>1. /\ k \in Nat /\ n \in Slots /\ p = (IF m = 1 THEN Nil ELSE s[m - 1])
      /\ x = (IF m = k THEN Nil ELSE s[m + 1])
      /\ p \in Slots \cup {Nil} /\ x \in Slots \cup {Nil}
  BY SMT DEF OnList
<1>2. p # n /\ x # n
  BY <1>1, SlotFacts, SMT DEF OnList
<1>3. /\ M \in Lists
      /\ M.tail = L.tail /\ M.prev = L.prev
      /\ M.head = IF p = Nil THEN [L.head EXCEPT ![q] = x] ELSE L.head
      /\ M.next = IF p = Nil THEN L.next ELSE [L.next EXCEPT ![p] = x]
  BY <1>1 DEF Lists, Queues
<1>4. M.next[n] = x /\ M.prev[n] = p
  BY <1>1, <1>2, <1>3 DEF Lists
<1>5. N = IF x = Nil THEN [M EXCEPT !.tail[q] = p] ELSE [M EXCEPT !.prev[x] = p]
  BY <1>4 DEF ListRemove
<1>6. /\ N \in Lists
      /\ N.head = M.head /\ N.next = M.next
      /\ N.tail = IF x = Nil THEN [L.tail EXCEPT ![q] = p] ELSE L.tail
      /\ N.prev = IF x = Nil THEN L.prev ELSE [L.prev EXCEPT ![x] = p]
  <2> HIDE DEF M, N
  <2>1. CASE x = Nil
    <3>1. N = [M EXCEPT !.tail[q] = p]
      BY <1>5, <2>1
    <3> QED
      BY <1>1, <1>3, <2>1, <3>1 DEF Lists, Queues
  <2>2. CASE x # Nil
    <3>1. N = [M EXCEPT !.prev[x] = p]
      BY <1>5, <2>2
    <3> QED
      BY <1>1, <1>3, <2>2, <3>1 DEF Lists, Queues
  <2> QED
    BY <2>1, <2>2
<1> HIDE DEF M, N
<1>7. Touches(L, N, q, Members(s, k))
  <2>1. p = Nil \/ p \in Members(s, k)
    BY <1>1, SMT DEF Members
  <2>2. x = Nil \/ x \in Members(s, k)
    BY <1>1, SMT DEF Members
  <2> QED
    BY <1>3, <1>6, <2>1, <2>2 DEF Touches, Lists, Queues
<1> DEFINE t == Without(s, k, m)
<1>8. /\ k - 1 \in Nat /\ t \in [1 .. k - 1 -> Slots]
      /\ \A i \in 1 .. k - 1 : t[i] = IF i < m THEN s[i] ELSE s[i + 1]
  BY <1>1, SMT DEF OnList, Without
<1>9. \A i, j \in 1 .. k - 1 : t[i] = t[j] => i = j
  BY <1>1, <1>8, SMT DEF OnList
<1>10. N.head[q] = IF k - 1 = 0 THEN Nil ELSE t[1]
  <2>1. N.head[q] = IF p = Nil THEN x ELSE L.head[q]
    BY <1>0, <1>3, <1>6
  <2>2. CASE m = 1
    BY <1>1, <1>8, <2>1, <2>2, SMT
  <2>3. CASE m > 1
    BY <1>1, <1>8, <2>1, <2>3, SlotFacts, SMT DEF OnList
  <2> QED
    BY <2>2, <2>3
<1>11. N.tail[q] = IF k - 1 = 0 THEN Nil ELSE t[k - 1]
  <2>1. N.tail[q] = IF x = Nil THEN p ELSE L.tail[q]
    BY <1>0, <1>6
  <2>2. CASE m = k
    <3>1. N.tail[q] = IF k = 1 THEN Nil ELSE s[k - 1]
      BY <1>1, <2>1, <2>2
    <3>2. k # 1 => t[k - 1] = s[k - 1]
      BY <1>1, <1>8, <2>2, SMT
    <3> QED
      BY <1>1, <3>1, <3>2
  <2>3. CASE m < k
    <3>1. N.tail[q] = s[k] /\ x # Nil /\ k - 1 # 0
      BY <1>1, <2>1, <2>3, SlotFacts, SMT DEF OnList
    <3>2. k - 1 \in 1 .. k - 1 /\ ~ (k - 1 < m)
      BY <1>1, <2>3, SMT
    <3>3. t[k - 1] = s[k]
      BY <1>1, <1>8, <3>2, SMT
    <3> QED
      BY <3>1, <3>3
  <2> QED
    BY <1>1, <2>2, <2>3
<1>12. ASSUME NEW i \in 1 .. k - 1 PROVE N.prev[t[i]] = IF i = 1 THEN Nil ELSE t[i - 1]
  <2>1. t[i] \in Slots /\ N.prev[t[i]] = IF x # Nil /\ t[i] = x THEN p ELSE L.prev[t[i]]
    BY <1>6, <1>8 DEF Lists
  <2>2. CASE i = m
    BY <1>1, <1>8, <2>1, <2>2, SlotFacts, SMT DEF OnList
  <2>3. CASE i # m
    <3>1. t[i] # x
      BY <1>1, <1>8, <2>3, SlotFacts, SMT DEF OnList
    <3>2. L.prev[t[i]] = IF i = 1 THEN Nil ELSE t[i - 1]
      <4> HIDE DEF t
      <4>1. CASE i < m
        <5>1. t[i] = s[i] /\ i \in 1 .. k /\ (i # 1 => t[i - 1] = s[i - 1])
          BY <1>1, <1>8, <4>1, SMT
        <5> QED
          BY <5>1 DEF OnList
      <4>2. CASE i > m
        <5>1. /\ t[i] = s[i + 1] /\ i + 1 \in 1 .. k /\ i + 1 # 1 /\ i # 1
              /\ t[i - 1] = s[i] /\ (i + 1) - 1 = i
          BY <1>1, <1>8, <4>2, SMT
        <5>2. L.prev[s[i + 1]] = s[(i + 1) - 1]
          BY <5>1, Zenon DEF OnList
        <5> QED
          BY <5>1, <5>2
      <4> QED
        BY <1>1, <2>3, <4>1, <4>2, SMT
    <3> QED
      BY <2>1, <3>1, <3>2
  <2> QED
    BY <2>2, <2>3
<1>13. ASSUME NEW i \in 1 .. k - 1 PROVE N.next[t[i]] = IF i = k - 1 THEN Nil ELSE t[i + 1]
  <2>1. t[i] \in Slots /\ N.next[t[i]] = IF p # Nil /\ t[i] = p THEN x ELSE L.next[t[i]]
    BY <1>3, <1>6, <1>8 DEF Lists
  <2>2. CASE i = m - 1
    BY <1>1, <1>8, <2>1, <2>2, SlotFacts, SMT DEF OnList
  <2>3. CASE i # m - 1
    <3>1. t[i] # p
      BY <1>1, <1>8, <2>3, SlotFacts, SMT DEF OnList
    <3>2. L.next[t[i]] = IF i = k - 1 THEN Nil ELSE t[i + 1]
      <4> HIDE DEF t
      <4>1. CASE i < m - 1
        <5>1. t[i] = s[i] /\ i \in 1 .. k /\ i # k /\ i # k - 1 /\ t[i + 1] = s[i + 1]
          BY <1>1, <1>8, <4>1, SMT
        <5> QED
          BY <5>1 DEF OnList
      <4>2. CASE ~ (i < m)
        <5>1. t[i] = s[i + 1] /\ i + 1 \in 1 .. k /\ (i + 1 = k <=> i = k - 1)
          BY <1>1, <1>8, <4>2, SMT
        <5>2. ASSUME i # k - 1 PROVE t[i + 1] = s[(i + 1) + 1]
          <6>1. i + 1 \in 1 .. k - 1 /\ ~ (i + 1 < m)
            BY <1>1, <4>2, <5>2, SMT
          <6> QED
            BY <1>8, <6>1, Zenon
        <5>3. L.next[s[i + 1]] = IF i + 1 = k THEN Nil ELSE s[(i + 1) + 1]
          BY <5>1, Zenon DEF OnList
        <5> QED
          BY <5>1, <5>2, <5>3
      <4> QED
        BY <1>1, <2>3, <4>1, <4>2, SMT
    <3> QED
      BY <2>1, <3>1, <3>2
  <2> QED
    BY <2>2, <2>3
<1>14. OnList(N, q, t, k - 1)
  BY <1>8, <1>9, <1>10, <1>11, <1>12, <1>13 DEF OnList
<1> QED
  BY <1>7, <1>14 DEF N

(* fat_list_insert_last of an object that is not on the list *)
With(s, k, n) == [i \in 1 .. k + 1 |-> IF i = k + 1 THEN n ELSE s[i]]

(* The list is longer by the object, and nothing else changes.             *)
LEMMA InsertDoes ==
  ASSUME NEW L \in Lists, NEW q \in Queues, NEW s, NEW k, OnList(L, q, s, k),
         NEW n \in Slots \ Members(s, k)
  PROVE  /\ OnList(InsertLast(L, q, n), q, With(s, k, n), k + 1)
         /\ Touches(L, InsertLast(L, q, n), q, Members(s, k) \cup {n})
<1> DEFINE N == InsertLast(L, q, n)
           t == With(s, k, n)
           e == s[k]
<1>0. L.head \in [Queues -> {Nil} \cup Slots] /\ L.tail \in [Queues -> {Nil} \cup Slots]
  BY DEF Lists, Queues
<1>1. /\ k \in Nat /\ n \in Slots
      /\ \A i \in 1 .. k : s[i] \in Slots /\ s[i] # n
  BY DEF OnList, Members
<1>2. /\ k + 1 \in Nat /\ t \in [1 .. k + 1 -> Slots]
      /\ \A i \in 1 .. k + 1 : t[i] = IF i = k + 1 THEN n ELSE s[i]
  BY <1>1, SMT DEF With
<1>3. \A i, j \in 1 .. k + 1 : t[i] = t[j] => i = j
  BY <1>1, <1>2, SMT DEF OnList
<1>4. CASE k = 0
  <2>1. L.head[q] = Nil /\ L.tail[q] = Nil
    BY <1>4 DEF OnList
  <2>2. N = [L EXCEPT !.head[q] = n, !.tail[q] = n, !.prev[n] = Nil, !.next[n] = Nil]
    BY <2>1 DEF InsertLast, InsertFirst
  <2> HIDE DEF N
  <2>3. /\ N \in Lists
        /\ N.head = [L.head EXCEPT ![q] = n] /\ N.tail = [L.tail EXCEPT ![q] = n]
        /\ N.prev = [L.prev EXCEPT ![n] = Nil] /\ N.next = [L.next EXCEPT ![n] = Nil]
    BY <1>1, <2>2 DEF Lists, Queues
  <2>4. N.head[q] = n /\ N.tail[q] = n /\ N.prev[n] = Nil /\ N.next[n] = Nil
    BY <1>0, <1>1, <2>3 DEF Lists
  <2>5. OnList(N, q, t, k + 1)
    <3>1. \A i \in 1 .. k + 1 : i = 1 /\ t[i] = n
      BY <1>2, <1>4, SMT
    <3>2. k + 1 # 0 /\ 1 \in 1 .. k + 1 /\ k + 1 = 1
      BY <1>4
    <3> QED
      BY <1>2, <1>3, <2>4, <3>1, <3>2 DEF OnList
  <2>6. Touches(L, N, q, Members(s, k) \cup {n})
    BY <1>0, <1>1, <2>3 DEF Touches, Lists
  <2> QED
    BY <2>5, <2>6 DEF N
<1>5. CASE k > 0
  <2>1. /\ e \in Slots /\ e # n /\ L.tail[q] = e /\ e # Nil
        /\ L.next[e] = Nil
    BY <1>1, <1>5, SlotFacts, SMT DEF OnList
  <2> DEFINE M == [L EXCEPT !.prev[n] = e, !.next[n] = L.next[e]]
             K == [M EXCEPT !.tail[q] = n]
  <2>2. N = InsertAfter(L, q, e, n)
    BY <2>1 DEF InsertLast
  <2>3. /\ M \in Lists /\ M.head = L.head /\ M.tail = L.tail
        /\ M.prev = [L.prev EXCEPT ![n] = e] /\ M.next = [L.next EXCEPT ![n] = Nil]
    BY <1>1, <2>1 DEF Lists
  <2>4. M.next[e] = Nil
    BY <1>1, <2>1, <2>3 DEF Lists
  <2>5. N = [K EXCEPT !.next[e] = n]
    BY <2>2, <2>4 DEF InsertAfter
  <2> HIDE DEF M, N
  <2>6. /\ K \in Lists /\ K.head = L.head /\ K.tail = [L.tail EXCEPT ![q] = n]
        /\ K.prev = M.prev /\ K.next = M.next
    BY <1>0, <1>1, <2>3 DEF Lists, Queues
  <2> HIDE DEF K
  <2>7. /\ N \in Lists /\ N.head = K.head /\ N.tail = K.tail
        /\ N.prev = K.prev /\ N.next = [K.next EXCEPT ![e] = n]
    BY <1>1, <2>1, <2>5, <2>6 DEF Lists
  <2>8. N.head[q] = L.head[q] /\ N.tail[q] = n /\ N.prev[n] = e /\ N.next[n] = Nil /\ N.next[e] = n
    BY <1>0, <1>1, <2>1, <2>3, <2>6, <2>7 DEF Lists
  <2>9. \A o \in Slots \ {n} : N.prev[o] = L.prev[o] /\ (o # e => N.next[o] = L.next[o])
    BY <1>1, <2>1, <2>3, <2>6, <2>7 DEF Lists
  <2>10. OnList(N, q, t, k + 1)
    <3>1. N.head[q] = t[1] /\ N.tail[q] = t[k + 1] /\ k + 1 # 0
      BY <1>1, <1>2, <1>5, <2>8, SMT DEF OnList
    <3>2. ASSUME NEW i \in 1 .. k + 1 PROVE N.prev[t[i]] = IF i = 1 THEN Nil ELSE t[i - 1]
      <4>1. CASE i = k + 1
        BY <1>1, <1>2, <1>5, <2>8, <4>1, SMT
      <4>2. CASE i # k + 1
        <5>1. i \in 1 .. k /\ t[i] = s[i] /\ (i # 1 => t[i - 1] = s[i - 1])
          BY <1>1, <1>2, <4>2, SMT
        <5>2. N.prev[s[i]] = L.prev[s[i]]
          BY <1>1, <2>9, <5>1
        <5> QED
          BY <5>1, <5>2 DEF OnList
      <4> QED
        BY <4>1, <4>2
    <3>3. ASSUME NEW i \in 1 .. k + 1 PROVE N.next[t[i]] = IF i = k + 1 THEN Nil ELSE t[i + 1]
      <4>1. CASE i = k + 1
        BY <1>2, <2>8, <4>1
      <4>2. CASE i = k
        BY <1>1, <1>2, <1>5, <2>8, <4>2, SMT
      <4>3. CASE i < k
        <5>1. i \in 1 .. k /\ i + 1 \in 1 .. k /\ t[i] = s[i] /\ t[i + 1] = s[i + 1]
          BY <1>1, <1>2, <4>3, SMT
        <5>2. s[i] # e
          BY <1>1, <4>3, <5>1, SMT DEF OnList
        <5>3. N.next[s[i]] = L.next[s[i]]
          BY <1>1, <2>9, <5>1, <5>2
        <5> QED
          BY <1>1, <4>3, <5>1, <5>3, SMT DEF OnList
      <4> QED
        BY <1>1, <4>1, <4>2, <4>3, SMT
    <3> QED
      BY <1>2, <1>3, <3>1, <3>2, <3>3 DEF OnList
  <2>11. Touches(L, N, q, Members(s, k) \cup {n})
    <3>1. e \in Members(s, k)
      BY <1>1, <1>5, SMT DEF Members
    <3> QED
      BY <1>0, <2>6, <2>7, <2>9, <3>1 DEF Touches, Lists
  <2> QED
    BY <2>10, <2>11 DEF N
<1> QED
  BY <1>1, <1>4, <1>5, SMT

----------------------------------------------------------------------------
(* _allocate_file moves the first free object to the end of the open list. *)
LEMMA MembersWithout ==
  ASSUME NEW L, NEW q, NEW s, NEW k, OnList(L, q, s, k), NEW m \in 1 .. k
  PROVE  Members(Without(s, k, m), k - 1) = Members(s, k) \ {s[m]}
<1> DEFINE t == Without(s, k, m)
<1>1. \A i \in 1 .. k - 1 : t[i] = IF i < m THEN s[i] ELSE s[i + 1]
  BY DEF Without
<1>2. k \in Nat /\ \A i, j \in 1 .. k : s[i] = s[j] => i = j
  BY DEF OnList
<1> HIDE DEF t
<1>3. ASSUME NEW i \in 1 .. k - 1 PROVE t[i] \in Members(s, k) \ {s[m]}
  BY <1>1, <1>2, SMT DEF Members
<1>4. ASSUME NEW j \in 1 .. k, s[j] # s[m] PROVE s[j] \in Members(t, k - 1)
  <2>1. CASE j < m
    BY <1>1, <1>2, <2>1, SMT DEF Members
  <2>2. CASE j > m
    <3>1. j - 1 \in 1 .. k - 1 /\ t[j - 1] = s[j]
      BY <1>1, <1>2, <2>2, SMT
    <3> QED
      BY <3>1 DEF Members
  <2> QED
    BY <1>4, <1>2, <2>1, <2>2, SMT
<1>5. Members(t, k - 1) \subseteq Members(s, k) \ {s[m]}
  BY <1>3 DEF Members
<1>6. Members(s, k) \ {s[m]} \subseteq Members(t, k - 1)
  BY <1>4 DEF Members
<1> QED
  BY <1>5, <1>6 DEF t

(* What InsertDoes adds.                                                   *)
LEMMA MembersWith ==
  ASSUME NEW s, NEW k \in Nat, NEW n
  PROVE  Members(With(s, k, n), k + 1) = Members(s, k) \cup {n}
<1> DEFINE t == With(s, k, n)
<1>1. \A i \in 1 .. k + 1 : t[i] = IF i = k + 1 THEN n ELSE s[i]
  BY DEF With
<1> HIDE DEF t
<1>2. Members(t, k + 1) \subseteq Members(s, k) \cup {n}
  BY <1>1, SMT DEF Members
<1>3. Members(s, k) \cup {n} \subseteq Members(t, k + 1)
  BY <1>1, SMT DEF Members
<1> QED
  BY <1>2, <1>3 DEF t

(* The object at place m of list q goes to the end of list p. *)
LEMMA Moves ==
  ASSUME NEW L \in Lists, NEW q \in Queues, NEW p \in Queues \ {q},
         NEW s, NEW k, OnList(L, q, s, k), NEW t, NEW l, OnList(L, p, t, l),
         Members(s, k) \cap Members(t, l) = {}, NEW m \in 1 .. k
  PROVE  LET M == InsertLast(ListRemove(L, q, s[m]), p, s[m])
         IN  /\ M \in Lists
             /\ OnList(M, q, Without(s, k, m), k - 1)
             /\ OnList(M, p, With(t, l, s[m]), l + 1)
             /\ Members(Without(s, k, m), k - 1) = Members(s, k) \ {s[m]}
             /\ Members(With(t, l, s[m]), l + 1) = Members(t, l) \cup {s[m]}
<1> DEFINE n == s[m]
           R == ListRemove(L, q, n)
           M == InsertLast(R, p, n)
<1>1. n \in Members(s, k) /\ n \in Slots /\ l \in Nat /\ p \in Queues
  BY DEF Members, OnList
<1>2. OnList(R, q, Without(s, k, m), k - 1) /\ Touches(L, R, q, Members(s, k))
  BY RemoveDoes
<1>3. OnList(R, p, t, l)
  BY <1>2, OtherList
<1>4. R \in Lists
  BY <1>2 DEF Touches
<1>5. n \in Slots \ Members(t, l)
  BY <1>1
<1> HIDE DEF R
<1>6. OnList(M, p, With(t, l, n), l + 1) /\ Touches(R, M, p, Members(t, l) \cup {n})
  BY <1>1, <1>3, <1>4, <1>5, InsertDoes
<1>7. Members(Without(s, k, m), k - 1) = Members(s, k) \ {n}
  BY MembersWithout
<1>8. Members(With(t, l, n), l + 1) = Members(t, l) \cup {n}
  BY <1>1, MembersWith
<1>9. Members(Without(s, k, m), k - 1) \cap (Members(t, l) \cup {n}) = {}
  BY <1>7
<1>10. OnList(M, q, Without(s, k, m), k - 1)
  <2>1. q \in Queues \ {p}
    OBVIOUS
  <2> HIDE DEF M
  <2> QED
    BY <1>1, <1>2, <1>6, <1>9, <2>1, OtherList
<1>11. M \in Lists
  BY <1>6 DEF Touches
<1> QED
  BY <1>6, <1>7, <1>8, <1>10, <1>11 DEF R

LEMMA AllocateSplits ==
  ASSUME NEW L, NEW H, Split(L, H), Allocated(L) # Nil
  PROVE  /\ Allocated(L) \in Slots \ H
         /\ Split(AfterAllocate(L), H \cup {Allocated(L)})
         /\ AfterAllocate(L).tail["open"] = Allocated(L)
<1>1. PICK s, k : OnList(L, "open", s, k) /\ Members(s, k) = H
  BY DEF Split
<1>2. PICK t, m : OnList(L, "free", t, m) /\ Members(t, m) = Slots \ H
  BY DEF Split
<1>3. m \in Nat /\ m > 0 /\ Allocated(L) = t[1] /\ 1 \in 1 .. m
  BY <1>2, SlotFacts, SMT DEF OnList, Allocated
<1>4. t[1] \in Slots \ H
  BY <1>2, <1>3 DEF Members
<1>5. L \in Lists /\ "open" \in Queues \ {"free"} /\ "free" \in Queues
  BY DEF Split, Queues
<1>6. Members(t, m) \cap Members(s, k) = {}
  BY <1>1, <1>2
<1> DEFINE M == InsertLast(ListRemove(L, "free", t[1]), "open", t[1])
<1>7. /\ M \in Lists
      /\ OnList(M, "free", Without(t, m, 1), m - 1)
      /\ OnList(M, "open", With(s, k, t[1]), k + 1)
      /\ Members(Without(t, m, 1), m - 1) = (Slots \ H) \ {t[1]}
      /\ Members(With(s, k, t[1]), k + 1) = H \cup {t[1]}
  BY <1>1, <1>2, <1>3, <1>5, <1>6, Moves
<1>8. AfterAllocate(L) = M
  BY <1>3 DEF AfterAllocate, Allocated
<1> HIDE DEF M
<1>9. (Slots \ H) \ {t[1]} = Slots \ (H \cup {t[1]})
  OBVIOUS
<1>10. Split(M, H \cup {t[1]})
  BY <1>7, <1>9 DEF Split
<1>11. M.tail["open"] = t[1]
  <2>1. k \in Nat /\ k + 1 # 0 /\ k + 1 \in 1 .. k + 1
    BY <1>1, SMT DEF OnList
  <2>2. With(s, k, t[1])[k + 1] = t[1]
    BY <2>1 DEF With
  <2> QED
    BY <1>7, <2>1, <2>2 DEF OnList
<1> QED
  BY <1>3, <1>4, <1>8, <1>10, <1>11

(* _free_file moves an open object to the end of the free list. *)
LEMMA FreeSplits ==
  ASSUME NEW L, NEW H, Split(L, H), NEW h \in H
  PROVE  Split(AfterFree(L, h), H \ {h})
<1>1. PICK s, k : OnList(L, "open", s, k) /\ Members(s, k) = H
  BY DEF Split
<1>2. PICK t, m : OnList(L, "free", t, m) /\ Members(t, m) = Slots \ H
  BY DEF Split
<1>3. PICK i \in 1 .. k : s[i] = h
  BY <1>1 DEF Members
<1>4. h \in Slots
  BY <1>1, <1>3 DEF OnList
<1>5. L \in Lists /\ "free" \in Queues \ {"open"} /\ "open" \in Queues
  BY DEF Split, Queues
<1>6. Members(s, k) \cap Members(t, m) = {}
  BY <1>1, <1>2
<1> DEFINE M == InsertLast(ListRemove(L, "open", s[i]), "free", s[i])
<1>7. /\ M \in Lists
      /\ OnList(M, "open", Without(s, k, i), k - 1)
      /\ OnList(M, "free", With(t, m, s[i]), m + 1)
      /\ Members(Without(s, k, i), k - 1) = H \ {s[i]}
      /\ Members(With(t, m, s[i]), m + 1) = (Slots \ H) \cup {s[i]}
  BY <1>1, <1>2, <1>3, <1>5, <1>6, Moves
<1>8. AfterFree(L, h) = M
  BY <1>3 DEF AfterFree
<1> HIDE DEF M
<1>9. (Slots \ H) \cup {h} = Slots \ (H \ {h})
  BY <1>4
<1> QED
  BY <1>3, <1>7, <1>8, <1>9 DEF Split

----------------------------------------------------------------------------
(* A function that is defined from its value one before is determined: the *)
(* first place where two of them differ does not exist.                    *)
LEMMA SameFromStep ==
  ASSUME NEW N \in Nat, NEW f, NEW g, f[0] = g[0],
         \A i \in 1 .. N : f[i - 1] = g[i - 1] => f[i] = g[i]
  PROVE  \A i \in 0 .. N : f[i] = g[i]
<1> DEFINE D == {i \in 0 .. N : f[i] # g[i]}
<1> SUFFICES ASSUME D # {} PROVE FALSE
  OBVIOUS
<1>1. D \subseteq Nat
  OBVIOUS
<1>2. PICK i \in D : \A j \in D : ~ (<<j, i>> \in OpToRel(<, Nat))
  BY <1>1, NatLessThanWellFounded, WFMin, Zenon
<1>3. \A j \in D : ~ (j < i)
  BY <1>1, <1>2 DEF OpToRel
<1>4. i # 0 /\ i - 1 \in 0 .. N /\ i - 1 < i
  OBVIOUS
<1>5. f[i - 1] = g[i - 1]
  BY <1>3, <1>4
<1> QED
  BY <1>4, <1>5

(* What Walk meets are the members: MaxOpen steps are enough for any list. *)
LEMMA ListFits ==
  ASSUME NEW L, NEW q, NEW s, NEW k, OnList(L, q, s, k)
  PROVE  k <= MaxOpen
<1>1. k \in Nat /\ s \in Injection(1 .. k, Slots)
  BY DEF OnList, Injection, IsInjective
<1>2. IsFiniteSet(Slots) /\ Cardinality(Slots) = MaxOpen
  BY SlotFacts, FS_Interval DEF Slots
<1>3. Cardinality(1 .. k) = k
  BY <1>1, FS_Interval
<1>4. Cardinality(1 .. k) <= Cardinality(Slots)
  BY <1>1, <1>2, FS_Injection
<1> QED
  BY <1>2, <1>3, <1>4

(* Following the pointers from the head meets the members.                 *)
LEMMA WalkMeets ==
  ASSUME NEW L, NEW q, NEW s, NEW k, OnList(L, q, s, k)
  PROVE  Walk(L, q) = Members(s, k)
<1> DEFINE at == CHOOSE f : f = [i \in 0 .. MaxOpen |->
                   IF i = 0 THEN L.head[q]
                   ELSE LET n == f[i - 1] IN IF n = Nil THEN Nil ELSE L.next[n]]
           g == [i \in 0 .. MaxOpen |-> IF i < k THEN s[i + 1] ELSE Nil]
<1>0. k \in Nat /\ k <= MaxOpen /\ MaxOpen \in Nat
  <2>1. k <= MaxOpen
    BY ListFits
  <2> QED
    BY <2>1, SlotFacts DEF OnList
<1>1. \A i \in 1 .. k : s[i] \in Slots /\ s[i] # Nil /\ L.next[s[i]] = IF i = k THEN Nil ELSE s[i + 1]
  BY SlotFacts DEF OnList
<1>2. g[0] = L.head[q]
  BY <1>0 DEF OnList
<1>3. ASSUME NEW i \in 1 .. MaxOpen
      PROVE  g[i] = IF g[i - 1] = Nil THEN Nil ELSE L.next[g[i - 1]]
  <2>1. g[i] = (IF i < k THEN s[i + 1] ELSE Nil) /\ g[i - 1] = (IF i - 1 < k THEN s[i] ELSE Nil)
    BY <1>0
  <2> HIDE DEF g
  <2>2. CASE i <= k
    <3>1. i \in 1 .. k
      BY <2>2
    <3>2. g[i - 1] = s[i] /\ s[i] # Nil
      BY <1>0, <1>1, <2>1, <3>1
    <3> QED
      BY <1>0, <1>1, <2>1, <3>1, <3>2
  <2>3. CASE i > k
    BY <1>0, <2>1, <2>3
  <2> QED
    BY <1>0, <2>2, <2>3
<1>4. g = [i \in 0 .. MaxOpen |->
             IF i = 0 THEN L.head[q]
             ELSE LET n == g[i - 1] IN IF n = Nil THEN Nil ELSE L.next[n]]
  <2> DEFINE r == [i \in 0 .. MaxOpen |->
             IF i = 0 THEN L.head[q]
             ELSE LET n == g[i - 1] IN IF n = Nil THEN Nil ELSE L.next[n]]
  <2>1. \A i \in 0 .. MaxOpen : g[i] = r[i]
    <3> TAKE i \in 0 .. MaxOpen
    <3>1. CASE i = 0
      <4>1. r[0] = L.head[q]
        BY <1>0
      <4> QED
        BY <1>2, <3>1, <4>1
    <3>2. CASE i # 0
      <4>1. r[i] = IF g[i - 1] = Nil THEN Nil ELSE L.next[g[i - 1]]
        BY <3>2
      <4>2. i \in 1 .. MaxOpen
        BY <3>2
      <4> QED
        BY <1>3, <4>1, <4>2
    <3> QED
      BY <3>1, <3>2
  <2>2. g = [i \in 0 .. MaxOpen |-> g[i]] /\ r = [i \in 0 .. MaxOpen |-> r[i]]
    OBVIOUS
  <2> HIDE DEF g, r
  <2>3. g = r
    BY <2>1, <2>2
  <2> QED
    BY <2>3 DEF r
<1> HIDE DEF g
<1>5. at = [i \in 0 .. MaxOpen |->
              IF i = 0 THEN L.head[q]
              ELSE LET n == at[i - 1] IN IF n = Nil THEN Nil ELSE L.next[n]]
  BY <1>4
<1>6. Walk(L, q) = {at[i] : i \in 0 .. MaxOpen} \ {Nil}
  BY DEF Walk
<1> HIDE DEF at
<1>7. at[0] = g[0]
  BY <1>0, <1>2, <1>5
<1>8. ASSUME NEW i \in 1 .. MaxOpen, at[i - 1] = g[i - 1] PROVE at[i] = g[i]
  <2>1. i \in 0 .. MaxOpen /\ i # 0
    OBVIOUS
  <2>2. at[i] = IF at[i - 1] = Nil THEN Nil ELSE L.next[at[i - 1]]
    BY <1>5, <2>1, Zenon
  <2> QED
    BY <1>3, <1>8, <2>2
<1>9. \A i \in 0 .. MaxOpen : at[i] = g[i]
  BY <1>0, <1>7, <1>8, SameFromStep
<1>10. {g[i] : i \in 0 .. MaxOpen} \ {Nil} = Members(s, k)
  <2>1. ASSUME NEW i \in 0 .. MaxOpen, g[i] # Nil PROVE g[i] \in Members(s, k)
    <3>1. i < k /\ g[i] = s[i + 1] /\ i + 1 \in 1 .. k
      BY <1>0, <2>1 DEF g
    <3> QED
      BY <3>1 DEF Members
  <2>2. ASSUME NEW i \in 1 .. k PROVE s[i] # Nil /\ \E j \in 0 .. MaxOpen : s[i] = g[j]
    <3>1. i - 1 \in 0 .. MaxOpen /\ g[i - 1] = s[i]
      BY <1>0 DEF g
    <3> QED
      BY <1>1, <3>1
  <2> QED
    BY <2>1, <2>2 DEF Members
<1> QED
  BY <1>6, <1>9, <1>10

(* What WellFormed asks of each list.                                      *)
LEMMA ListIsWellFormed ==
  ASSUME NEW L, NEW q, NEW s, NEW k, OnList(L, q, s, k)
  PROVE  /\ (L.head[q] = Nil) = (L.tail[q] = Nil)
         /\ L.head[q] # Nil => L.prev[L.head[q]] = Nil /\ L.next[L.tail[q]] = Nil
         /\ \A n \in Walk(L, q) : L.next[n] # Nil => L.prev[L.next[n]] = n
<1>1. k \in Nat /\ \A i \in 1 .. k : s[i] # Nil
  BY SlotFacts DEF OnList
<1>2. (L.head[q] = Nil) = (k = 0) /\ (L.tail[q] = Nil) = (k = 0)
  BY <1>1, SMT DEF OnList
<1>3. ASSUME k # 0 PROVE L.prev[L.head[q]] = Nil /\ L.next[L.tail[q]] = Nil
  <2>1. 1 \in 1 .. k /\ k \in 1 .. k
    BY <1>1, <1>3
  <2> QED
    BY <1>3, <2>1 DEF OnList
<1>4. ASSUME NEW n \in Walk(L, q), L.next[n] # Nil PROVE L.prev[L.next[n]] = n
  <2>1. PICK i \in 1 .. k : n = s[i]
    BY WalkMeets DEF Members
  <2>2. i # k /\ i + 1 \in 1 .. k /\ L.next[n] = s[i + 1]
    BY <1>1, <1>4, <2>1, SMT DEF OnList
  <2>3. i + 1 # 1 /\ (i + 1) - 1 = i
    BY <2>2
  <2> QED
    BY <2>1, <2>2, <2>3 DEF OnList
<1> QED
  BY <1>2, <1>3, <1>4

(* The split into two lists is what ListsOK asks for.                      *)
LEMMA SplitIsWellFormed ==
  ASSUME NEW L, NEW H, Split(L, H)
  PROVE  WellFormed(L) /\ Walk(L, "open") = H /\ H \subseteq Slots
<1>1. PICK s, k : OnList(L, "open", s, k) /\ Members(s, k) = H
  BY DEF Split
<1>2. PICK t, m : OnList(L, "free", t, m) /\ Members(t, m) = Slots \ H
  BY DEF Split
<1>3. Walk(L, "open") = H /\ Walk(L, "free") = Slots \ H
  BY <1>1, <1>2, WalkMeets
<1>4. H \subseteq Slots
  BY <1>1 DEF Members, OnList
<1>5. \A q \in {"open", "free"} :
        /\ (L.head[q] = Nil) = (L.tail[q] = Nil)
        /\ L.head[q] # Nil => L.prev[L.head[q]] = Nil /\ L.next[L.tail[q]] = Nil
        /\ \A n \in Walk(L, q) : L.next[n] # Nil => L.prev[L.next[n]] = n
  BY <1>1, <1>2, ListIsWellFormed
<1> QED
  BY <1>3, <1>4, <1>5 DEF WellFormed

----------------------------------------------------------------------------
(* fl_init: after n rounds of its loop the free list is 1, ..., n.         *)
Filled(n) ==
    [head |-> [q \in {"open", "free"} |-> IF q = "free" /\ n > 0 THEN 1 ELSE Nil],
     tail |-> [q \in {"open", "free"} |-> IF q = "free" THEN n ELSE Nil],
     prev |-> [i \in Slots |-> IF i <= n THEN i - 1 ELSE Nil],
     next |-> [i \in Slots |-> IF i < n THEN i + 1 ELSE Nil]]

(* Its pointers stay among the objects.                                    *)
LEMMA FilledIsLists == \A n \in 0 .. MaxOpen : Filled(n) \in Lists
<1> TAKE n \in 0 .. MaxOpen
<1>1. 1 \in Slots /\ n \in Slots \cup {Nil}
  BY SlotFacts, SMT DEF Slots, Nil
<1>2. \A i \in Slots : /\ (IF i <= n THEN i - 1 ELSE Nil) \in {Nil} \cup Slots
                       /\ (IF i < n THEN i + 1 ELSE Nil) \in {Nil} \cup Slots
  BY SlotFacts, SMT DEF Slots, Nil
<1> QED
  BY <1>1, <1>2 DEF Filled, Lists

(* One round of the loop.                                                  *)
LEMMA FillStep ==
  ASSUME NEW n \in 1 .. MaxOpen
  PROVE  InsertLast(Filled(n - 1), "free", n) = Filled(n)
<1> DEFINE L == Filled(n - 1)
           N == InsertLast(L, "free", n)
<1>0. n \in Slots /\ n # Nil /\ n - 1 \in 0 .. MaxOpen /\ n \in Nat
  BY SlotFacts, SMT DEF Slots, Nil
<1>1. /\ L \in Lists
      /\ L.head["free"] = (IF n > 1 THEN 1 ELSE Nil) /\ L.tail["free"] = n - 1
  BY <1>0, FilledIsLists DEF Filled
<1>2. \A i \in Slots : /\ L.prev[i] = IF i <= n - 1 THEN i - 1 ELSE Nil
                       /\ L.next[i] = IF i < n - 1 THEN i + 1 ELSE Nil
  BY DEF Filled
<1>3. L.head["open"] = Nil /\ L.tail["open"] = Nil
  BY DEF Filled
<1> HIDE DEF L
<1>4. /\ N \in Lists
      /\ N.head = [L.head EXCEPT !["free"] = 1] /\ N.tail = [L.tail EXCEPT !["free"] = n]
      /\ \A i \in Slots : /\ N.prev[i] = IF i <= n THEN i - 1 ELSE Nil
                          /\ N.next[i] = IF i < n THEN i + 1 ELSE Nil
  <2>1. CASE n = 1
    <3>1. N = [L EXCEPT !.head["free"] = n, !.tail["free"] = n, !.prev[n] = Nil, !.next[n] = Nil]
      BY <1>1, <2>1 DEF InsertLast, InsertFirst, Nil
    <3> HIDE DEF N
    <3>2. /\ N \in Lists
          /\ N.head = [L.head EXCEPT !["free"] = n] /\ N.tail = [L.tail EXCEPT !["free"] = n]
          /\ N.prev = [L.prev EXCEPT ![n] = Nil] /\ N.next = [L.next EXCEPT ![n] = Nil]
      BY <1>0, <1>1, <3>1 DEF Lists
    <3>3. \A i \in Slots : /\ N.prev[i] = IF i = n THEN Nil ELSE L.prev[i]
                           /\ N.next[i] = IF i = n THEN Nil ELSE L.next[i]
      BY <1>1, <3>2 DEF Lists
    <3> QED
      BY <1>2, <2>1, <3>2, <3>3, SMT DEF Slots, Nil
  <2>2. CASE n > 1
    <3> DEFINE e == n - 1
               M == [L EXCEPT !.prev[n] = e, !.next[n] = L.next[e]]
               K == [M EXCEPT !.tail["free"] = n]
    <3>1. e \in Slots /\ e # n /\ e # Nil /\ L.tail["free"] = e /\ L.next[e] = Nil
      BY <1>0, <1>1, <1>2, <2>2, SMT DEF Slots, Nil
    <3> HIDE DEF e
    <3>2. N = InsertAfter(L, "free", e, n)
      BY <3>1 DEF InsertLast
    <3>3. /\ M \in Lists /\ M.head = L.head /\ M.tail = L.tail
          /\ M.prev = [L.prev EXCEPT ![n] = e] /\ M.next = [L.next EXCEPT ![n] = Nil]
      BY <1>0, <1>1, <3>1 DEF Lists
    <3>4. M.next[e] = Nil
      BY <1>0, <1>1, <3>1, <3>3 DEF Lists
    <3>5. N = [K EXCEPT !.next[e] = n]
      BY <3>2, <3>4 DEF InsertAfter
    <3> HIDE DEF M, N
    <3>6. /\ K \in Lists /\ K.head = L.head /\ K.tail = [L.tail EXCEPT !["free"] = n]
          /\ K.prev = M.prev /\ K.next = M.next
      BY <1>0, <1>1, <3>3 DEF Lists
    <3> HIDE DEF K
    <3>7. /\ N \in Lists /\ N.head = K.head /\ N.tail = K.tail
          /\ N.prev = K.prev /\ N.next = [K.next EXCEPT ![e] = n]
      BY <1>0, <3>1, <3>5, <3>6 DEF Lists
    <3>8. \A i \in Slots : /\ N.prev[i] = IF i = n THEN e ELSE L.prev[i]
                           /\ N.next[i] = IF i = e THEN n ELSE IF i = n THEN Nil ELSE L.next[i]
      BY <1>1, <3>1, <3>3, <3>6, <3>7 DEF Lists
    <3>9. N.head = [L.head EXCEPT !["free"] = 1]
      <4>1. L.head \in [{"open", "free"} -> {Nil} \cup Slots] /\ L.head["free"] = 1
        BY <1>1, <2>2 DEF Lists
      <4> QED
        BY <3>6, <3>7, <4>1
    <3>10. \A i \in Slots : /\ N.prev[i] = IF i <= n THEN i - 1 ELSE Nil
                            /\ N.next[i] = IF i < n THEN i + 1 ELSE Nil
      BY <1>0, <1>2, <3>8, SMT DEF Slots, Nil, e
    <3> QED
      BY <3>6, <3>7, <3>9, <3>10
  <2> QED
    BY <2>1, <2>2
<1> HIDE DEF N
<1>5. Filled(n).head = N.head /\ Filled(n).tail = N.tail
  <2>1. \A q \in {"open", "free"} : /\ N.head[q] = IF q = "free" /\ n > 0 THEN 1 ELSE Nil
                                    /\ N.tail[q] = IF q = "free" THEN n ELSE Nil
    BY <1>1, <1>3, <1>4 DEF Lists
  <2>2. N.head \in [{"open", "free"} -> {Nil} \cup Slots] /\ N.tail \in [{"open", "free"} -> {Nil} \cup Slots]
    BY <1>4 DEF Lists
  <2> QED
    BY <2>1, <2>2 DEF Filled
<1>6. Filled(n).prev = N.prev /\ Filled(n).next = N.next
  <2>1. N.prev \in [Slots -> {Nil} \cup Slots] /\ N.next \in [Slots -> {Nil} \cup Slots]
    BY <1>4 DEF Lists
  <2> QED
    BY <1>4, <2>1 DEF Filled
<1>7. Filled(n) \in Lists
  BY FilledIsLists, n \in 0 .. MaxOpen
<1> QED
  BY <1>4, <1>5, <1>6, <1>7 DEF Lists, N, L

(* fl_init leaves the free list complete.                                  *)
LEMMA AllFreeIsFilled == AllFree = Filled(MaxOpen)
<1> DEFINE after == CHOOSE f : f = [n \in 0 .. MaxOpen |->
                      IF n = 0 THEN Empty ELSE InsertLast(f[n - 1], "free", n)]
           g == [n \in 0 .. MaxOpen |-> Filled(n)]
           h == [n \in 0 .. MaxOpen |-> IF n = 0 THEN Empty ELSE InsertLast(g[n - 1], "free", n)]
<1>1. Filled(0) = Empty
  <2>1. \A i \in Slots : ~ (i <= 0) /\ ~ (i < 0)
    BY DEF Slots
  <2>2. [q \in {"open", "free"} |-> IF q = "free" /\ 0 > 0 THEN 1 ELSE Nil] = [q \in {"open", "free"} |-> Nil]
    OBVIOUS
  <2>3. [q \in {"open", "free"} |-> IF q = "free" THEN 0 ELSE Nil] = [q \in {"open", "free"} |-> Nil]
    BY DEF Nil
  <2> QED
    BY <2>1, <2>2, <2>3 DEF Filled, Empty
<1>2. \A n \in 0 .. MaxOpen : g[n] = h[n]
  <2> TAKE n \in 0 .. MaxOpen
  <2>1. CASE n = 0
    BY <1>1, <2>1
  <2>2. CASE n # 0
    <3>1. n \in 1 .. MaxOpen /\ n - 1 \in 0 .. MaxOpen
      BY <2>2, SlotFacts, SMT
    <3>2. h[n] = InsertLast(Filled(n - 1), "free", n)
      BY <2>2, <3>1
    <3> QED
      BY <3>1, <3>2, FillStep
  <2> QED
    BY <2>1, <2>2
<1>3. g = h
  <2>1. g = [n \in 0 .. MaxOpen |-> g[n]] /\ h = [n \in 0 .. MaxOpen |-> h[n]]
    OBVIOUS
  <2> HIDE DEF g, h
  <2> QED
    BY <1>2, <2>1
<1> HIDE DEF g
<1>4. after = [n \in 0 .. MaxOpen |-> IF n = 0 THEN Empty ELSE InsertLast(after[n - 1], "free", n)]
  BY <1>3
<1>5. AllFree = after[MaxOpen]
  BY DEF AllFree
<1> HIDE DEF after
<1>6. after[0] = g[0]
  BY <1>1, <1>4, SlotFacts DEF g
<1>7. ASSUME NEW n \in 1 .. MaxOpen, after[n - 1] = g[n - 1] PROVE after[n] = g[n]
  <2>1. n \in 0 .. MaxOpen /\ n # 0
    OBVIOUS
  <2>2. after[n] = InsertLast(after[n - 1], "free", n)
    BY <1>4, <2>1, Zenon
  <2>3. g[n] = InsertLast(g[n - 1], "free", n)
    BY <1>2, <2>1
  <2> QED
    BY <1>7, <2>2, <2>3
<1>8. \A n \in 0 .. MaxOpen : after[n] = g[n]
  BY <1>6, <1>7, SlotFacts, SameFromStep
<1> QED
  BY <1>5, <1>8, SlotFacts DEF g

(* At the start nothing is held.                                           *)
LEMMA AllFreeSplits == Split(AllFree, {})
<1> DEFINE L == Filled(MaxOpen)
           s == [i \in {} |-> 1]
           t == [i \in 1 .. MaxOpen |-> i]
<1>1. L \in Lists
  BY FilledIsLists, SlotFacts
<1>2. OnList(L, "open", s, 0) /\ Members(s, 0) = {}
  <2>1. L.head["open"] = Nil /\ L.tail["open"] = Nil /\ 1 .. 0 = {}
    BY DEF Filled
  <2>2. s \in [1 .. 0 -> Slots]
    BY <2>1
  <2> QED
    BY <2>1, <2>2 DEF OnList, Members
<1>3. OnList(L, "free", t, MaxOpen)
  <2>1. t \in [1 .. MaxOpen -> Slots] /\ \A i \in 1 .. MaxOpen : t[i] = i
    BY DEF Slots
  <2>2. L.head["free"] = 1 /\ L.tail["free"] = MaxOpen
    BY SlotFacts DEF Filled
  <2>3. \A i \in 1 .. MaxOpen : /\ L.prev[i] = i - 1
                                /\ L.next[i] = IF i < MaxOpen THEN i + 1 ELSE Nil
    BY DEF Filled, Slots
  <2> HIDE DEF L, t
  <2> QED
    BY <2>1, <2>2, <2>3, SlotFacts, SMT DEF OnList
<1>4. Members(t, MaxOpen) = Slots \ {}
  BY DEF Members, Slots
<1> HIDE DEF L, s, t
<1> QED
  BY <1>1, <1>2, <1>3, <1>4, AllFreeIsFilled DEF Split, L

----------------------------------------------------------------------------
(* What a call that opens a file passes on: no object, and the same ones   *)
(* held; or one more.                                                      *)
Passes(o, H) ==
    \/ o.h = Nil /\ Split(o.L, H)
    \/ o.h \in Slots \ H /\ Split(o.L, H \cup {o.h})

(* A failing path gives back the object it took ...                        *)
LEMMA RefusedPasses ==
  ASSUME NEW s, NEW M, NEW H, NEW h \in Slots \ H, Split(M, H \cup {h})
  PROVE  Passes(Refused(s, AfterFree(M, h)), H)
<1>1. Split(AfterFree(M, h), (H \cup {h}) \ {h})
  BY FreeSplits
<1>2. (H \cup {h}) \ {h} = H
  OBVIOUS
<1> QED
  BY <1>1, <1>2 DEF Passes, Refused

(* ... and a path that succeeds passes it on.                              *)
LEMMA OpenedPasses ==
  ASSUME NEW s, NEW M, NEW H, NEW h \in Slots \ H, Split(M, H \cup {h}),
         M.tail["open"] = h, NEW n, NEW c, NEW len
  PROVE  Passes(Opened(s, M, n, c, len), H)
  BY DEF Passes, Opened

(* _open_file                                                              *)
LEMMA OpenFilePasses ==
  ASSUME NEW s, NEW L, NEW H, Split(L, H), NEW n
  PROVE  Passes(OpenFile(s, L, n), H)
<1>1. CASE Allocated(L) = Nil
  BY <1>1 DEF OpenFile, Refused, Passes
<1>2. CASE Allocated(L) # Nil
  <2> DEFINE M == AfterAllocate(L)
             h == Allocated(L)
  <2>1. h \in Slots \ H /\ Split(M, H \cup {h}) /\ M.tail["open"] = h
    BY <1>2, AllocateSplits
  <2>2. OpenFile(s, L, n) = OpenIn(s, M, h, n)
    BY <1>2 DEF OpenFile
  <2> HIDE DEF M, h
  <2>3. \/ \E r : OpenIn(s, M, h, n) = Refused(r, AfterFree(M, h))
        \/ \E r, c, len : OpenIn(s, M, h, n) = Opened(r, M, n, c, len)
    BY DEF OpenIn
  <2> QED
    BY <2>1, <2>2, <2>3, RefusedPasses, OpenedPasses
<1> QED
  BY <1>1, <1>2

(* _create_file, wherever it fails                                         *)
LEMMA CreateFilePasses ==
  ASSUME NEW s, NEW L, NEW H, Split(L, H), NEW n
  PROVE  Passes(CreateFile(s, L, n), H)
<1>1. CASE Allocated(L) = Nil
  BY <1>1 DEF CreateFile, Refused, Passes
<1>2. CASE Allocated(L) # Nil
  <2> DEFINE M == AfterAllocate(L)
             h == Allocated(L)
  <2>1. h \in Slots \ H /\ Split(M, H \cup {h}) /\ M.tail["open"] = h
    BY <1>2, AllocateSplits
  <2>2. CreateFile(s, L, n) = CreateIn(s, M, h, n)
    BY <1>2 DEF CreateFile
  <2> HIDE DEF M, h
  <2>3. \A a, c : \/ \E r : CreateDone(a, M, h, n, c) = Refused(r, AfterFree(M, h))
                  \/ \E r, d, len : CreateDone(a, M, h, n, c) = Opened(r, M, n, d, len)
    BY DEF CreateDone
  <2>4. \A r, c : Passes(CreateAt(r, M, h, n, c), H)
    <3> TAKE r, c
    <3>1. \/ \E u : CreateAt(r, M, h, n, c) = Refused(u, AfterFree(M, h))
          \/ \E a : CreateAt(r, M, h, n, c) = CreateDone(a, M, h, n, c)
      BY DEF CreateAt
    <3> QED
      BY <2>1, <2>3, <3>1, RefusedPasses, OpenedPasses
  <2>5. \/ \E r : CreateIn(s, M, h, n) = Refused(r, AfterFree(M, h))
        \/ \E r, c : CreateIn(s, M, h, n) = CreateAt(r, M, h, n, c)
    BY DEF CreateIn, CreateNew
  <2> QED
    BY <2>1, <2>2, <2>4, <2>5, RefusedPasses
<1> QED
  BY <1>1, <1>2

(* fl_fopen in every mode                                                  *)
LEMMA FopenPasses ==
  ASSUME Split(lists, held), NEW n, NEW m \in Modes
  PROVE  Passes(Fopen(n, m), held)
<1>1. Passes(OpenFile(fs, lists, n), held) /\ Passes(CreateFile(fs, lists, n), held)
  BY OpenFilePasses, CreateFilePasses
<1>2. \A o : Passes(o, held) => Passes(OrCreate(o, n), held) /\ Passes(OrOpen(o, n), held)
  <2> SUFFICES ASSUME NEW o, Passes(o, held)
               PROVE  Passes(OrCreate(o, n), held) /\ Passes(OrOpen(o, n), held)
    OBVIOUS
  <2>1. CASE o.h # Nil
    BY <2>1 DEF OrCreate, OrOpen
  <2>2. CASE o.h = Nil
    <3>1. Split(o.L, held)
      BY <2>2, SlotFacts DEF Passes
    <3>2. Passes(CreateFile(o.s, o.L, n), held) /\ Passes(OpenFile(o.s, o.L, n), held)
      BY <3>1, OpenFilePasses, CreateFilePasses
    <3> QED
      BY <2>2, <3>2 DEF OrCreate, OrOpen
  <2> QED
    BY <2>1, <2>2
<1>3. \/ Fopen(n, m) = OpenFile(fs, lists, n)
      \/ Fopen(n, m) = OrCreate(OpenFile(fs, lists, n), n)
      \/ Fopen(n, m) = OrOpen(CreateFile(fs, lists, n), n)
  <2>1. m \in {"r", "w", "a", "r+", "w+", "a+"}
    BY FatAssumption
  <2>2. CASE m \in {"r", "r+"}
    BY <2>2 DEF Fopen
  <2>3. CASE m \in {"w+", "a+"}
    BY <2>3 DEF Fopen
  <2>4. CASE m \in {"w", "a"}
    BY <2>4 DEF Fopen
  <2> QED
    BY <2>1, <2>2, <2>3, <2>4
<1> QED
  BY <1>1, <1>2, <1>3

(* fl_fclose frees its object whether it could flush or not.               *)
LEMMA FcloseLists == \A s, L, f, h : Fclose(s, L, f, h).L = AfterFree(L, h)
  BY DEF Fclose, CloseFlushed

----------------------------------------------------------------------------
(* Every call leaves each object on one list, the held ones on the open.   *)
LEMMA SplitNext == Split(lists, held) /\ [Next]_vars => Split(lists, held)'
<1> SUFFICES ASSUME Split(lists, held), [Next]_vars PROVE Split(lists', held')
  BY DEF Split, OnList, Members
<1>1. ASSUME NEW n \in Names, NEW m \in Modes, Open(n, m) PROVE Split(lists', held')
  <2> DEFINE o == Fopen(n, m)
  <2>1. lists' = o.L /\ held' = held \cup ({o.h} \ {Nil})
    BY <1>1 DEF Open
  <2>2. Passes(o, held)
    BY FopenPasses
  <2> HIDE DEF o
  <2>3. CASE o.h = Nil
    <3>1. held' = held /\ Split(o.L, held)
      BY <2>1, <2>2, <2>3, SlotFacts DEF Passes
    <3> QED
      BY <2>1, <3>1
  <2>4. CASE o.h # Nil
    <3>1. held' = held \cup {o.h} /\ Split(o.L, held \cup {o.h})
      BY <2>1, <2>2, <2>4 DEF Passes
    <3> QED
      BY <2>1, <3>1
  <2> QED
    BY <2>3, <2>4
<1>2. ASSUME NEW n \in Names, Delete(n) PROVE Split(lists', held')
  <2> DEFINE o == OpenFile(fs, lists, n)
  <2>1. Passes(o, held)
    BY OpenFilePasses
  <2>2. held' = held
    BY <1>2 DEF Delete
  <2>3. CASE o.h = Nil
    <3>1. lists' = o.L
      BY <1>2, <2>3 DEF Delete
    <3> HIDE DEF o
    <3>2. Split(o.L, held)
      BY <2>1, <2>3, SlotFacts DEF Passes
    <3> QED
      BY <2>2, <3>1, <3>2
  <2>4. CASE o.h # Nil
    <3>1. lists' = AfterFree(o.L, o.h)
      <4>1. lists' = Removed(FreeChain(o.s, o.f.start), o, n).L
        BY <1>2, <2>4 DEF Delete
      <4> HIDE DEF o
      <4> QED
        BY <4>1, FcloseLists DEF Removed
    <3> HIDE DEF o
    <3>2. o.h \in Slots \ held /\ Split(o.L, held \cup {o.h})
      BY <2>1, <2>4 DEF Passes
    <3>3. Split(AfterFree(o.L, o.h), (held \cup {o.h}) \ {o.h})
      BY <3>2, FreeSplits
    <3>4. (held \cup {o.h}) \ {o.h} = held
      BY <3>2
    <3> QED
      BY <2>2, <3>1, <3>3, <3>4
  <2> QED
    BY <2>3, <2>4
<1>3. ASSUME NEW h \in held, Close(h) PROVE Split(lists', held')
  <2>1. lists' = AfterFree(lists, h) /\ held' = held \ {h}
    BY <1>3, FcloseLists DEF Close
  <2> QED
    BY <2>1, FreeSplits
<1>4. ASSUME NEW h \in held, NEW k \in Lengths, Write(h, k) \/ Read(h, k)
      PROVE  Split(lists', held')
  BY <1>4 DEF Write, WriteBytes, Read
<1>5. ASSUME NEW h \in held, NEW p \in 0 .. MaxLength, Seek(h, p) PROVE Split(lists', held')
  BY <1>5 DEF Seek
<1>6. ASSUME NEW h \in held, Fflush(h) PROVE Split(lists', held')
  BY <1>6 DEF Fflush
<1>7. CASE MediaWrite \/ UNCHANGED vars
  BY <1>7 DEF MediaWrite, vars
<1> QED
  BY <1>1, <1>2, <1>3, <1>4, <1>5, <1>6, <1>7 DEF Next

(* For every number of file objects, all names and modes, and whichever of *)
(* the calls fail: each object is on exactly one of the two lists, both    *)
(* read the same from either end, and the open list is what callers hold   *)
(* (_allocate_file and _free_file in every path of _open_file,             *)
(* _create_file, fl_fclose and fl_remove, fat_filelib.c).                  *)
THEOREM ObjectsNeverLost == Spec => []ListsOK
<1>1. Init => Split(lists, held)
  BY AllFreeSplits DEF Init
<1>2. Split(lists, held) => ListsOK
  BY SplitIsWellFormed DEF ListsOK
<1> QED
  BY <1>1, <1>2, SplitNext, PTL DEF Spec

=============================================================================
