------------------------- MODULE DelayQueueProofs -------------------------
(***************************************************************************)
(* Proofs that the delta list of DelayQueue keeps every alarm linked, on   *)
(* time and never early, for every set of delays and every bound.          *)
(*                                                                         *)
(* The plan: Prefix(q)[i], the time until entry i is due, is characterised *)
(* by its recursion equations (PrefixStep, PrefixUnique).  The three list  *)
(* operations are then described by what they do to Prefix                 *)
(* (ElapseProperties, InsertProperties, RemoveProperties), and from there  *)
(* on the deltas are never looked at again: each action preserves          *)
(* IInv because of what it does to the due times.  The list is then shown  *)
(* to implement AlarmClock, which has only the due times, and its alarms   *)
(* to go off in order: Ordered says that a list whose entries are sorted   *)
(* by due time and token stays so while the clock is not set back.         *)
(***************************************************************************)
EXTENDS DelayQueue, TLAPS, WellFoundedInduction, SequenceTheorems

(* A nonempty set of naturals has a least element.  Every induction below is
   by a least counterexample, taken from this lemma. *)
LEMMA LeastNatural ==
  ASSUME NEW T \in SUBSET Nat, T # {}
  PROVE  \E m \in T : \A n \in T : m <= n
<1> DEFINE R == {p \in Nat \X Nat : p[1] < p[2]}
<1>1. IsWellFoundedOn(R, Nat)
  <2>1. R = OpToRel(<, Nat)
    BY DEF OpToRel
  <2> QED BY <2>1, NatLessThanWellFounded
<1>2. PICK m \in T : \A n \in T : ~(<<n, m>> \in R)
  <2> HIDE DEF R
  <2> QED BY <1>1, WFMin
<1>3. ASSUME NEW n \in T PROVE m <= n
  <2>1. <<n, m>> \in Nat \X Nat /\ <<n, m>>[1] = n /\ <<n, m>>[2] = m
    OBVIOUS
  <2>2. ~(n < m)
    BY <1>2, <2>1
  <2> QED BY <2>2
<1>4. QED
  BY <1>3

(* f holds the sums of the first n deltas of q. *)
Sums(f, q, n) == f = [i \in 0..n |-> IF i = 0 THEN 0 ELSE f[i-1] + q[i].delta]

(* Partial sums of the deltas exist, so the recursive definition of Prefix is
   well founded. *)
LEMMA SumsExist ==
  ASSUME NEW q \in Seq(Entry), NEW n \in 0..Len(q)
  PROVE  \E f : Sums(f, q, n)
<1> DEFINE T == {m \in 0..Len(q) : ~ \E f : Sums(f, q, m)}
<1>1. SUFFICES ASSUME T # {} PROVE FALSE
  OBVIOUS
<1>2. PICK m \in T : \A k \in T : m <= k
  <2>1. T \subseteq Nat
    OBVIOUS
  <2> HIDE DEF T
  <2> QED BY <1>1, <2>1, LeastNatural
<1>3. CASE m = 0
  <2> DEFINE z == [i \in 0..0 |-> 0]
  <2>1. Sums(z, q, 0)
    BY DEF Sums
  <2> QED BY <1>2, <1>3, <2>1
<1>4. CASE m > 0
  <2>1. PICK g : Sums(g, q, m-1)
    BY <1>2, <1>4
  <2> DEFINE f == [i \in 0..m |-> IF i = m THEN g[m-1] + q[m].delta ELSE g[i]]
  <2>2. Sums(f, q, m)
    BY <1>4, <2>1 DEF Sums
  <2> QED BY <1>2, <2>2
<1>5. QED
  BY <1>2, <1>3, <1>4

(* The defining equations of Prefix: each entry is due its delta after the one
   before it in the list. *)
LEMMA PrefixStep ==
  ASSUME NEW q \in Seq(Entry)
  PROVE  /\ Prefix(q)[0] = 0
         /\ \A i \in 1..Len(q) : Prefix(q)[i] = Prefix(q)[i-1] + q[i].delta
<1>1. PICK f : Sums(f, q, Len(q))
  BY SumsExist
<1>2. Prefix(q) = [i \in 0..Len(q) |-> IF i = 0 THEN 0 ELSE Prefix(q)[i-1] + q[i].delta]
  BY <1>1 DEF Prefix, Sums
<1>3. QED
  BY <1>2

(* A function that satisfies those equations is Prefix. *)
LEMMA PrefixUnique ==
  ASSUME NEW q \in Seq(Entry), NEW f, f[0] = 0,
         \A i \in 1..Len(q) : f[i] = f[i-1] + q[i].delta
  PROVE  \A i \in 0..Len(q) : Prefix(q)[i] = f[i]
<1> DEFINE T == {m \in 0..Len(q) : Prefix(q)[m] # f[m]}
<1>1. SUFFICES ASSUME T # {} PROVE FALSE
  OBVIOUS
<1>2. PICK m \in T : \A k \in T : m <= k
  <2>1. T \subseteq Nat
    OBVIOUS
  <2> HIDE DEF T
  <2> QED BY <1>1, <2>1, LeastNatural
<1>3. m # 0 /\ m - 1 \notin T
  BY <1>2, PrefixStep
<1>4. QED
  BY <1>2, <1>3, PrefixStep

(* The time until an entry is due is a natural number. *)
LEMMA PrefixType ==
  ASSUME NEW q \in Seq(Entry)
  PROVE  \A i \in 0..Len(q) : Prefix(q)[i] \in Nat
<1> DEFINE T == {m \in 0..Len(q) : Prefix(q)[m] \notin Nat}
<1>1. SUFFICES ASSUME T # {} PROVE FALSE
  OBVIOUS
<1>2. PICK m \in T : \A k \in T : m <= k
  <2>1. T \subseteq Nat
    OBVIOUS
  <2> HIDE DEF T
  <2> QED BY <1>1, <2>1, LeastNatural
<1>3. m # 0 /\ m - 1 \notin T
  BY <1>2, PrefixStep
<1>4. q[m] \in Entry
  BY <1>2, <1>3, ElementOfSeq
<1>5. q[m].delta \in Nat
  BY <1>4 DEF Entry
<1>6. Prefix(q)[m-1] \in Nat /\ Prefix(q)[m] = Prefix(q)[m-1] + q[m].delta
  BY <1>2, <1>3, PrefixStep
<1>7. QED
  BY <1>2, <1>5, <1>6

(* The list is sorted by due time, because no delta is negative. *)
LEMMA PrefixMonotone ==
  ASSUME NEW q \in Seq(Entry), NEW i \in 0..Len(q)
  PROVE  \A j \in i..Len(q) : Prefix(q)[i] <= Prefix(q)[j]
<1> DEFINE T == {m \in i..Len(q) : ~(Prefix(q)[i] <= Prefix(q)[m])}
<1>1. SUFFICES ASSUME T # {} PROVE FALSE
  OBVIOUS
<1>2. PICK m \in T : \A k \in T : m <= k
  <2>1. T \subseteq Nat
    OBVIOUS
  <2> HIDE DEF T
  <2> QED BY <1>1, <2>1, LeastNatural
<1>3. m # i /\ m - 1 \notin T
  BY <1>2, PrefixType
<1>4. q[m] \in Entry /\ Prefix(q)[m] = Prefix(q)[m-1] + q[m].delta
  BY <1>2, <1>3, PrefixStep, ElementOfSeq
<1>5. q[m].delta \in Nat
  BY <1>4 DEF Entry
<1>6. Prefix(q)[i] \in Nat /\ Prefix(q)[m-1] \in Nat /\ Prefix(q)[i] <= Prefix(q)[m-1]
  BY <1>2, <1>3, PrefixType
<1>7. QED
  BY <1>2, <1>4, <1>5, <1>6

(* The loops of addEntry and synchronize stop behind the last entry that is
   due no later than the time they start with. *)
LEMMA PassedProperties ==
  ASSUME NEW q \in Seq(Entry), NEW t \in Nat
  PROVE  /\ Passed(q, t) \in 0..Len(q)
         /\ \A j \in 0..Passed(q, t) : Prefix(q)[j] <= t
         /\ \A j \in Passed(q, t)+1..Len(q) : Prefix(q)[j] > t
<1> DEFINE P(k) == /\ \A j \in 1..k : Prefix(q)[j] <= t
                   /\ k < Len(q) => Prefix(q)[k+1] > t
<1>1. \E k \in 0..Len(q) : P(k)
  <2> DEFINE T == {m \in 1..Len(q) : Prefix(q)[m] > t}
  <2>1. CASE T = {}
    BY <2>1, PrefixType
  <2>2. CASE T # {}
    <3>1. PICK m \in T : \A n \in T : m <= n
      <4>1. T \subseteq Nat
        OBVIOUS
      <4> HIDE DEF T
      <4> QED BY <2>2, <4>1, LeastNatural
    <3>2. P(m - 1)
      BY <3>1, PrefixType
    <3> QED BY <3>2
  <2> QED BY <2>1, <2>2
<1>2. Passed(q, t) \in 0..Len(q) /\ P(Passed(q, t))
  BY <1>1 DEF Passed
<1>3. QED
  BY <1>2, PrefixStep, PrefixMonotone, PrefixType

(* The fields of the entries of a list. *)
LEMMA EntryType ==
  ASSUME NEW q \in Seq(Entry)
  PROVE  \A j \in 1..Len(q) : q[j].token \in Tokens /\ q[j].delta \in Nat
<1>1. \A j \in 1..Len(q) : q[j] \in Entry
  BY ElementOfSeq
<1>2. QED
  BY <1>1 DEF Entry

(* Shorten changes one delta and no token. *)
LEMMA ShortenProperties ==
  ASSUME NEW q \in Seq(Entry), NEW i \in Int, NEW d \in Int,
         i \in 1..Len(q) => q[i].delta - d \in Nat
  PROVE  /\ Shorten(q, i, d) \in Seq(Entry)
         /\ Len(Shorten(q, i, d)) = Len(q)
         /\ \A j \in 1..Len(q) :
              /\ Shorten(q, i, d)[j].token = q[j].token
              /\ Shorten(q, i, d)[j].delta = IF j = i THEN q[j].delta - d ELSE q[j].delta
<1>1. \A j \in 1..Len(q) :
        WithDelta(q[j], IF j = i THEN q[j].delta - d ELSE q[j].delta) \in Entry
  BY EntryType DEF WithDelta, Entry
<1>2. Shorten(q, i, d) \in [1..Len(q) -> Entry]
  BY <1>1 DEF Shorten
<1>3. Len(q) \in Nat
  BY LenProperties
<1>4. QED
  BY <1>2, <1>3 DEF Shorten, WithDelta

(* synchronize() brings every due time nearer by the elapsed time, down to 0,
   although it writes a prefix of the list only. *)
LEMMA ElapseProperties ==
  ASSUME NEW q \in Seq(Entry), NEW t \in Nat
  PROVE  /\ Elapse(q, t) \in Seq(Entry)
         /\ Len(Elapse(q, t)) = Len(q)
         /\ \A i \in 1..Len(q) :
              /\ Elapse(q, t)[i].token = q[i].token
              /\ Prefix(Elapse(q, t))[i] = Positive(Prefix(q)[i] - t)
<1>1. PICK k \in 0..Len(q) :
        /\ k = Passed(q, t)
        /\ \A j \in 0..k : Prefix(q)[j] <= t
        /\ \A j \in k+1..Len(q) : Prefix(q)[j] > t
  BY PassedProperties
<1>2. PICK d : d = t - Prefix(q)[k]
  OBVIOUS
<1>3. PICK rest : rest = Shorten(q, k + 1, d)
  OBVIOUS
<1>4. PICK r : r = Elapse(q, t)
  OBVIOUS
<1>5. /\ Len(q) \in Nat
      /\ \A i \in 0..Len(q) : Prefix(q)[i] \in Nat
      /\ \A i \in 1..Len(q) : Prefix(q)[i] = Prefix(q)[i-1] + q[i].delta
      /\ \A i \in 1..Len(q) : q[i].token \in Tokens /\ q[i].delta \in Nat
  BY LenProperties, PrefixType, PrefixStep, EntryType
<1>6. d \in Nat /\ (k + 1 \in 1..Len(q) => q[k+1].delta - d \in Nat)
  <2>1. d \in Nat /\ Prefix(q)[k] \in Nat
    BY <1>1, <1>2, <1>5
  <2>2. ASSUME k + 1 \in 1..Len(q) PROVE q[k+1].delta - d \in Nat
    <3>1. Prefix(q)[k+1] > t /\ (k + 1) - 1 = k /\ Prefix(q)[k+1] \in Nat
      BY <1>1, <1>5, <2>2
    <3>2. Prefix(q)[k+1] = Prefix(q)[k] + q[k+1].delta /\ q[k+1].delta \in Nat
      BY <1>5, <2>2, <3>1
    <3> QED BY <1>2, <2>1, <3>1, <3>2
  <2> QED BY <2>1, <2>2
<1>7. /\ rest \in Seq(Entry)
      /\ Len(rest) = Len(q)
      /\ \A j \in 1..Len(q) :
           /\ rest[j].token = q[j].token
           /\ rest[j].delta = IF j = k + 1 THEN q[j].delta - d ELSE q[j].delta
  BY <1>3, <1>5, <1>6, ShortenProperties
<1>8. r = [j \in 1..Len(q) |-> IF j <= k THEN WithDelta(q[j], 0) ELSE rest[j]]
  BY <1>1, <1>2, <1>3, <1>4 DEF Elapse
<1>9. r \in Seq(Entry) /\ Len(r) = Len(q)
  <2>1. \A j \in 1..Len(q) : WithDelta(q[j], 0) \in Entry
    BY <1>5 DEF WithDelta, Entry
  <2>2. \A j \in 1..Len(q) : rest[j] \in Entry
    BY <1>7, ElementOfSeq
  <2>3. r \in [1..Len(q) -> Entry]
    BY <1>8, <2>1, <2>2
  <2> QED BY <1>5, <1>8, <2>3
<1>10. \A j \in 1..Len(q) :
         /\ r[j].token = q[j].token
         /\ j <= k => r[j].delta = 0
         /\ j = k + 1 => r[j].delta = q[j].delta - d
         /\ j > k + 1 => r[j].delta = q[j].delta
  BY <1>7, <1>8 DEF WithDelta
<1>11. PICK f : f = [i \in 0..Len(q) |-> Positive(Prefix(q)[i] - t)]
  OBVIOUS
<1>12. f[0] = 0
  BY <1>1, <1>5, <1>11 DEF Positive
<1>13. ASSUME NEW i \in 1..Len(r) PROVE f[i] = f[i-1] + r[i].delta
  <2>1. /\ f[i] = Positive(Prefix(q)[i] - t)
        /\ f[i-1] = Positive(Prefix(q)[i-1] - t)
    BY <1>5, <1>9, <1>11
  <2>2. CASE i <= k
    <3>1. Prefix(q)[i] <= t /\ Prefix(q)[i-1] <= t /\ r[i].delta = 0
      BY <1>1, <1>5, <1>9, <1>10, <2>2
    <3> QED BY <1>5, <1>9, <2>1, <3>1 DEF Positive
  <2>3. CASE i = k + 1
    <3>1. Prefix(q)[i] > t /\ Prefix(q)[i-1] <= t /\ r[i].delta = q[i].delta - (t - Prefix(q)[i-1])
      BY <1>1, <1>2, <1>5, <1>9, <1>10, <2>3
    <3> QED BY <1>5, <1>9, <2>1, <3>1 DEF Positive
  <2>4. CASE i > k + 1
    <3>1. i \in k+1..Len(q) /\ i - 1 \in k+1..Len(q)
      BY <1>1, <1>5, <1>9, <2>4
    <3>2. Prefix(q)[i-1] > t /\ Prefix(q)[i] > t /\ r[i].delta = q[i].delta
      BY <1>1, <1>9, <1>10, <2>4, <3>1
    <3>3. Prefix(q)[i-1] \in Nat /\ Prefix(q)[i] = Prefix(q)[i-1] + q[i].delta /\ q[i].delta \in Nat
      BY <1>5, <1>9
    <3>4. Prefix(q)[i] \in Nat
      BY <3>3
    <3>5. f[i] = Prefix(q)[i] - t /\ f[i-1] = Prefix(q)[i-1] - t
      BY <2>1, <3>2, <3>3, <3>4 DEF Positive
    <3>6. PICK before \in Nat, delta \in Nat : before = Prefix(q)[i-1] /\ delta = q[i].delta
      BY ONLY <3>3
    <3>7. f[i] = (before + delta) - t /\ f[i-1] = before - t /\ r[i].delta = delta
      BY ONLY <3>2, <3>3, <3>5, <3>6
    <3>8. (before + delta) - t = (before - t) + delta
      BY ONLY <3>6, t \in Nat
    <3> QED BY ONLY <3>7, <3>8
  <2> QED BY <1>1, <1>9, <2>2, <2>3, <2>4
<1>14. \A i \in 0..Len(r) : Prefix(r)[i] = f[i]
  BY <1>9, <1>12, <1>13, PrefixUnique
<1>15. QED
  BY <1>4, <1>5, <1>9, <1>10, <1>11, <1>14

(* addEntry() puts the new entry behind those due no later, gives it the due
   time that was asked for, and moves no other due time. *)
LEMMA InsertProperties ==
  ASSUME NEW q \in Seq(Entry), NEW token \in Tokens, NEW delay \in Nat
  PROVE  /\ Insert(q, token, delay) \in Seq(Entry)
         /\ Len(Insert(q, token, delay)) = Len(q) + 1
         /\ \E k \in 0..Len(q) :
              /\ \A i \in 1..k : /\ Insert(q, token, delay)[i].token = q[i].token
                                 /\ Prefix(Insert(q, token, delay))[i] = Prefix(q)[i]
                                 /\ Prefix(q)[i] <= delay
              /\ Insert(q, token, delay)[k+1].token = token
              /\ Prefix(Insert(q, token, delay))[k+1] = delay
              /\ \A i \in k+2..Len(q)+1 :
                   /\ Insert(q, token, delay)[i].token = q[i-1].token
                   /\ Prefix(Insert(q, token, delay))[i] = Prefix(q)[i-1]
                   /\ Prefix(q)[i-1] > delay
<1>1. PICK k \in 0..Len(q) :
        /\ k = Passed(q, delay)
        /\ \A j \in 0..k : Prefix(q)[j] <= delay
        /\ \A j \in k+1..Len(q) : Prefix(q)[j] > delay
  BY PassedProperties
<1>2. PICK d : d = delay - Prefix(q)[k]
  OBVIOUS
<1>3. PICK rest : rest = Shorten(q, k + 1, d)
  OBVIOUS
<1>4. PICK e : e = [token |-> token, delta |-> d]
  OBVIOUS
<1>5. PICK r : r = Insert(q, token, delay)
  OBVIOUS
<1>6. /\ Len(q) \in Nat
      /\ \A i \in 0..Len(q) : Prefix(q)[i] \in Nat
      /\ \A i \in 1..Len(q) : Prefix(q)[i] = Prefix(q)[i-1] + q[i].delta
      /\ \A i \in 1..Len(q) : q[i].token \in Tokens /\ q[i].delta \in Nat
  BY LenProperties, PrefixType, PrefixStep, EntryType
<1>7. d \in Nat /\ (k + 1 \in 1..Len(q) => q[k+1].delta - d \in Nat)
  <2>1. d \in Nat /\ Prefix(q)[k] \in Nat
    BY <1>1, <1>2, <1>6
  <2>2. ASSUME k + 1 \in 1..Len(q) PROVE q[k+1].delta - d \in Nat
    <3>1. Prefix(q)[k+1] > delay /\ (k + 1) - 1 = k /\ Prefix(q)[k+1] \in Nat
      BY <1>1, <1>6, <2>2
    <3>2. Prefix(q)[k+1] = Prefix(q)[k] + q[k+1].delta /\ q[k+1].delta \in Nat
      BY <1>6, <2>2, <3>1
    <3> QED BY <1>2, <2>1, <3>1, <3>2
  <2> QED BY <2>1, <2>2
<1>8. /\ rest \in Seq(Entry)
      /\ Len(rest) = Len(q)
      /\ \A j \in 1..Len(q) :
           /\ rest[j].token = q[j].token
           /\ rest[j].delta = IF j = k + 1 THEN q[j].delta - d ELSE q[j].delta
  BY <1>3, <1>6, <1>7, ShortenProperties
<1>9. /\ r \in Seq(Entry)
      /\ Len(r) = Len(q) + 1
      /\ \A j \in 1..k : r[j] = rest[j]
      /\ r[k+1] = e
      /\ \A j \in k+2..Len(q)+1 : r[j] = rest[j-1]
  <2>1. PICK a : a = SubSeq(rest, 1, k)
    OBVIOUS
  <2>2. PICK b : b = SubSeq(rest, k + 1, Len(q))
    OBVIOUS
  <2>3. e \in Entry
    BY <1>4, <1>7 DEF Entry
  <2>4. a \in Seq(Entry) /\ Len(a) = k /\ \A j \in 1..k : a[j] = rest[j]
    BY <1>1, <1>6, <1>8, <2>1, SubSeqProperties, ElementOfSeq
  <2>5. b \in Seq(Entry) /\ Len(b) = Len(q) - k /\ \A j \in 1..Len(q)-k : b[j] = rest[k+j]
    BY <1>1, <1>6, <1>8, <2>2, SubSeqProperties, ElementOfSeq
  <2>6. r = Append(a, e) \o b
    BY <1>1, <1>2, <1>3, <1>4, <1>5, <2>1, <2>2 DEF Insert
  <2>7. PICK c : c = Append(a, e)
    OBVIOUS
  <2>8. c \in Seq(Entry) /\ Len(c) = k + 1 /\ (\A j \in 1..k : c[j] = rest[j]) /\ c[k+1] = e
    BY <1>1, <2>3, <2>4, <2>7, AppendProperties
  <2>9. /\ r \in Seq(Entry) /\ Len(r) = Len(c) + Len(b)
        /\ \A j \in 1..Len(c)+Len(b) : r[j] = IF j <= Len(c) THEN c[j] ELSE b[j - Len(c)]
    <3>1. r = c \o b
      BY <2>6, <2>7
    <3> QED BY <2>5, <2>8, <3>1, ConcatProperties
  <2>10. ASSUME NEW j \in 1..k+1 PROVE r[j] = c[j]
    <3>1. Len(c) = k + 1 /\ Len(b) = Len(q) - k /\ k \in Nat /\ Len(q) \in Nat /\ k <= Len(q)
      BY <1>1, <1>6, <2>5, <2>8
    <3>2. j \in 1..Len(c)+Len(b) /\ j <= Len(c)
      BY <3>1
    <3> QED BY <2>9, <3>2
  <2>11. ASSUME NEW j \in k+2..Len(q)+1 PROVE r[j] = rest[j-1]
    <3>1. j \in 1..Len(c)+Len(b) /\ ~(j <= Len(c)) /\ j - Len(c) \in 1..Len(q)-k
          /\ k + (j - Len(c)) = j - 1
      <4>1. Len(c) = k + 1 /\ Len(b) = Len(q) - k /\ k \in Nat /\ Len(q) \in Nat
        BY <1>1, <1>6, <2>5, <2>8
      <4> QED BY <4>1
    <3>2. r[j] = b[j - Len(c)]
      BY <2>9, <3>1
    <3>3. b[j - Len(c)] = rest[k + (j - Len(c))]
      BY <2>5, <3>1
    <3> QED BY <3>1, <3>2, <3>3
  <2>12. Len(r) = Len(q) + 1
    BY <1>1, <1>6, <2>5, <2>8, <2>9
  <2>13. (\A j \in 1..k : r[j] = rest[j]) /\ r[k+1] = e
    BY <1>1, <2>8, <2>10
  <2> QED BY <2>9, <2>11, <2>12, <2>13
<1>10. /\ \A j \in 1..k : r[j].token = q[j].token /\ r[j].delta = q[j].delta
       /\ r[k+1].token = token /\ r[k+1].delta = d
       /\ \A j \in k+2..Len(q)+1 :
            /\ r[j].token = q[j-1].token
            /\ r[j].delta = IF j = k + 2 THEN q[j-1].delta - d ELSE q[j-1].delta
  <2>1. ASSUME NEW j \in 1..k PROVE r[j].token = q[j].token /\ r[j].delta = q[j].delta
    <3>1. j \in 1..Len(q) /\ j # k + 1 /\ r[j] = rest[j]
      BY <1>1, <1>6, <1>9
    <3> QED BY <1>8, <3>1
  <2>2. r[k+1].token = token /\ r[k+1].delta = d
    BY <1>4, <1>9
  <2>3. ASSUME NEW j \in k+2..Len(q)+1
        PROVE  /\ r[j].token = q[j-1].token
               /\ r[j].delta = IF j = k + 2 THEN q[j-1].delta - d ELSE q[j-1].delta
    <3>1. j - 1 \in 1..Len(q) /\ (j = k + 2 <=> j - 1 = k + 1) /\ r[j] = rest[j-1]
      BY <1>1, <1>6, <1>9
    <3> QED BY <1>8, <3>1
  <2> QED BY <2>1, <2>2, <2>3
<1>11. PICK f : f = [i \in 0..Len(q)+1 |-> IF i <= k THEN Prefix(q)[i]
                                          ELSE IF i = k + 1 THEN delay ELSE Prefix(q)[i-1]]
  OBVIOUS
<1>12. f[0] = 0
  BY <1>1, <1>6, <1>11, PrefixStep
<1>13. ASSUME NEW i \in 1..Len(r) PROVE f[i] = f[i-1] + r[i].delta
  <2>1. CASE i <= k
    <3>1. f[i] = Prefix(q)[i] /\ f[i-1] = Prefix(q)[i-1] /\ r[i].delta = q[i].delta
      BY <1>1, <1>6, <1>9, <1>10, <1>11, <2>1
    <3> QED BY <1>1, <1>6, <2>1, <3>1
  <2>2. CASE i = k + 1
    <3>1. f[i] = delay /\ f[i-1] = Prefix(q)[k] /\ r[i].delta = d
      BY <1>1, <1>6, <1>9, <1>10, <1>11, <2>2
    <3> QED BY <1>1, <1>2, <1>6, <3>1
  <2>3. CASE i = k + 2
    <3>1. i - 1 = k + 1 /\ k + 1 \in 1..Len(q) /\ i \in k+2..Len(q)+1 /\ (k + 1) - 1 = k
      BY <1>1, <1>6, <1>9, <2>3
    <3>2. f[i] = Prefix(q)[k+1] /\ f[i-1] = delay /\ r[i].delta = q[k+1].delta - d
      BY <1>1, <1>6, <1>9, <1>10, <1>11, <2>3, <3>1
    <3>3. Prefix(q)[k+1] = Prefix(q)[k] + q[k+1].delta /\ q[k+1].delta \in Nat /\ Prefix(q)[k] \in Nat
      BY <1>1, <1>6, <3>1
    <3> QED BY <1>2, <3>2, <3>3
  <2>4. CASE i > k + 2
    <3>1. i - 1 \in 1..Len(q) /\ i - 1 > k + 1 /\ i - 2 \in 0..Len(q) /\ (i - 1) - 1 = i - 2
          /\ i \in k+2..Len(q)+1
      BY <1>1, <1>6, <1>9, <2>4
    <3>2. f[i] = Prefix(q)[i-1] /\ f[i-1] = Prefix(q)[i-2]
      BY <1>1, <1>6, <1>9, <1>11, <2>4, <3>1
    <3>3. r[i].delta = q[i-1].delta
      BY <1>1, <1>10, <2>4, <3>1
    <3> QED BY <1>6, <3>1, <3>2, <3>3
  <2> QED BY <1>1, <1>9, <2>1, <2>2, <2>3, <2>4
<1>14. \A i \in 0..Len(r) : Prefix(r)[i] = f[i]
  BY <1>9, <1>12, <1>13, PrefixUnique
<1>15. /\ \A i \in 1..k : Prefix(r)[i] = Prefix(q)[i]
       /\ Prefix(r)[k+1] = delay
       /\ \A i \in k+2..Len(q)+1 : Prefix(r)[i] = Prefix(q)[i-1]
  BY <1>1, <1>6, <1>9, <1>11, <1>14
<1>16. \A i \in k+2..Len(q)+1 : Prefix(q)[i-1] > delay
  BY <1>1, <1>6
<1>17. \A i \in 1..k : Prefix(q)[i] <= delay
  BY <1>1
<1>18. QED
  BY <1>5, <1>9, <1>10, <1>15, <1>16, <1>17

(* removeEntry() moves no other due time. *)
LEMMA RemoveProperties ==
  ASSUME NEW q \in Seq(Entry), NEW n \in 1..Len(q)
  PROVE  /\ RemoveEntry(q, n) \in Seq(Entry)
         /\ Len(RemoveEntry(q, n)) = Len(q) - 1
         /\ \A i \in 1..n-1 : /\ RemoveEntry(q, n)[i].token = q[i].token
                              /\ Prefix(RemoveEntry(q, n))[i] = Prefix(q)[i]
         /\ \A i \in n..Len(q)-1 : /\ RemoveEntry(q, n)[i].token = q[i+1].token
                                   /\ Prefix(RemoveEntry(q, n))[i] = Prefix(q)[i+1]
<1>1. /\ Len(q) \in Nat
      /\ \A i \in 0..Len(q) : Prefix(q)[i] \in Nat
      /\ \A i \in 1..Len(q) : Prefix(q)[i] = Prefix(q)[i-1] + q[i].delta
      /\ \A i \in 1..Len(q) : q[i].token \in Tokens /\ q[i].delta \in Nat
  BY LenProperties, PrefixType, PrefixStep, EntryType
<1>2. PICK d : d = - q[n].delta
  OBVIOUS
<1>3. PICK rest : rest = Shorten(q, n + 1, d)
  OBVIOUS
<1>4. PICK r : r = RemoveEntry(q, n)
  OBVIOUS
<1>5. /\ rest \in Seq(Entry)
      /\ Len(rest) = Len(q)
      /\ \A j \in 1..Len(q) :
           /\ rest[j].token = q[j].token
           /\ rest[j].delta = IF j = n + 1 THEN q[j].delta - d ELSE q[j].delta
  <2>1. d \in Int /\ (n + 1 \in 1..Len(q) => q[n+1].delta - d \in Nat)
    BY <1>1, <1>2
  <2> QED BY <1>1, <1>3, <2>1, ShortenProperties
<1>6. /\ r \in Seq(Entry)
      /\ Len(r) = Len(q) - 1
      /\ \A j \in 1..n-1 : r[j] = rest[j]
      /\ \A j \in n..Len(q)-1 : r[j] = rest[j+1]
  <2>1. PICK a : a = SubSeq(rest, 1, n - 1)
    OBVIOUS
  <2>2. PICK b : b = SubSeq(rest, n + 1, Len(q))
    OBVIOUS
  <2>3. a \in Seq(Entry) /\ Len(a) = n - 1 /\ \A j \in 1..n-1 : a[j] = rest[j]
    BY <1>1, <1>5, <2>1, SubSeqProperties, ElementOfSeq
  <2>4. b \in Seq(Entry) /\ Len(b) = Len(q) - n /\ \A j \in 1..Len(q)-n : b[j] = rest[n+j]
    BY <1>1, <1>5, <2>2, SubSeqProperties, ElementOfSeq
  <2>5. r = a \o b
    BY <1>2, <1>3, <1>4, <2>1, <2>2 DEF RemoveEntry
  <2>6. /\ r \in Seq(Entry) /\ Len(r) = Len(a) + Len(b)
        /\ \A j \in 1..Len(a)+Len(b) : r[j] = IF j <= Len(a) THEN a[j] ELSE b[j - Len(a)]
    BY <2>3, <2>4, <2>5, ConcatProperties
  <2>7. ASSUME NEW j \in 1..n-1 PROVE r[j] = rest[j]
    <3>1. j \in 1..Len(a)+Len(b) /\ j <= Len(a)
      BY <1>1, <2>3, <2>4
    <3> QED BY <2>3, <2>6, <3>1
  <2>8. ASSUME NEW j \in n..Len(q)-1 PROVE r[j] = rest[j+1]
    <3>1. j \in 1..Len(a)+Len(b) /\ ~(j <= Len(a)) /\ j - Len(a) \in 1..Len(q)-n
          /\ n + (j - Len(a)) = j + 1
      BY <1>1, <2>3, <2>4
    <3> QED BY <2>4, <2>6, <3>1
  <2>9. Len(r) = Len(q) - 1
    BY <1>1, <2>3, <2>4, <2>6
  <2> QED BY <2>6, <2>7, <2>8, <2>9
<1>7. PICK f : f = [i \in 0..Len(q)-1 |-> IF i < n THEN Prefix(q)[i] ELSE Prefix(q)[i+1]]
  OBVIOUS
<1>8. f[0] = 0
  BY <1>1, <1>7, PrefixStep
<1>9. ASSUME NEW i \in 1..Len(r) PROVE f[i] = f[i-1] + r[i].delta
  <2>1. CASE i < n
    <3>1. f[i] = Prefix(q)[i] /\ f[i-1] = Prefix(q)[i-1] /\ r[i].delta = q[i].delta
      BY <1>1, <1>5, <1>6, <1>7, <2>1
    <3> QED BY <1>1, <2>1, <3>1
  <2>2. CASE i = n
    <3>1. n + 1 \in 1..Len(q) /\ (n + 1) - 1 = n
      BY <1>1, <1>6, <2>2
    <3>2. f[i] = Prefix(q)[n+1] /\ f[i-1] = Prefix(q)[n-1]
      BY <1>1, <1>6, <1>7, <2>2, <3>1
    <3>3. n \in n..Len(q)-1 /\ r[i] = rest[n+1] /\ rest[n+1].delta = q[n+1].delta - d
      BY <1>1, <1>5, <1>6, <2>2, <3>1
    <3>4. /\ Prefix(q)[n+1] = Prefix(q)[n] + q[n+1].delta /\ Prefix(q)[n] = Prefix(q)[n-1] + q[n].delta
          /\ q[n].delta \in Nat /\ q[n+1].delta \in Nat /\ Prefix(q)[n-1] \in Nat
      BY <1>1, <3>1
    <3>5. r[i].delta = q[n+1].delta + q[n].delta
      BY <1>2, <3>3, <3>4
    <3> QED BY <3>2, <3>4, <3>5
  <2>3. CASE i > n
    <3>1. i + 1 \in 1..Len(q) /\ (i + 1) - 1 = i /\ (i - 1) + 1 = i /\ i \in n..Len(q)-1
          /\ i + 1 # n + 1
      BY <1>1, <1>6, <2>3
    <3>2. r[i].delta = q[i+1].delta
      <4>1. r[i] = rest[i+1]
        BY <1>6, <3>1
      <4> QED BY <1>5, <3>1, <4>1
    <3>3. i \in 0..Len(q)-1 /\ i - 1 \in 0..Len(q)-1 /\ ~(i < n) /\ ~(i - 1 < n)
      BY <1>1, <2>3, <3>1
    <3>4. f[i] = Prefix(q)[i+1] /\ f[i-1] = Prefix(q)[i]
      BY <1>7, <3>1, <3>3
    <3>5. Prefix(q)[i+1] = Prefix(q)[i] + q[i+1].delta
      BY <1>1, <3>1
    <3> QED BY <3>2, <3>4, <3>5
  <2>4. i \in Int /\ n \in Int
    BY <1>1, <1>6
  <2> QED BY <2>1, <2>2, <2>3, <2>4
<1>10. \A i \in 0..Len(r) : Prefix(r)[i] = f[i]
  BY <1>6, <1>8, <1>9, PrefixUnique
<1>11. ASSUME NEW i \in 1..n-1
       PROVE  Prefix(r)[i] = Prefix(q)[i] /\ r[i].token = q[i].token
  <2>1. i \in 0..Len(r) /\ i \in 0..Len(q)-1 /\ i < n /\ i \in 1..Len(q) /\ i # n + 1
    BY <1>1, <1>6
  <2>2. Prefix(r)[i] = Prefix(q)[i]
    BY <1>7, <1>10, <2>1
  <2> QED BY <1>5, <1>6, <2>1, <2>2
<1>12. ASSUME NEW i \in n..Len(q)-1
       PROVE  Prefix(r)[i] = Prefix(q)[i+1] /\ r[i].token = q[i+1].token
  <2>1. i \in 0..Len(r) /\ i \in 0..Len(q)-1 /\ ~(i < n) /\ i + 1 \in 1..Len(q)
    BY <1>1, <1>6
  <2>2. Prefix(r)[i] = Prefix(q)[i+1]
    BY <1>7, <1>10, <2>1
  <2>3. r[i] = rest[i+1] /\ rest[i+1].token = q[i+1].token
    BY <1>5, <1>6, <2>1
  <2> QED BY <2>2, <2>3
<1>13. QED
  BY <1>4, <1>6, <1>11, <1>12

-----------------------------------------------------------------------------
Distinct(q) == \A i, j \in 1..Len(q) : q[i].token = q[j].token => i = j

(* What NeverEarly and NotLate say of any list q and lag l. *)
OnTime(q, l) ==
  \A i \in 1..Len(q) :
    /\ left[q[i].token] <= Prefix(q)[i] - Positive(l)
    /\ Prefix(q)[i] > 0 => Prefix(q)[i] - l <= left[q[i].token] + lost

IInv == TypeOK /\ Linked /\ NeverEarly /\ NotLate

(* The inductive invariant in the form the proofs below use it. *)
LEMMA IInvFacts ==
  ASSUME IInv
  PROVE  /\ queue \in Seq(Entry) /\ Distinct(queue) /\ OnTime(queue, lag)
         /\ lag \in Int /\ lost \in Nat /\ MaxTokens \in Nat
         /\ Queued = {queue[i].token : i \in 1..Len(queue)}
         /\ left \in [Queued -> Int] /\ since \in [Queued -> Nat]
BY LenProperties, BoundsAssumption
   DEF IInv, TypeOK, Linked, NeverEarly, NotLate, Distinct, OnTime, Queued, TokensIn

(* synchronize() keeps the bounds of NeverEarly and NotLate, also when the
   clock went back. *)
LEMMA SynchronizedProperties ==
  ASSUME IInv
  PROVE  /\ Synchronized \in Seq(Entry)
         /\ Len(Synchronized) = Len(queue)
         /\ \A i \in 1..Len(queue) : Synchronized[i].token = queue[i].token
         /\ OnTime(Synchronized, 0)
<1>1. /\ queue \in Seq(Entry) /\ OnTime(queue, lag) /\ lag \in Int /\ lost \in Nat
      /\ \A i \in 0..Len(queue) : Prefix(queue)[i] \in Nat
      /\ \A i \in 1..Len(queue) : left[queue[i].token] \in Int
  BY IInvFacts, PrefixType
<1>2. CASE lag < 0
  BY <1>1, <1>2 DEF Synchronized, OnTime, Positive
<1>3. CASE lag >= 0
  <2>1. PICK s : s = Elapse(queue, lag)
    OBVIOUS
  <2>2. s = Synchronized
    BY <1>1, <1>3, <2>1 DEF Synchronized
  <2>3. /\ s \in Seq(Entry) /\ Len(s) = Len(queue)
        /\ \A i \in 1..Len(queue) :
             /\ s[i].token = queue[i].token
             /\ Prefix(s)[i] = Positive(Prefix(queue)[i] - lag)
    BY <1>1, <1>3, <2>1, ElapseProperties
  <2>4. ASSUME NEW i \in 1..Len(s)
        PROVE  /\ left[s[i].token] <= Prefix(s)[i] - Positive(0)
               /\ Prefix(s)[i] > 0 => Prefix(s)[i] - 0 <= left[s[i].token] + lost
    <3>1. /\ left[queue[i].token] <= Prefix(queue)[i] - Positive(lag)
          /\ Prefix(queue)[i] > 0 => Prefix(queue)[i] - lag <= left[queue[i].token] + lost
      BY <1>1, <2>3 DEF OnTime
    <3>2. Prefix(queue)[i] \in Nat /\ left[queue[i].token] \in Int
      BY <1>1, <2>3
    <3> QED BY <1>1, <1>3, <2>3, <3>1, <3>2 DEF Positive
  <2> QED BY <2>2, <2>3, <2>4 DEF OnTime
<1>4. QED
  BY <1>1, <1>2, <1>3

(* ... and so do timeToNextAlarm() and handleAlarm(), which skip it when the
   head is due. *)
LEMMA RefreshedProperties ==
  ASSUME IInv
  PROVE  /\ Refreshed \in Seq(Entry)
         /\ Len(Refreshed) = Len(queue)
         /\ \A i \in 1..Len(queue) : Refreshed[i].token = queue[i].token
         /\ OnTime(Refreshed, RefreshedLag)
         /\ RefreshedLag \in Int
BY IInvFacts, SynchronizedProperties DEF Refreshed, RefreshedLag

(* What removeEntry() does to the tokens and due times of a list of distinct
   tokens. *)
LEMMA RemoveKeeps ==
  ASSUME NEW q \in Seq(Entry), Distinct(q), NEW n \in 1..Len(q)
  PROVE  /\ RemoveEntry(q, n) \in Seq(Entry)
         /\ Distinct(RemoveEntry(q, n))
         /\ TokensIn(RemoveEntry(q, n)) = TokensIn(q) \ {q[n].token}
         /\ \A j \in 1..Len(RemoveEntry(q, n)) :
              \E i \in 1..Len(q) : /\ RemoveEntry(q, n)[j].token = q[i].token
                                   /\ Prefix(RemoveEntry(q, n))[j] = Prefix(q)[i]
<1>1. PICK r : r = RemoveEntry(q, n)
  OBVIOUS
<1>2. /\ r \in Seq(Entry) /\ Len(r) = Len(q) - 1
      /\ \A i \in 1..n-1 : r[i].token = q[i].token /\ Prefix(r)[i] = Prefix(q)[i]
      /\ \A i \in n..Len(q)-1 : r[i].token = q[i+1].token /\ Prefix(r)[i] = Prefix(q)[i+1]
  BY <1>1, RemoveProperties
<1>3. Len(q) \in Nat /\ DOMAIN q = 1..Len(q) /\ DOMAIN r = 1..Len(r)
  BY <1>2, LenProperties
<1>4. PICK g : g = [j \in 1..Len(r) |-> IF j < n THEN j ELSE j + 1]
  OBVIOUS
<1>5. /\ \A j \in 1..Len(r) : /\ g[j] \in 1..Len(q) /\ g[j] # n
                              /\ r[j].token = q[g[j]].token /\ Prefix(r)[j] = Prefix(q)[g[j]]
      /\ \A i, j \in 1..Len(r) : g[i] = g[j] => i = j
      /\ \A i \in 1..Len(q) : i # n => \E j \in 1..Len(r) : g[j] = i
  <2>1. ASSUME NEW j \in 1..Len(r)
        PROVE  /\ g[j] \in 1..Len(q) /\ g[j] # n
               /\ r[j].token = q[g[j]].token /\ Prefix(r)[j] = Prefix(q)[g[j]]
    <3>1. CASE j < n
      <4>1. g[j] = j /\ j \in 1..n-1 /\ j \in 1..Len(q)
        BY <1>2, <1>3, <1>4, <3>1
      <4> QED BY <1>2, <3>1, <4>1
    <3>2. CASE ~(j < n)
      <4>1. g[j] = j + 1 /\ j \in n..Len(q)-1 /\ j + 1 \in 1..Len(q)
        BY <1>2, <1>3, <1>4, <3>2
      <4> QED BY <1>2, <3>2, <4>1
    <3> QED BY <3>1, <3>2
  <2>2. \A i, j \in 1..Len(r) : g[i] = g[j] => i = j
    BY <1>2, <1>3, <1>4
  <2>3. ASSUME NEW i \in 1..Len(q), i # n PROVE \E j \in 1..Len(r) : g[j] = i
    <3>1. CASE i < n
      <4>1. i \in 1..Len(r) /\ g[i] = i
        BY <1>2, <1>3, <1>4, <3>1
      <4> QED BY <4>1
    <3>2. CASE i > n
      <4>1. i - 1 \in 1..Len(r) /\ ~(i - 1 < n) /\ (i - 1) + 1 = i
        BY <1>2, <1>3, <3>2
      <4>2. g[i-1] = i
        BY <1>4, <4>1
      <4> QED BY <4>1, <4>2
    <3> QED BY <2>3, <3>1, <3>2
  <2> QED BY <2>1, <2>2, <2>3
<1>6. Distinct(r)
  <2>1. SUFFICES ASSUME NEW i \in 1..Len(r), NEW j \in 1..Len(r), r[i].token = r[j].token
                 PROVE  i = j
    BY DEF Distinct
  <2>2. /\ g[i] \in 1..Len(q) /\ r[i].token = q[g[i]].token
        /\ g[j] \in 1..Len(q) /\ r[j].token = q[g[j]].token
    BY ONLY <1>5, <2>1
  <2>3. g[i] = g[j]
    BY <1>3, <2>1, <2>2 DEF Distinct
  <2> QED BY ONLY <1>5, <2>1, <2>3
<1>7. TokensIn(r) = TokensIn(q) \ {q[n].token}
  <2>1. \A t \in TokensIn(r) : t \in TokensIn(q) /\ t # q[n].token
    BY <1>3, <1>5 DEF TokensIn, Distinct
  <2>2. ASSUME NEW t \in TokensIn(q), t # q[n].token PROVE t \in TokensIn(r)
    <3>1. PICK i \in 1..Len(q) : t = q[i].token /\ i # n
      BY <1>3, <2>2 DEF TokensIn
    <3>2. PICK j \in 1..Len(r) : g[j] = i
      BY <1>5, <3>1
    <3> QED BY <1>3, <1>5, <3>1, <3>2 DEF TokensIn
  <2> QED BY <2>1, <2>2
<1>8. \A j \in 1..Len(r) :
        \E i \in 1..Len(q) : r[j].token = q[i].token /\ Prefix(r)[j] = Prefix(q)[i]
  BY <1>5
<1>9. QED
  BY <1>1, <1>2, <1>6, <1>7, <1>8

(* What addEntry() does to them. *)
LEMMA InsertKeeps ==
  ASSUME NEW q \in Seq(Entry), Distinct(q), NEW token \in Tokens, token \notin TokensIn(q),
         NEW delay \in Nat
  PROVE  /\ Insert(q, token, delay) \in Seq(Entry)
         /\ Distinct(Insert(q, token, delay))
         /\ TokensIn(Insert(q, token, delay)) = TokensIn(q) \union {token}
         /\ \A j \in 1..Len(Insert(q, token, delay)) :
              \/ /\ Insert(q, token, delay)[j].token = token
                 /\ Prefix(Insert(q, token, delay))[j] = delay
              \/ \E i \in 1..Len(q) :
                   /\ Insert(q, token, delay)[j].token = q[i].token
                   /\ Prefix(Insert(q, token, delay))[j] = Prefix(q)[i]
<1>1. PICK r : r = Insert(q, token, delay)
  OBVIOUS
<1>2. r \in Seq(Entry) /\ Len(r) = Len(q) + 1
  BY <1>1, InsertProperties
<1>3. PICK k \in 0..Len(q) :
        /\ \A i \in 1..k : r[i].token = q[i].token /\ Prefix(r)[i] = Prefix(q)[i]
        /\ r[k+1].token = token /\ Prefix(r)[k+1] = delay
        /\ \A i \in k+2..Len(q)+1 : r[i].token = q[i-1].token /\ Prefix(r)[i] = Prefix(q)[i-1]
  <2>1. PICK k \in 0..Len(q) :
          /\ \A i \in 1..k : /\ Insert(q, token, delay)[i].token = q[i].token
                             /\ Prefix(Insert(q, token, delay))[i] = Prefix(q)[i]
                             /\ Prefix(q)[i] <= delay
          /\ Insert(q, token, delay)[k+1].token = token
          /\ Prefix(Insert(q, token, delay))[k+1] = delay
          /\ \A i \in k+2..Len(q)+1 :
               /\ Insert(q, token, delay)[i].token = q[i-1].token
               /\ Prefix(Insert(q, token, delay))[i] = Prefix(q)[i-1]
               /\ Prefix(q)[i-1] > delay
    BY InsertProperties
  <2> QED BY <1>1, <2>1
<1>4. Len(q) \in Nat /\ DOMAIN q = 1..Len(q) /\ DOMAIN r = 1..Len(r)
  BY <1>2, LenProperties
<1>5. PICK g : g = [j \in 1..Len(r) |-> IF j <= k THEN j ELSE j - 1]
  OBVIOUS
<1>6. ASSUME NEW j \in 1..Len(r), j # k + 1
      PROVE  /\ g[j] \in 1..Len(q) /\ r[j].token = q[g[j]].token /\ Prefix(r)[j] = Prefix(q)[g[j]]
             /\ g[j] = IF j <= k THEN j ELSE j - 1
  <2>1. CASE j <= k
    <3>1. g[j] = j /\ j \in 1..k /\ j \in 1..Len(q)
      BY <1>2, <1>4, <1>5, <2>1
    <3> QED BY <1>3, <2>1, <3>1
  <2>2. CASE ~(j <= k)
    <3>1. g[j] = j - 1 /\ j \in k+2..Len(q)+1 /\ j - 1 \in 1..Len(q)
      BY <1>2, <1>4, <1>5, <1>6, <2>2
    <3> QED BY <1>3, <2>2, <3>1
  <2> QED BY <2>1, <2>2
<1>7. \A j \in 1..Len(r) : j # k + 1 => r[j].token \in TokensIn(q)
  BY <1>4, <1>6 DEF TokensIn
<1>8. Distinct(r)
  <2>1. SUFFICES ASSUME NEW i \in 1..Len(r), NEW j \in 1..Len(r), r[i].token = r[j].token
                 PROVE  i = j
    BY DEF Distinct
  <2>2. CASE i = k + 1 \/ j = k + 1
    BY <1>3, <1>7, <2>1, <2>2
  <2>3. CASE i # k + 1 /\ j # k + 1
    <3>1. g[i] = g[j]
      BY <1>6, <2>1, <2>3 DEF Distinct
    <3> QED BY <1>2, <1>4, <1>6, <2>3, <3>1
  <2> QED BY <2>2, <2>3
<1>9. TokensIn(r) = TokensIn(q) \union {token}
  <2>1. \A t \in TokensIn(r) : t \in TokensIn(q) \/ t = token
    BY <1>3, <1>4, <1>7 DEF TokensIn
  <2>2. token \in TokensIn(r)
    <3>1. k + 1 \in 1..Len(r)
      BY <1>2, <1>4
    <3> QED BY <1>3, <1>4, <3>1 DEF TokensIn
  <2>3. ASSUME NEW i \in 1..Len(q) PROVE q[i].token \in TokensIn(r)
    <3>1. CASE i <= k
      <4>1. i \in 1..k /\ i \in 1..Len(r)
        BY <1>2, <1>4, <3>1
      <4>2. r[i].token = q[i].token
        BY <1>3, <4>1
      <4> QED BY <1>4, <4>1, <4>2 DEF TokensIn
    <3>2. CASE ~(i <= k)
      <4>1. i + 1 \in k+2..Len(q)+1 /\ i + 1 \in 1..Len(r) /\ (i + 1) - 1 = i
        BY <1>2, <1>4, <3>2
      <4>2. r[i+1].token = q[i].token
        BY <1>3, <4>1
      <4> QED BY <1>4, <4>1, <4>2 DEF TokensIn
    <3> QED BY <3>1, <3>2
  <2> QED BY <1>4, <2>1, <2>2, <2>3 DEF TokensIn
<1>10. \A j \in 1..Len(r) :
         \/ r[j].token = token /\ Prefix(r)[j] = delay
         \/ \E i \in 1..Len(q) : r[j].token = q[i].token /\ Prefix(r)[j] = Prefix(q)[i]
  BY <1>3, <1>6
<1>11. QED
  BY <1>1, <1>2, <1>8, <1>9, <1>10

(* Lists that differ in their deltas only have the same tokens. *)
LEMMA SameTokens ==
  ASSUME NEW q \in Seq(Entry), NEW r \in Seq(Entry), Len(q) = Len(r),
         \A i \in 1..Len(r) : q[i].token = r[i].token, Distinct(r)
  PROVE  Distinct(q) /\ TokensIn(q) = TokensIn(r)
<1>1. Distinct(q)
  BY DEF Distinct
<1>2. DOMAIN q = 1..Len(q) /\ DOMAIN r = 1..Len(r)
  BY LenProperties
<1>3. TokensIn(q) = TokensIn(r)
  BY <1>2 DEF TokensIn
<1>4. QED
  BY <1>1, <1>3

(* addEntry() after synchronize(): common part of a new alarm and of an alarm
   that is moved. *)
LEMMA AddEntryKeeps ==
  ASSUME IInv, NEW q \in Seq(Entry), Distinct(q), OnTime(q, 0), TokensIn(q) \subseteq Queued,
         NEW token \in Tokens, token \notin TokensIn(q), NEW delay \in Delays,
         AddEntry(q, token, delay), lost' = lost
  PROVE  /\ queue' \in Seq(Entry)
         /\ Distinct(queue')
         /\ Queued' = TokensIn(q) \union {token}
         /\ NeverEarly' /\ NotLate'
         /\ left' \in [Queued' -> Int] /\ since' \in [Queued' -> Nat]
         /\ lag' = 0
<1>1. PICK r : r = Insert(q, token, delay)
  OBVIOUS
<1>2. queue' = r /\ lag' = 0 /\ delay \in Nat
  BY <1>1, DelaysAssumption DEF AddEntry
<1>3. /\ r \in Seq(Entry) /\ Distinct(r)
      /\ TokensIn(r) = TokensIn(q) \union {token}
      /\ \A j \in 1..Len(r) :
           \/ r[j].token = token /\ Prefix(r)[j] = delay
           \/ \E i \in 1..Len(q) : r[j].token = q[i].token /\ Prefix(r)[j] = Prefix(q)[i]
  BY <1>1, <1>2, InsertKeeps
<1>4. Queued' = TokensIn(r)
  BY <1>2 DEF Queued
<1>5. /\ left' = [t \in TokensIn(r) |-> IF t = token THEN delay ELSE left[t]]
      /\ since' = [t \in TokensIn(r) |-> IF t = token THEN stamps ELSE since[t]]
  BY <1>2 DEF AddEntry
<1>6. \A t \in TokensIn(q) : left[t] \in Int /\ since[t] \in Nat
  BY IInvFacts
<1>7. left' \in [Queued' -> Int] /\ since' \in [Queued' -> Nat]
  <2>1. stamps \in Nat
    BY BoundsAssumption DEF IInv, TypeOK
  <2> QED BY <1>2, <1>3, <1>4, <1>5, <1>6, <2>1
<1>8. DOMAIN r = 1..Len(r) /\ DOMAIN q = 1..Len(q)
  BY <1>3, LenProperties
<1>9. ASSUME NEW j \in 1..Len(r)
      PROVE  /\ left'[r[j].token] <= Prefix(r)[j] - Positive(0)
             /\ Prefix(r)[j] > 0 => Prefix(r)[j] - 0 <= left'[r[j].token] + lost
  <2>1. r[j].token \in TokensIn(r)
    BY <1>8 DEF TokensIn
  <2>2. CASE r[j].token = token /\ Prefix(r)[j] = delay
    <3>1. left'[r[j].token] = delay
      BY <1>5, <2>1, <2>2
    <3> QED BY <1>2, <2>2, <3>1, IInvFacts DEF Positive
  <2>3. ASSUME NEW i \in 1..Len(q), r[j].token = q[i].token, Prefix(r)[j] = Prefix(q)[i]
        PROVE  /\ left'[r[j].token] <= Prefix(r)[j] - Positive(0)
               /\ Prefix(r)[j] > 0 => Prefix(r)[j] - 0 <= left'[r[j].token] + lost
    <3>1. q[i].token \in TokensIn(q)
      BY <1>8 DEF TokensIn
    <3>2. left'[r[j].token] = left[q[i].token]
      BY <1>5, <2>1, <2>3, <3>1
    <3> QED BY <2>3, <3>2 DEF OnTime
  <2> QED BY <1>3, <2>2, <2>3
<1>10. NeverEarly' /\ NotLate'
  BY <1>2, <1>8, <1>9 DEF NeverEarly, NotLate
<1>11. QED
  BY <1>2, <1>3, <1>4, <1>7, <1>10

(* The inductive invariant holds of the empty queue ... *)
LEMMA InitIInv == Init => IInv
<1> SUFFICES ASSUME Init PROVE IInv
  OBVIOUS
<1>1. queue = <<>> /\ running = <<>> /\ Queued = {} /\ lag = 0 /\ lost = 0 /\ tokenCounter = 0
      /\ stamps = 0 /\ left = [t \in {} |-> 0] /\ since = [t \in {} |-> 0]
  BY DEF Init, Queued, TokensIn
<1>2. TypeOK
  BY <1>1, BoundsAssumption, EmptySeq DEF TypeOK
<1>3. Linked /\ NeverEarly /\ NotLate
  BY <1>1 DEF Linked, NeverEarly, NotLate
<1>4. QED
  BY <1>2, <1>3 DEF IInv

(* ... and scheduleDelayedTask() keeps it, *)
LEMMA ScheduleKeeps ==
  ASSUME IInv, NEW delay \in Delays, ScheduleDelayedTask(delay)
  PROVE  IInv' /\ Queued' = Queued \union {tokenCounter + 1}
<1>1. PICK q : q = Synchronized
  OBVIOUS
<1>2. PICK token : token = tokenCounter + 1
  OBVIOUS
<1>3. /\ tokenCounter' = token /\ AddEntry(q, token, delay) /\ running' = running /\ lost' = lost
      /\ stamps < MaxTokens /\ stamps' = stamps + 1
  BY <1>1, <1>2 DEF ScheduleDelayedTask, AddEntry
<1>4. /\ tokenCounter \in Nat /\ stamps \in Nat /\ tokenCounter <= stamps /\ MaxTokens \in Nat
      /\ running \in Seq(Tokens)
  BY BoundsAssumption DEF IInv, TypeOK
<1>5. token \in Tokens /\ token \in 0..MaxTokens /\ stamps' \in token..MaxTokens
  BY <1>2, <1>3, <1>4 DEF Tokens
<1>6. /\ q \in Seq(Entry) /\ Distinct(q) /\ OnTime(q, 0) /\ TokensIn(q) = Queued
  <2>1. /\ q \in Seq(Entry) /\ Len(q) = Len(queue) /\ OnTime(q, 0)
        /\ \A i \in 1..Len(queue) : q[i].token = queue[i].token
    BY <1>1, SynchronizedProperties
  <2> QED BY <2>1, IInvFacts, SameTokens DEF Queued
<1>7. \A t \in Queued : t <= tokenCounter
  BY DEF IInv, Linked, Queued, TokensIn
<1>8. token \notin TokensIn(q)
  BY <1>2, <1>4, <1>6, <1>7
<1>9. /\ queue' \in Seq(Entry) /\ Distinct(queue') /\ Queued' = Queued \union {token}
      /\ NeverEarly' /\ NotLate'
      /\ left' \in [Queued' -> Int] /\ since' \in [Queued' -> Nat] /\ lag' = 0
  BY <1>3, <1>5, <1>6, <1>8, AddEntryKeeps
<1>10. TypeOK'
  BY <1>3, <1>4, <1>5, <1>9 DEF IInv, TypeOK
<1>11. Linked'
  <2>1. DOMAIN queue' = 1..Len(queue')
    BY <1>9, LenProperties
  <2>2. \A i \in DOMAIN queue' : queue'[i].token \in Queued'
    BY DEF Queued, TokensIn
  <2>3. \A i \in DOMAIN running : running[i] <= tokenCounter /\ running[i] \notin Queued
    BY DEF IInv, Linked
  <2>4. \A i \in DOMAIN running : running[i] \in Tokens
    BY <1>4, LenProperties, ElementOfSeq
  <2>5. \A i \in DOMAIN running : running[i] \notin Queued' /\ running[i] <= token
    BY <1>2, <1>4, <1>9, <2>3, <2>4 DEF Tokens
  <2>6. \A i \in DOMAIN queue' : queue'[i].token <= token
    <3>1. \A t \in Queued : t \in Nat
      BY <1>6, LenProperties, EntryType DEF TokensIn, Tokens
    <3> QED BY <1>2, <1>4, <1>7, <1>9, <2>2, <3>1
  <2>7. \A i, j \in DOMAIN running : running[i] = running[j] => i = j
    BY DEF IInv, Linked
  <2> QED BY <1>3, <1>9, <2>1, <2>5, <2>6, <2>7 DEF Linked, Distinct
<1>12. QED
  BY <1>2, <1>9, <1>10, <1>11 DEF IInv

(* unscheduleDelayedTask() keeps it, *)
LEMMA UnscheduleKeeps ==
  ASSUME IInv, NEW n \in DOMAIN queue, UnscheduleDelayedTask(n)
  PROVE  IInv' /\ Queued' = Queued \ {queue[n].token}
<1>1. /\ queue \in Seq(Entry) /\ Distinct(queue) /\ OnTime(queue, lag) /\ n \in 1..Len(queue)
      /\ DOMAIN queue = 1..Len(queue)
  BY IInvFacts, LenProperties
<1>2. /\ queue' = RemoveEntry(queue, n) /\ lag' = lag /\ tokenCounter' = tokenCounter
      /\ running' = running /\ stamps' = stamps /\ lost' = lost
      /\ left' = Restrict(left, Queued \ {queue[n].token})
      /\ since' = Restrict(since, Queued \ {queue[n].token})
  BY DEF UnscheduleDelayedTask, Drop
<1>3. /\ queue' \in Seq(Entry) /\ Distinct(queue')
      /\ Queued' = Queued \ {queue[n].token}
      /\ \A j \in 1..Len(queue') :
           \E i \in 1..Len(queue) : queue'[j].token = queue[i].token
                                    /\ Prefix(queue')[j] = Prefix(queue)[i]
  BY <1>1, <1>2, RemoveKeeps DEF Queued
<1>4. DOMAIN queue' = 1..Len(queue')
  BY <1>3, LenProperties
<1>5. TypeOK'
  <2>1. left' \in [Queued' -> Int] /\ since' \in [Queued' -> Nat]
    BY <1>2, <1>3, IInvFacts DEF Restrict
  <2> QED BY <1>2, <1>3, <2>1 DEF IInv, TypeOK
<1>6. Linked'
  BY <1>1, <1>2, <1>3, <1>4 DEF IInv, Linked, Distinct
<1>7. ASSUME NEW j \in 1..Len(queue')
      PROVE  /\ left'[queue'[j].token] <= Prefix(queue')[j] - Positive(lag)
             /\ Prefix(queue')[j] > 0 => Prefix(queue')[j] - lag <= left'[queue'[j].token] + lost
  <2>1. queue'[j].token \in Queued'
    BY <1>4 DEF Queued, TokensIn
  <2>2. left'[queue'[j].token] = left[queue'[j].token]
    BY <1>2, <1>3, <2>1 DEF Restrict
  <2> QED BY <1>1, <1>3, <2>2 DEF OnTime
<1>8. NeverEarly' /\ NotLate'
  BY <1>2, <1>4, <1>7 DEF NeverEarly, NotLate
<1>9. QED
  BY <1>3, <1>5, <1>6, <1>8 DEF IInv

(* updateEntry() takes the entry out before it synchronizes, with the same
   effect on the others. *)
Moved(n) ==
  IF lag < 0 THEN RemoveEntry(queue, n) ELSE Elapse(RemoveEntry(queue, n), lag)

(* What moving the entry at n does to the due times. *)
LEMMA MovedProperties ==
  ASSUME IInv, NEW n \in DOMAIN queue
  PROVE  /\ Moved(n) \in Seq(Entry) /\ Len(Moved(n)) = Len(RemoveEntry(queue, n))
         /\ \A i \in 1..Len(RemoveEntry(queue, n)) :
              Moved(n)[i].token = RemoveEntry(queue, n)[i].token
         /\ OnTime(Moved(n), 0) /\ Distinct(Moved(n))
         /\ TokensIn(Moved(n)) = Queued \ {queue[n].token}
<1>1. /\ queue \in Seq(Entry) /\ Distinct(queue) /\ OnTime(queue, lag) /\ lag \in Int
      /\ n \in 1..Len(queue)
  BY IInvFacts, LenProperties
<1>2. PICK token : token = queue[n].token
  OBVIOUS
<1>3. PICK r : r = RemoveEntry(queue, n)
  OBVIOUS
<1>4. PICK q : q = IF lag < 0 THEN r ELSE Elapse(r, lag)
  OBVIOUS
<1>5. /\ r \in Seq(Entry) /\ Distinct(r) /\ TokensIn(r) = Queued \ {token}
      /\ \A j \in 1..Len(r) :
           \E i \in 1..Len(queue) : r[j].token = queue[i].token /\ Prefix(r)[j] = Prefix(queue)[i]
  BY <1>1, <1>2, <1>3, RemoveKeeps DEF Queued
<1>6. OnTime(r, lag)
  BY <1>1, <1>5 DEF OnTime
<1>7. q \in Seq(Entry) /\ Len(q) = Len(r) /\ (\A i \in 1..Len(r) : q[i].token = r[i].token)
      /\ OnTime(q, 0)
  <2>1. /\ \A i \in 0..Len(r) : Prefix(r)[i] \in Nat
        /\ \A i \in 1..Len(r) : left[r[i].token] \in Int
        /\ lost \in Nat
    <3>1. \A i \in 1..Len(queue) : left[queue[i].token] \in Int
      BY IInvFacts
    <3> QED BY <1>5, <3>1, IInvFacts, PrefixType
  <2>2. CASE lag < 0
    BY <1>1, <1>4, <1>5, <1>6, <2>1, <2>2 DEF OnTime, Positive
  <2>3. CASE lag >= 0
    <3>1. /\ q \in Seq(Entry) /\ Len(q) = Len(r)
          /\ \A i \in 1..Len(r) : q[i].token = r[i].token
                                  /\ Prefix(q)[i] = Positive(Prefix(r)[i] - lag)
      BY <1>1, <1>4, <1>5, <2>3, ElapseProperties
    <3>2. ASSUME NEW i \in 1..Len(q)
          PROVE  /\ left[q[i].token] <= Prefix(q)[i] - Positive(0)
                 /\ Prefix(q)[i] > 0 => Prefix(q)[i] - 0 <= left[q[i].token] + lost
      <4>1. /\ left[r[i].token] <= Prefix(r)[i] - Positive(lag)
            /\ Prefix(r)[i] > 0 => Prefix(r)[i] - lag <= left[r[i].token] + lost
        BY <1>6, <3>1 DEF OnTime
      <4>2. Prefix(r)[i] \in Nat /\ left[r[i].token] \in Int
        BY <2>1, <3>1
      <4>3. Prefix(q)[i] = Positive(Prefix(r)[i] - lag) /\ q[i].token = r[i].token
        BY <3>1
      <4> QED BY <1>1, <2>1, <2>3, <4>1, <4>2, <4>3 DEF Positive
    <3> QED BY <3>1, <3>2 DEF OnTime
  <2> QED BY <1>1, <2>2, <2>3
<1>8. Distinct(q) /\ TokensIn(q) = Queued \ {token}
  BY <1>5, <1>7, SameTokens
<1>9. q = Moved(n)
  BY <1>3, <1>4 DEF Moved
<1>10. QED
  BY <1>2, <1>3, <1>7, <1>8, <1>9

(* updateEntry() keeps it, *)
LEMMA UpdateKeeps ==
  ASSUME IInv, NEW n \in DOMAIN queue, NEW delay \in Delays, UpdateEntry(n, delay)
  PROVE  IInv' /\ Queued' = Queued
<1>1. /\ queue \in Seq(Entry) /\ Distinct(queue) /\ OnTime(queue, lag) /\ n \in 1..Len(queue)
      /\ DOMAIN queue = 1..Len(queue) /\ lag \in Int
  BY IInvFacts, LenProperties
<1>2. PICK token : token = queue[n].token
  OBVIOUS
<1>4. PICK q : q = Moved(n)
  OBVIOUS
<1>5. /\ AddEntry(q, token, delay) /\ running' = running /\ lost' = lost
      /\ tokenCounter' = tokenCounter /\ stamps < MaxTokens /\ stamps' = stamps + 1
  BY <1>2, <1>4 DEF UpdateEntry, AddEntry, Moved
<1>6. /\ q \in Seq(Entry) /\ OnTime(q, 0) /\ Distinct(q) /\ TokensIn(q) = Queued \ {token}
  BY <1>2, <1>4, MovedProperties
<1>7. token \in Tokens /\ token \in Queued
  BY <1>1, <1>2, EntryType DEF Queued, TokensIn
<1>8. /\ queue' \in Seq(Entry) /\ Distinct(queue') /\ Queued' = Queued
       /\ NeverEarly' /\ NotLate'
       /\ left' \in [Queued' -> Int] /\ since' \in [Queued' -> Nat] /\ lag' = 0
  <2>1. TokensIn(q) \subseteq Queued /\ token \notin TokensIn(q) /\ lost' = lost
    BY <1>5, <1>6
  <2>2. Queued = TokensIn(q) \union {token}
    BY <1>6, <1>7
  <2> QED BY <1>5, <1>6, <1>7, <2>1, <2>2, AddEntryKeeps
<1>9. TypeOK'
  <2>1. stamps' \in tokenCounter..MaxTokens
    BY <1>5, BoundsAssumption DEF IInv, TypeOK
  <2> QED BY <1>5, <1>8, <2>1 DEF IInv, TypeOK
<1>10. Linked'
  <2>1. DOMAIN queue' = 1..Len(queue')
    BY <1>8, LenProperties
  <2>2. \A i \in DOMAIN queue' : queue'[i].token \in Queued'
    BY DEF Queued, TokensIn
  <2>3. \A t \in Queued : t <= tokenCounter
    BY DEF IInv, Linked, Queued, TokensIn
  <2> QED BY <1>5, <1>8, <2>1, <2>2, <2>3 DEF IInv, Linked, Distinct
<1>11. QED
  BY <1>8, <1>9, <1>10 DEF IInv

(* timeToNextAlarm() keeps it, *)
LEMMA TimeToNextAlarmKeeps ==
  ASSUME IInv, TimeToNextAlarm
  PROVE  IInv' /\ Queued' = Queued
<1>1. /\ queue' = Refreshed /\ lag' = RefreshedLag /\ left' = left /\ since' = since
      /\ tokenCounter' = tokenCounter /\ running' = running /\ stamps' = stamps /\ lost' = lost
  BY DEF TimeToNextAlarm
<1>2. /\ queue' \in Seq(Entry) /\ Len(queue') = Len(queue)
      /\ \A i \in 1..Len(queue) : queue'[i].token = queue[i].token
      /\ OnTime(queue', lag') /\ lag' \in Int
  BY <1>1, RefreshedProperties
<1>3. Distinct(queue') /\ Queued' = Queued
  BY <1>2, IInvFacts, SameTokens DEF Queued
<1>4. DOMAIN queue' = 1..Len(queue') /\ DOMAIN queue = 1..Len(queue)
  BY <1>2, IInvFacts, LenProperties
<1>5. TypeOK'
  BY <1>1, <1>2, <1>3 DEF IInv, TypeOK
<1>6. Linked'
  BY <1>1, <1>2, <1>3, <1>4 DEF IInv, Linked, Distinct
<1>7. NeverEarly' /\ NotLate'
  BY <1>1, <1>2, <1>4 DEF OnTime, NeverEarly, NotLate
<1>8. QED
  BY <1>3, <1>5, <1>6, <1>7 DEF IInv

(* handleAlarm() keeps it, *)
LEMMA HandleAlarmKeeps ==
  ASSUME IInv, HandleAlarm
  PROVE  /\ IInv'
         /\ Queued' = IF HeadIsDue(Refreshed) THEN Queued \ {Refreshed[1].token} ELSE Queued
<1>1. CASE ~HeadIsDue(Refreshed)
  BY <1>1, TimeToNextAlarmKeeps DEF HandleAlarm, TimeToNextAlarm
<1>2. CASE HeadIsDue(Refreshed)
  <2>1. PICK q : q = Refreshed
    OBVIOUS
  <2>2. PICK token : token = q[1].token
    OBVIOUS
  <2>3. /\ queue' = RemoveEntry(q, 1) /\ running' = Append(running, token)
        /\ left' = Restrict(left, Queued \ {token}) /\ since' = Restrict(since, Queued \ {token})
        /\ lag' = RefreshedLag /\ tokenCounter' = tokenCounter /\ stamps' = stamps /\ lost' = lost
    BY <1>2, <2>1, <2>2 DEF HandleAlarm, Drop
  <2>4. /\ q \in Seq(Entry) /\ Len(q) = Len(queue)
        /\ \A i \in 1..Len(queue) : q[i].token = queue[i].token
        /\ OnTime(q, lag') /\ lag' \in Int
    BY <2>1, <2>3, RefreshedProperties
  <2>5. Distinct(q) /\ TokensIn(q) = Queued
    BY <2>4, IInvFacts, SameTokens DEF Queued
  <2>6. 1 \in 1..Len(q)
    BY <1>2, <2>1, <2>4, EmptySeq DEF HeadIsDue
  <2>7. /\ queue' \in Seq(Entry) /\ Distinct(queue') /\ Queued' = Queued \ {token}
        /\ \A j \in 1..Len(queue') :
             \E i \in 1..Len(q) : queue'[j].token = q[i].token /\ Prefix(queue')[j] = Prefix(q)[i]
    BY <2>2, <2>3, <2>4, <2>5, <2>6, RemoveKeeps DEF Queued
  <2>8. DOMAIN queue' = 1..Len(queue') /\ DOMAIN queue = 1..Len(queue) /\ DOMAIN q = 1..Len(q)
    BY <2>4, <2>7, IInvFacts, LenProperties
  <2>9. token \in Queued /\ token \in Tokens /\ token <= tokenCounter
    <3>1. token = queue[1].token
      BY <2>2, <2>4, <2>6
    <3> QED BY <2>4, <2>6, <2>8, <3>1, IInvFacts, EntryType DEF IInv, Linked
  <2>10. running' \in Seq(Tokens)
    BY <2>3, <2>9, AppendProperties DEF IInv, TypeOK
  <2>11. TypeOK'
    <3>1. left' \in [Queued' -> Int] /\ since' \in [Queued' -> Nat]
      BY <2>3, <2>7, IInvFacts DEF Restrict
    <3> QED BY <2>3, <2>4, <2>7, <2>10, <3>1 DEF IInv, TypeOK
  <2>12. Linked'
    <3>1. /\ running \in Seq(Tokens) /\ DOMAIN running = 1..Len(running) /\ Len(running) \in Nat
          /\ DOMAIN running' = 1..Len(running)+1
          /\ \A i \in 1..Len(running) : running'[i] = running[i]
          /\ running'[Len(running)+1] = token
      BY <2>3, <2>9, <2>10, LenProperties, AppendProperties DEF IInv, TypeOK
    <3>2. \A i, j \in DOMAIN running' : running'[i] = running'[j] => i = j
      <4>1. \A i \in 1..Len(running) : running[i] # token
        BY <2>9, <3>1 DEF IInv, Linked
      <4> QED BY <3>1, <4>1 DEF IInv, Linked
    <3>3. \A i \in DOMAIN running' : running'[i] \notin Queued' /\ running'[i] <= tokenCounter
      BY <2>7, <2>9, <3>1 DEF IInv, Linked
    <3>4. ASSUME NEW i \in DOMAIN queue' PROVE queue'[i].token <= tokenCounter
      <4>1. queue'[i].token \in Queued
        <5>1. queue'[i].token \in Queued'
          BY DEF Queued, TokensIn
        <5> QED BY <2>7, <5>1
      <4>2. \A t \in Queued : t <= tokenCounter
        BY DEF IInv, Linked, Queued, TokensIn
      <4> QED BY <4>1, <4>2
    <3> QED BY <2>3, <2>7, <2>8, <3>2, <3>3, <3>4 DEF Linked, Distinct
  <2>13. ASSUME NEW j \in 1..Len(queue')
         PROVE  /\ left'[queue'[j].token] <= Prefix(queue')[j] - Positive(lag')
                /\ Prefix(queue')[j] > 0
                     => Prefix(queue')[j] - lag' <= left'[queue'[j].token] + lost'
    <3>1. queue'[j].token \in Queued'
      BY <2>8 DEF Queued, TokensIn
    <3>2. left'[queue'[j].token] = left[queue'[j].token]
      BY <2>3, <2>7, <3>1 DEF Restrict
    <3> QED BY <2>3, <2>4, <2>7, <3>2 DEF OnTime
  <2>14. NeverEarly' /\ NotLate'
    BY <2>8, <2>13 DEF NeverEarly, NotLate
  <2> QED BY <1>2, <2>1, <2>2, <2>7, <2>11, <2>12, <2>14 DEF IInv
<1>3. QED
  BY <1>1, <1>2

(* the return of a handler keeps it, *)
LEMMA HandlerReturnsKeeps ==
  ASSUME IInv, HandlerReturns
  PROVE  IInv'
<1>1. /\ running # <<>> /\ running' = SubSeq(running, 1, Len(running) - 1)
      /\ queue' = queue /\ lag' = lag /\ tokenCounter' = tokenCounter /\ left' = left
      /\ since' = since /\ stamps' = stamps /\ lost' = lost
  BY DEF HandlerReturns
<1>2. running \in Seq(Tokens) /\ Len(running) \in Nat \ {0} /\ DOMAIN running = 1..Len(running)
  BY <1>1, LenProperties, EmptySeq DEF IInv, TypeOK
<1>3. /\ running' \in Seq(Tokens) /\ DOMAIN running' = 1..Len(running)-1
      /\ \A i \in 1..Len(running)-1 : running'[i] = running[i]
  <2>1. /\ running' \in Seq(Tokens) /\ Len(running') = Len(running) - 1
        /\ \A i \in 1..Len(running)-1 : running'[i] = running[i]
    BY <1>1, <1>2, ElementOfSeq, SubSeqProperties
  <2> QED BY <2>1, LenProperties
<1>4. Queued' = Queued
  BY <1>1 DEF Queued
<1>5. TypeOK'
  BY <1>1, <1>3, <1>4 DEF IInv, TypeOK
<1>6. Linked'
  BY <1>1, <1>2, <1>3, <1>4 DEF IInv, Linked
<1>7. NeverEarly' /\ NotLate'
  BY <1>1 DEF IInv, NeverEarly, NotLate
<1>8. QED
  BY <1>5, <1>6, <1>7 DEF IInv

(* the passing of time keeps it, *)
LEMMA TickKeeps ==
  ASSUME IInv, Tick
  PROVE  IInv'
<1>1. /\ lag' = lag + 1 /\ left' = [t \in Queued |-> left[t] - 1]
      /\ queue' = queue /\ tokenCounter' = tokenCounter /\ running' = running
      /\ since' = since /\ stamps' = stamps /\ lost' = lost
  BY DEF Tick
<1>2. /\ Queued' = Queued /\ lag \in Int /\ lost \in Nat /\ left \in [Queued -> Int]
      /\ queue \in Seq(Entry) /\ OnTime(queue, lag) /\ DOMAIN queue = 1..Len(queue)
  BY <1>1, IInvFacts, LenProperties DEF Queued
<1>3. TypeOK'
  BY <1>1, <1>2 DEF IInv, TypeOK
<1>4. Linked'
  BY <1>1, <1>2 DEF IInv, Linked
<1>5. ASSUME NEW i \in 1..Len(queue)
      PROVE  /\ left'[queue[i].token] <= Prefix(queue)[i] - Positive(lag')
             /\ Prefix(queue)[i] > 0 => Prefix(queue)[i] - lag' <= left'[queue[i].token] + lost
  <2>1. queue[i].token \in Queued
    BY <1>2 DEF Queued, TokensIn
  <2>2. left'[queue[i].token] = left[queue[i].token] - 1 /\ left[queue[i].token] \in Int
    BY <1>1, <1>2, <2>1
  <2>3. /\ left[queue[i].token] <= Prefix(queue)[i] - Positive(lag)
        /\ Prefix(queue)[i] > 0 => Prefix(queue)[i] - lag <= left[queue[i].token] + lost
    BY <1>2 DEF OnTime
  <2>4. Prefix(queue)[i] \in Nat
    BY <1>2, PrefixType, LenProperties
  <2> QED BY <1>1, <1>2, <2>2, <2>3, <2>4 DEF Positive
<1>6. NeverEarly' /\ NotLate'
  BY <1>1, <1>2, <1>5 DEF NeverEarly, NotLate
<1>7. QED
  BY <1>3, <1>4, <1>6 DEF IInv

(* and setting the clock back keeps it. *)
LEMMA ClockSetBackKeeps ==
  ASSUME IInv, NEW b \in 1..MaxBack, ClockSetBack(b)
  PROVE  IInv'
<1>1. /\ lost' = lost + b /\ lag' = lag - b /\ left' = left
      /\ queue' = queue /\ tokenCounter' = tokenCounter /\ running' = running
      /\ since' = since /\ stamps' = stamps /\ b \in Nat
  BY BoundsAssumption DEF ClockSetBack
<1>2. /\ Queued' = Queued /\ lag \in Int /\ lost \in Nat /\ left \in [Queued -> Int]
      /\ queue \in Seq(Entry) /\ OnTime(queue, lag) /\ DOMAIN queue = 1..Len(queue)
  BY <1>1, IInvFacts, LenProperties DEF Queued
<1>3. TypeOK'
  BY <1>1, <1>2 DEF IInv, TypeOK
<1>4. Linked'
  BY <1>1, <1>2 DEF IInv, Linked
<1>5. ASSUME NEW i \in 1..Len(queue)
      PROVE  /\ left[queue[i].token] <= Prefix(queue)[i] - Positive(lag')
             /\ Prefix(queue)[i] > 0 => Prefix(queue)[i] - lag' <= left[queue[i].token] + lost'
  <2>1. queue[i].token \in Queued /\ left[queue[i].token] \in Int
    BY <1>2 DEF Queued, TokensIn
  <2>2. /\ left[queue[i].token] <= Prefix(queue)[i] - Positive(lag)
        /\ Prefix(queue)[i] > 0 => Prefix(queue)[i] - lag <= left[queue[i].token] + lost
    BY <1>2 DEF OnTime
  <2>3. Prefix(queue)[i] \in Nat
    BY <1>2, PrefixType, LenProperties
  <2> QED BY <1>1, <1>2, <2>1, <2>2, <2>3 DEF Positive
<1>6. NeverEarly' /\ NotLate'
  BY <1>1, <1>2, <1>5 DEF NeverEarly, NotLate
<1>7. QED
  BY <1>3, <1>4, <1>6 DEF IInv

(* Every step of the queue keeps the inductive invariant. *)
LEMMA StepKeeps == IInv /\ [Next]_vars => IInv'
<1> SUFFICES ASSUME IInv, [Next]_vars PROVE IInv'
  OBVIOUS
<1>1. ASSUME NEW delay \in Delays, ScheduleDelayedTask(delay) PROVE IInv'
  BY <1>1, ScheduleKeeps
<1>2. ASSUME NEW i \in DOMAIN queue, UnscheduleDelayedTask(i) PROVE IInv'
  BY <1>2, UnscheduleKeeps
<1>3. ASSUME NEW i \in DOMAIN queue, NEW delay \in Delays, UpdateEntry(i, delay) PROVE IInv'
  BY <1>3, UpdateKeeps
<1>4. CASE TimeToNextAlarm
  BY <1>4, TimeToNextAlarmKeeps
<1>5. CASE HandleAlarm
  BY <1>5, HandleAlarmKeeps
<1>6. CASE HandlerReturns
  BY <1>6, HandlerReturnsKeeps
<1>7. CASE Tick
  BY <1>7, TickKeeps
<1>8. ASSUME NEW b \in 1..MaxBack, ClockSetBack(b) PROVE IInv'
  BY <1>8, ClockSetBackKeeps
<1>9. CASE UNCHANGED vars
  BY <1>9 DEF vars, IInv, TypeOK, Linked, NeverEarly, NotLate, Queued
<1>10. QED
  BY <1>1, <1>2, <1>3, <1>4, <1>5, <1>6, <1>7, <1>8, <1>9 DEF Next

(* The inductive invariant holds in every state, for any set of delays and any
   bounds. *)
THEOREM Invariance == Spec => []IInv
<1>1. Init => IInv
  BY InitIInv
<1>2. IInv /\ [Next]_vars => IInv'
  BY StepKeeps
<1>3. QED
  BY <1>1, <1>2, PTL DEF Spec

(* No delta ever becomes negative, and the bookkeeping has its types. *)
THEOREM TypeCorrect == Spec => []TypeOK
<1>1. IInv => TypeOK
  BY DEF IInv
<1>2. QED
  BY <1>1, Invariance, PTL

(* An alarm is in the list at most once, and never while its handler runs. *)
THEOREM AlarmsStayLinked == Spec => []Linked
<1>1. IInv => Linked
  BY DEF IInv
<1>2. QED
  BY <1>1, Invariance, PTL

(* No alarm goes off before the delay its caller asked for has passed. *)
THEOREM AlarmsAreNeverEarly == Spec => []NeverEarly
<1>1. IInv => NeverEarly
  BY DEF IInv
<1>2. QED
  BY <1>1, Invariance, PTL

(* An alarm is due late by no more than the clock was set back. *)
THEOREM AlarmsAreNotLate == Spec => []NotLate
<1>1. IInv => NotLate
  BY DEF IInv
<1>2. QED
  BY <1>1, Invariance, PTL

-----------------------------------------------------------------------------
(* The refinement.  Ringing is the abstract value of the handlers on the call
   stack. *)
Ringing == {running[i] : i \in DOMAIN running}

(* The empty queue is a clock on which no alarm was set, *)
LEMMA InitRefines == Init => Clock!Init
BY DEF Init, Queued, TokensIn, Clock!Init

(* a task that is scheduled sets an alarm with a token no alarm had before, *)
LEMMA ScheduleRefines ==
  ASSUME IInv, NEW delay \in Delays, ScheduleDelayedTask(delay)
  PROVE  Clock!Next
<1>1. PICK token : token = tokenCounter + 1
  OBVIOUS
<1>2. /\ tokenCounter' = token /\ running' = running /\ stamps < MaxTokens
      /\ left' = [t \in Queued' |-> IF t = token THEN delay ELSE left[t]]
  BY <1>1 DEF ScheduleDelayedTask, AddEntry, Queued
<1>3. Queued' = Queued \union {token}
  BY <1>1, ScheduleKeeps
<1>4. tokenCounter \in Nat /\ token \in Tokens
  BY <1>1, <1>2, BoundsAssumption DEF IInv, TypeOK, Tokens
<1>5. token \notin 1..tokenCounter /\ 1..token = (1..tokenCounter) \union {token}
  BY <1>1, <1>4
<1>6. Clock!Set(token, delay)
  BY <1>2, <1>3, <1>5 DEF Clock!Set
<1>7. QED
  BY <1>4, <1>6 DEF Clock!Next

(* cancelling one takes it off the clock, *)
LEMMA UnscheduleRefines ==
  ASSUME IInv, NEW n \in DOMAIN queue, UnscheduleDelayedTask(n)
  PROVE  Clock!Next
<1>1. PICK token : token = queue[n].token
  OBVIOUS
<1>2. /\ left' = Restrict(left, Queued \ {token}) /\ running' = running
      /\ tokenCounter' = tokenCounter
  BY <1>1 DEF UnscheduleDelayedTask, Drop
<1>3. Queued' = Queued \ {token} /\ token \in Queued
  BY <1>1, UnscheduleKeeps DEF Queued, TokensIn
<1>4. left' = [t \in Queued' |-> left[t]]
  BY <1>2, <1>3, IInvFacts DEF Restrict
<1>5. Clock!Cancel(token)
  BY <1>2, <1>3, <1>4 DEF Clock!Cancel, Clock!Drop
<1>6. QED
  BY <1>3, <1>5 DEF Clock!Next

(* rescheduling it gives it another countdown, *)
LEMMA UpdateRefines ==
  ASSUME IInv, NEW n \in DOMAIN queue, NEW delay \in Delays, UpdateEntry(n, delay)
  PROVE  Clock!Next
<1>1. PICK token : token = queue[n].token
  OBVIOUS
<1>2. /\ left' = [t \in Queued' |-> IF t = token THEN delay ELSE left[t]]
      /\ running' = running /\ tokenCounter' = tokenCounter
  BY <1>1 DEF UpdateEntry, AddEntry, Queued
<1>3. Queued' = Queued /\ token \in Queued
  BY <1>1, UpdateKeeps DEF Queued, TokensIn
<1>4. left' = [left EXCEPT ![token] = delay]
  BY <1>2, <1>3, IInvFacts
<1>5. Clock!Reset(token, delay)
  BY <1>2, <1>3, <1>4 DEF Clock!Reset
<1>6. QED
  BY <1>3, <1>5 DEF Clock!Next

(* asking for the time to the next alarm changes nothing that the clock shows,
   although it rewrites the deltas, *)
LEMMA TimeToNextAlarmRefines ==
  ASSUME IInv, TimeToNextAlarm
  PROVE  UNCHANGED Clock!clockVars
BY TimeToNextAlarmKeeps DEF TimeToNextAlarm, Clock!clockVars

(* the alarm that is handled is one whose countdown has run out, *)
LEMMA HandleAlarmRefines ==
  ASSUME IInv, HandleAlarm
  PROVE  Clock!Next \/ UNCHANGED Clock!clockVars
<1>1. CASE ~HeadIsDue(Refreshed)
  BY <1>1, HandleAlarmKeeps DEF HandleAlarm, Clock!clockVars
<1>2. CASE HeadIsDue(Refreshed)
  <2>1. PICK q : q = Refreshed
    OBVIOUS
  <2>2. PICK token : token = q[1].token
    OBVIOUS
  <2>3. /\ running' = Append(running, token) /\ left' = Restrict(left, Queued \ {token})
        /\ tokenCounter' = tokenCounter
    BY <1>2, <2>1, <2>2 DEF HandleAlarm, Drop
  <2>4. Queued' = Queued \ {token}
    BY <1>2, <2>1, <2>2, HandleAlarmKeeps
  <2>5. /\ q \in Seq(Entry) /\ Len(q) = Len(queue) /\ OnTime(q, RefreshedLag)
        /\ \A i \in 1..Len(queue) : q[i].token = queue[i].token
        /\ RefreshedLag \in Int
    BY <2>1, RefreshedProperties
  <2>6. 1 \in 1..Len(q) /\ q[1].delta = 0
    BY <1>2, <2>1, <2>5, EmptySeq DEF HeadIsDue
  <2>7. token \in Queued /\ left[token] \in Int
    BY <2>2, <2>5, <2>6, IInvFacts
  <2>8. left[token] <= 0
    <3>1. Prefix(q)[1] = 0
      BY <2>5, <2>6, PrefixStep
    <3> QED BY <2>2, <2>5, <2>6, <2>7, <3>1 DEF OnTime, Positive
  <2>9. left' = [t \in Queued' |-> left[t]]
    BY <2>3, <2>4, IInvFacts DEF Restrict
  <2>10. Ringing' = Ringing \union {token}
    <3>1. /\ running \in Seq(Tokens) /\ token \in Tokens
      <4>1. token \in Tokens
        BY <2>2, <2>5, <2>6, EntryType
      <4> QED BY <4>1 DEF IInv, TypeOK
    <3>2. /\ DOMAIN running = 1..Len(running) /\ Len(running) \in Nat
          /\ DOMAIN running' = 1..Len(running)+1
          /\ \A i \in 1..Len(running) : running'[i] = running[i]
          /\ running'[Len(running)+1] = token
      BY <2>3, <3>1, LenProperties, AppendProperties
    <3>3. DOMAIN running' = (DOMAIN running) \union {Len(running) + 1}
      BY <3>2
    <3> QED BY <3>2, <3>3 DEF Ringing
  <2>11. Clock!Fire(token)
    BY <2>3, <2>4, <2>7, <2>8, <2>9, <2>10 DEF Clock!Fire, Clock!Drop, Ringing
  <2> QED BY <2>7, <2>11 DEF Clock!Next
<1>3. QED
  BY <1>1, <1>2

(* the handler that returns is that of an alarm that is ringing, and no other
   handler on the stack is that alarm's, *)
LEMMA HandlerReturnsRefines ==
  ASSUME IInv, HandlerReturns
  PROVE  Clock!Next
<1>1. /\ running # <<>> /\ running' = SubSeq(running, 1, Len(running) - 1)
      /\ queue' = queue /\ tokenCounter' = tokenCounter /\ left' = left
  BY DEF HandlerReturns
<1>2. running \in Seq(Tokens) /\ Len(running) \in Nat \ {0} /\ DOMAIN running = 1..Len(running)
  BY <1>1, LenProperties, EmptySeq DEF IInv, TypeOK
<1>3. /\ DOMAIN running' = 1..Len(running)-1
      /\ \A i \in 1..Len(running)-1 : running'[i] = running[i]
  <2>1. /\ running' \in Seq(Tokens) /\ Len(running') = Len(running) - 1
        /\ \A i \in 1..Len(running)-1 : running'[i] = running[i]
    BY <1>1, <1>2, ElementOfSeq, SubSeqProperties
  <2> QED BY <2>1, LenProperties
<1>4. PICK n : n = Len(running)
  OBVIOUS
<1>5. n \in DOMAIN running /\ running[n] \in Ringing
  BY <1>2, <1>4 DEF Ringing
<1>6. Ringing' = Ringing \ {running[n]}
  <2>1. \A i \in 1..n-1 : i \in DOMAIN running /\ running[i] # running[n]
    BY <1>2, <1>4, <1>5 DEF IInv, Linked
  <2>2. \A i \in DOMAIN running : i = n \/ i \in 1..n-1
    BY <1>2, <1>4
  <2>3. Ringing' = {running[i] : i \in 1..n-1}
    BY <1>3, <1>4 DEF Ringing
  <2> QED BY <2>1, <2>2, <2>3 DEF Ringing
<1>7. Queued' = Queued
  BY <1>1 DEF Queued
<1>8. PICK token : token = running[n]
  OBVIOUS
<1>9. Clock!Attended(token)
  BY <1>1, <1>5, <1>6, <1>7, <1>8 DEF Clock!Attended, Ringing
<1>10. QED
  BY <1>5, <1>8, <1>9 DEF Clock!Next, Ringing

(* and the countdowns run with the time, not with the system clock. *)
LEMMA TickRefines ==
  ASSUME Tick
  PROVE  Clock!Next
<1>1. Queued' = Queued
  BY DEF Tick, Queued
<1>2. Clock!Pass
  BY <1>1 DEF Tick, Clock!Pass
<1>3. QED
  BY <1>2 DEF Clock!Next

(* Every step of the list of deltas is a step of the clock or leaves it as it
   is. *)
LEMMA StepRefines == IInv /\ [Next]_vars => [Clock!Next]_(Clock!clockVars)
<1> SUFFICES ASSUME IInv, [Next]_vars PROVE Clock!Next \/ UNCHANGED Clock!clockVars
  OBVIOUS
<1>1. ASSUME NEW delay \in Delays, ScheduleDelayedTask(delay) PROVE Clock!Next
  BY <1>1, ScheduleRefines
<1>2. ASSUME NEW i \in DOMAIN queue, UnscheduleDelayedTask(i) PROVE Clock!Next
  BY <1>2, UnscheduleRefines
<1>3. ASSUME NEW i \in DOMAIN queue, NEW delay \in Delays, UpdateEntry(i, delay)
      PROVE  Clock!Next
  BY <1>3, UpdateRefines
<1>4. CASE TimeToNextAlarm
  BY <1>4, TimeToNextAlarmRefines
<1>5. CASE HandleAlarm
  BY <1>5, HandleAlarmRefines
<1>6. CASE HandlerReturns
  BY <1>6, HandlerReturnsRefines
<1>7. CASE Tick
  BY <1>7, TickRefines
<1>8. ASSUME NEW b \in 1..MaxBack, ClockSetBack(b) PROVE UNCHANGED Clock!clockVars
  BY <1>8 DEF ClockSetBack, Queued, Clock!clockVars
<1>9. CASE UNCHANGED vars
  BY <1>9 DEF vars, Queued, Clock!clockVars
<1>10. QED
  BY <1>1, <1>2, <1>3, <1>4, <1>5, <1>6, <1>7, <1>8, <1>9 DEF Next

(* The delta list of DelayQueue.cpp keeps the promise of scheduleDelayedTask()
   and unscheduleDelayedTask(): one countdown per alarm, which goes off at most
   once, when its own countdown has run out, and not after it was cancelled. *)
THEOREM QueueIsAnAlarmClock == Spec => ImplementsAlarmClock
<1>1. Init => Clock!Init
  BY InitRefines
<1>2. IInv /\ [Next]_vars => [Clock!Next]_(Clock!clockVars)
  BY StepRefines
<1>3. QED
  BY <1>1, <1>2, Invariance, PTL DEF Spec, ImplementsAlarmClock, Clock!Spec

-----------------------------------------------------------------------------
(* The order of the list.  A delay is stamped before the next one is set, and
   without clock jumps the list is in the order in which the alarms must go
   off: Prefix alone does not show it, because several alarms that are overdue
   all stand at 0. *)
StampedBefore == \A t \in Queued : since[t] < stamps

Sorted(q) == \A i, j \in 1..Len(q) : i < j => Before(q[i].token, q[j].token)

Ordered == StampedBefore /\ (lost = 0 => Sorted(queue))

(* What is in r is in q, and in the same order. *)
PartOf(r, q) ==
  \A i, j \in 1..Len(r) : i < j =>
    \E a, b \in 1..Len(q) : a < b /\ r[i].token = q[a].token /\ r[j].token = q[b].token

(* removeEntry() does not exchange two entries. *)
LEMMA RemoveKeepsOrder ==
  ASSUME NEW q \in Seq(Entry), NEW n \in 1..Len(q)
  PROVE  PartOf(RemoveEntry(q, n), q)
<1>1. PICK r : r = RemoveEntry(q, n)
  OBVIOUS
<1>2. /\ Len(r) = Len(q) - 1 /\ Len(q) \in Nat
      /\ \A m \in 1..n-1 : r[m].token = q[m].token
      /\ \A m \in n..Len(q)-1 : r[m].token = q[m+1].token
  BY <1>1, RemoveProperties, LenProperties
<1>3. PICK g : g = [m \in 1..Len(q)-1 |-> IF m < n THEN m ELSE m + 1]
  OBVIOUS
<1>4. ASSUME NEW m \in 1..Len(q)-1 PROVE g[m] \in 1..Len(q) /\ r[m].token = q[g[m]].token
  <2>1. CASE m < n
    <3>1. g[m] = m /\ m \in 1..n-1 /\ m \in 1..Len(q)
      BY <1>2, <1>3, <2>1
    <3> QED BY <1>2, <3>1
  <2>2. CASE ~(m < n)
    <3>1. g[m] = m + 1 /\ m \in n..Len(q)-1 /\ m + 1 \in 1..Len(q)
      BY <1>2, <1>3, <2>2
    <3> QED BY <1>2, <3>1
  <2> QED BY <2>1, <2>2
<1>5. \A i, j \in 1..Len(q)-1 : i < j => g[i] < g[j]
  BY <1>2, <1>3
<1>6. ASSUME NEW i \in 1..Len(r), NEW j \in 1..Len(r), i < j
      PROVE  \E a, b \in 1..Len(q) : a < b /\ r[i].token = q[a].token /\ r[j].token = q[b].token
  <2>1. i \in 1..Len(q)-1 /\ j \in 1..Len(q)-1
    BY <1>2
  <2>2. g[i] \in 1..Len(q) /\ g[j] \in 1..Len(q) /\ g[i] < g[j]
    BY <1>4, <1>5, <1>6, <2>1
  <2>3. r[i].token = q[g[i]].token /\ r[j].token = q[g[j]].token
    BY <1>4, <2>1
  <2> QED BY <2>2, <2>3
<1>7. QED
  BY <1>1, <1>6 DEF PartOf

(* addEntry() exchanges none either, and puts the new one behind those due no
   later and before those due later. *)
LEMMA InsertKeepsOrder ==
  ASSUME NEW q \in Seq(Entry), NEW token \in Tokens, NEW delay \in Nat, NEW r,
         r = Insert(q, token, delay), NEW i \in 1..Len(r), NEW j \in 1..Len(r), i < j
  PROVE  \/ \E a, b \in 1..Len(q) : a < b /\ r[i].token = q[a].token /\ r[j].token = q[b].token
         \/ \E a \in 1..Len(q) : Prefix(q)[a] <= delay /\ r[i].token = q[a].token
                                 /\ r[j].token = token
         \/ \E b \in 1..Len(q) : Prefix(q)[b] > delay /\ r[i].token = token
                                 /\ r[j].token = q[b].token
<1>1. Len(r) = Len(q) + 1 /\ Len(q) \in Nat
  BY InsertProperties, LenProperties
<1>2. PICK k \in 0..Len(q) :
        /\ \A m \in 1..k : r[m].token = q[m].token /\ Prefix(q)[m] <= delay
        /\ r[k+1].token = token
        /\ \A m \in k+2..Len(q)+1 : r[m].token = q[m-1].token /\ Prefix(q)[m-1] > delay
  <2>1. PICK k \in 0..Len(q) :
          /\ \A m \in 1..k : /\ Insert(q, token, delay)[m].token = q[m].token
                             /\ Prefix(Insert(q, token, delay))[m] = Prefix(q)[m]
                             /\ Prefix(q)[m] <= delay
          /\ Insert(q, token, delay)[k+1].token = token
          /\ Prefix(Insert(q, token, delay))[k+1] = delay
          /\ \A m \in k+2..Len(q)+1 :
               /\ Insert(q, token, delay)[m].token = q[m-1].token
               /\ Prefix(Insert(q, token, delay))[m] = Prefix(q)[m-1]
               /\ Prefix(q)[m-1] > delay
    BY InsertProperties
  <2> QED BY <2>1
<1>3. i \in 1..Len(q)+1 /\ j \in 1..Len(q)+1
  BY <1>1
<1>4. PICK g : g = [m \in 1..Len(q)+1 |-> IF m <= k THEN m ELSE m - 1]
  OBVIOUS
<1>5. ASSUME NEW m \in 1..Len(q)+1, m # k + 1
      PROVE  /\ g[m] \in 1..Len(q) /\ r[m].token = q[g[m]].token
             /\ (m <= k => Prefix(q)[g[m]] <= delay)
             /\ (m > k => Prefix(q)[g[m]] > delay)
  <2>1. CASE m <= k
    <3>1. g[m] = m /\ m \in 1..k /\ m \in 1..Len(q) /\ ~(m > k)
      BY <1>1, <1>4, <2>1
    <3> QED BY <1>2, <3>1
  <2>2. CASE ~(m <= k)
    <3>1. g[m] = m - 1 /\ m \in k+2..Len(q)+1 /\ m - 1 \in 1..Len(q)
      BY <1>1, <1>4, <1>5, <2>2
    <3> QED BY <1>2, <2>2, <3>1
  <2> QED BY <2>1, <2>2
<1>6. CASE i = k + 1
  <2>1. j # k + 1 /\ j > k
    BY <1>1, <1>3, <1>6
  <2> QED BY <1>2, <1>3, <1>5, <1>6, <2>1
<1>7. CASE j = k + 1
  <2>1. i # k + 1 /\ i <= k
    BY <1>1, <1>3, <1>7
  <2> QED BY <1>2, <1>3, <1>5, <1>7, <2>1
<1>8. CASE i # k + 1 /\ j # k + 1
  <2>1. g[i] < g[j]
    BY <1>1, <1>3, <1>4, <1>8
  <2> QED BY <1>3, <1>5, <1>8, <2>1
<1>9. QED
  BY <1>6, <1>7, <1>8

(* A list with the same tokens in the same places is as sorted. *)
LEMMA SameOrder ==
  ASSUME NEW q, NEW r, Len(q) = Len(r), \A i \in 1..Len(r) : q[i].token = r[i].token, Sorted(r)
  PROVE  Sorted(q)
BY DEF Sorted

(* addEntry() to a list that was just synchronized keeps the order: with no
   clock jumps the entry it is put behind is due no later and was set before,
   the one it is put before is due later. *)
LEMMA AddEntryKeepsOrder ==
  ASSUME IInv, StampedBefore, NEW q \in Seq(Entry), OnTime(q, 0), TokensIn(q) \subseteq Queued,
         lost = 0 => Sorted(q),
         NEW token \in Tokens, token \notin TokensIn(q), NEW delay \in Delays,
         AddEntry(q, token, delay), lost' = lost, Queued' = TokensIn(q) \union {token}
  PROVE  Ordered'
<1>1. PICK r : r = Insert(q, token, delay)
  OBVIOUS
<1>2. queue' = r /\ delay \in Nat /\ stamps' = stamps + 1 /\ stamps \in Nat
  BY <1>1, DelaysAssumption, BoundsAssumption DEF AddEntry, IInv, TypeOK
<1>3. /\ left' = [t \in Queued' |-> IF t = token THEN delay ELSE left[t]]
      /\ since' = [t \in Queued' |-> IF t = token THEN stamps ELSE since[t]]
  BY DEF AddEntry, Queued
<1>4. \A i \in 1..Len(q) : q[i].token \in TokensIn(q)
  BY LenProperties DEF TokensIn
<1>5. /\ left'[token] = delay /\ since'[token] = stamps
      /\ \A t \in TokensIn(q) : left'[t] = left[t] /\ since'[t] = since[t]
  BY <1>3
<1>6. \A t \in Queued : since[t] \in Nat /\ since[t] < stamps /\ left[t] \in Int
  BY IInvFacts DEF StampedBefore
<1>7. StampedBefore'
  <2> SUFFICES ASSUME NEW t \in Queued' PROVE since'[t] < stamps + 1
    BY <1>2 DEF StampedBefore
  <2>1. t \in TokensIn(q) \/ t = token
    OBVIOUS
  <2> QED BY <1>2, <1>5, <1>6, <2>1
<1>8. ASSUME lost = 0, NEW i \in 1..Len(r), NEW j \in 1..Len(r), i < j
      PROVE  Before(r[i].token, r[j].token)'
  <2>1. r' = r
    OBVIOUS
  <2>2. /\ \A a \in 1..Len(q) : /\ left[q[a].token] <= Prefix(q)[a]
                                /\ Prefix(q)[a] > 0 => Prefix(q)[a] <= left[q[a].token]
        /\ \A a \in 1..Len(q) : Prefix(q)[a] \in Nat /\ q[a].token \in Queued
    <3>1. \A a \in 1..Len(q) : Prefix(q)[a] \in Nat /\ q[a].token \in Queued
      BY <1>4, PrefixType, LenProperties
    <3>2. \A a \in 1..Len(q) : left[q[a].token] \in Int
      BY <1>6, <3>1
    <3> QED BY <1>8, <3>1, <3>2 DEF OnTime, Positive
  <2>3. ASSUME NEW a \in 1..Len(q), NEW b \in 1..Len(q), a < b,
               r[i].token = q[a].token, r[j].token = q[b].token
        PROVE  Before(r[i].token, r[j].token)'
    <3>1. Before(q[a].token, q[b].token)
      BY <1>8, <2>3 DEF Sorted
    <3> QED BY <1>4, <1>5, <2>3, <3>1 DEF Before
  <2>4. ASSUME NEW a \in 1..Len(q), Prefix(q)[a] <= delay,
               r[i].token = q[a].token, r[j].token = token
        PROVE  Before(r[i].token, r[j].token)'
    <3>1. /\ left'[q[a].token] = left[q[a].token] /\ since'[q[a].token] = since[q[a].token]
          /\ q[a].token \in Queued /\ left[q[a].token] \in Int /\ since[q[a].token] < stamps
      BY <1>4, <1>5, <1>6
    <3>2. left[q[a].token] <= delay
      BY <1>2, <2>2, <2>4, <3>1
    <3> QED BY <1>2, <1>5, <2>4, <3>1, <3>2 DEF Before
  <2>5. ASSUME NEW b \in 1..Len(q), Prefix(q)[b] > delay,
               r[i].token = token, r[j].token = q[b].token
        PROVE  Before(r[i].token, r[j].token)'
    <3>1. left'[q[b].token] = left[q[b].token] /\ left[q[b].token] \in Int
      BY <1>4, <1>5, <1>6
    <3>2. delay < left[q[b].token]
      BY <1>2, <2>2, <2>5, <3>1
    <3> QED BY <1>2, <1>5, <2>5, <3>1, <3>2 DEF Before
  <2>6. \/ \E a, b \in 1..Len(q) : a < b /\ r[i].token = q[a].token /\ r[j].token = q[b].token
        \/ \E a \in 1..Len(q) : Prefix(q)[a] <= delay /\ r[i].token = q[a].token
                                 /\ r[j].token = token
        \/ \E b \in 1..Len(q) : Prefix(q)[b] > delay /\ r[i].token = token
                                 /\ r[j].token = q[b].token
    <3>1. delay \in Nat /\ i < j
      BY <1>2, <1>8
    <3>2. r = Insert(q, token, delay)
      BY <1>1
    <3> QED BY ONLY q \in Seq(Entry), token \in Tokens, i \in 1..Len(r), j \in 1..Len(r), <3>1, <3>2, InsertKeepsOrder
  <2> QED BY <2>3, <2>4, <2>5, <2>6
<1>9. QED
  BY <1>2, <1>7, <1>8 DEF Ordered, Sorted

(* Without its entry n a sorted list is sorted, and the other alarms keep the
   time and the stamp they had. *)
LEMMA RemovalKeepsOrder ==
  ASSUME IInv, StampedBefore, NEW q \in Seq(Entry), NEW n \in 1..Len(q), NEW token,
         lost = 0 => Sorted(q), queue' = RemoveEntry(q, n), lost' = lost, stamps' = stamps,
         left' = Restrict(left, Queued \ {token}), since' = Restrict(since, Queued \ {token}),
         Queued' = Queued \ {token}
  PROVE  Ordered'
<1>1. /\ left' = [t \in Queued' |-> left[t]] /\ since' = [t \in Queued' |-> since[t]]
  BY IInvFacts DEF Restrict
<1>2. StampedBefore'
  BY <1>1 DEF StampedBefore
<1>3. PICK r : r = RemoveEntry(q, n)
  OBVIOUS
<1>4. /\ queue' = r /\ \A i \in 1..Len(r) : r[i].token \in Queued'
  <2>1. r \in Seq(Entry)
    BY <1>3, RemoveProperties
  <2> QED BY <1>3, <2>1, LenProperties DEF Queued, TokensIn
<1>5. ASSUME lost = 0, NEW i \in 1..Len(r), NEW j \in 1..Len(r), i < j
      PROVE  Before(r[i].token, r[j].token)'
  <2>1. PICK a, b \in 1..Len(q) : a < b /\ r[i].token = q[a].token /\ r[j].token = q[b].token
    BY <1>3, <1>5, RemoveKeepsOrder DEF PartOf
  <2>2. Before(q[a].token, q[b].token)
    BY <1>5, <2>1 DEF Sorted
  <2>3. r[i].token \in Queued' /\ r[j].token \in Queued'
    BY <1>4
  <2> QED BY <1>1, <2>1, <2>2, <2>3 DEF Before
<1>6. QED
  BY <1>2, <1>4, <1>5 DEF Ordered, Sorted

(* scheduleDelayedTask() puts the new alarm behind those that are due no later. *)
LEMMA ScheduleKeepsOrder ==
  ASSUME IInv, Ordered, NEW delay \in Delays, ScheduleDelayedTask(delay)
  PROVE  Ordered'
<1>1. PICK q : q = Synchronized
  OBVIOUS
<1>2. PICK token : token = tokenCounter + 1
  OBVIOUS
<1>3. /\ AddEntry(q, token, delay) /\ lost' = lost /\ stamps < MaxTokens
      /\ Queued' = Queued \union {token}
  BY <1>1, <1>2, ScheduleKeeps DEF ScheduleDelayedTask, AddEntry
<1>4. /\ q \in Seq(Entry) /\ Len(q) = Len(queue) /\ OnTime(q, 0)
      /\ \A i \in 1..Len(queue) : q[i].token = queue[i].token
  BY <1>1, SynchronizedProperties
<1>5. TokensIn(q) = Queued
  BY <1>4, IInvFacts, SameTokens DEF Queued
<1>6. tokenCounter \in Nat /\ token \in Tokens
  BY <1>2, <1>3, BoundsAssumption DEF IInv, TypeOK, Tokens
<1>7. token \notin TokensIn(q)
  <2>1. \A t \in Queued : t <= tokenCounter
    BY DEF IInv, Linked, Queued, TokensIn
  <2> QED BY <1>2, <1>5, <1>6, <2>1
<1>8. lost = 0 => Sorted(q)
  BY <1>4, SameOrder DEF Ordered
<1>9. QED
  BY <1>3, <1>4, <1>5, <1>6, <1>7, <1>8, AddEntryKeepsOrder DEF Ordered

(* unscheduleDelayedTask() leaves the others in their order. *)
LEMMA UnscheduleKeepsOrder ==
  ASSUME IInv, Ordered, NEW n \in DOMAIN queue, UnscheduleDelayedTask(n)
  PROVE  Ordered'
<1>1. PICK q : q = queue
  OBVIOUS
<1>2. PICK token : token = q[n].token
  OBVIOUS
<1>3. /\ queue' = RemoveEntry(q, n) /\ lost' = lost /\ stamps' = stamps
      /\ left' = Restrict(left, Queued \ {token}) /\ since' = Restrict(since, Queued \ {token})
      /\ Queued' = Queued \ {token}
  BY <1>1, <1>2, UnscheduleKeeps DEF UnscheduleDelayedTask, Drop
<1>4. q \in Seq(Entry) /\ n \in 1..Len(q)
  BY <1>1, IInvFacts, LenProperties
<1>5. QED
  BY <1>1, <1>2, <1>3, <1>4, RemovalKeepsOrder DEF Ordered

(* updateEntry() is a removal and an insertion, and the token is set anew. *)
LEMMA UpdateKeepsOrder ==
  ASSUME IInv, Ordered, NEW n \in DOMAIN queue, NEW delay \in Delays, UpdateEntry(n, delay)
  PROVE  Ordered'
<1>1. PICK token : token = queue[n].token
  OBVIOUS
<1>2. PICK r : r = RemoveEntry(queue, n)
  OBVIOUS
<1>3. PICK q : q = Moved(n)
  OBVIOUS
<1>4. AddEntry(q, token, delay) /\ lost' = lost /\ Queued' = Queued
  BY <1>1, <1>3, UpdateKeeps DEF UpdateEntry, Moved
<1>5. queue \in Seq(Entry) /\ n \in 1..Len(queue)
  BY IInvFacts, LenProperties
<1>6. /\ q \in Seq(Entry) /\ Len(q) = Len(r) /\ (\A i \in 1..Len(r) : q[i].token = r[i].token)
      /\ OnTime(q, 0) /\ TokensIn(q) = Queued \ {token}
  BY <1>1, <1>2, <1>3, MovedProperties
<1>7. token \in Queued /\ token \in Tokens
  BY <1>1, <1>5, IInvFacts, EntryType
<1>8. lost = 0 => Sorted(q)
  <2>1. ASSUME lost = 0, NEW i \in 1..Len(r), NEW j \in 1..Len(r), i < j
        PROVE  Before(r[i].token, r[j].token)
    <3>1. PICK a, b \in 1..Len(queue) :
            a < b /\ r[i].token = queue[a].token /\ r[j].token = queue[b].token
      <4>1. PartOf(r, queue)
        BY <1>2, <1>5, RemoveKeepsOrder
      <4> QED BY <2>1, <4>1 DEF PartOf
    <3> QED BY <2>1, <3>1 DEF Ordered, Sorted
  <2> QED BY <1>6, <2>1, SameOrder DEF Sorted
<1>9. token \notin TokensIn(q) /\ Queued' = TokensIn(q) \union {token}
  BY <1>4, <1>6, <1>7
<1>10. QED
  BY <1>4, <1>6, <1>7, <1>8, <1>9, AddEntryKeepsOrder DEF Ordered

(* A synchronization moves no alarm. *)
LEMMA TimeToNextAlarmKeepsOrder ==
  ASSUME IInv, Ordered, TimeToNextAlarm
  PROVE  Ordered'
<1>1. /\ queue' = Refreshed /\ left' = left /\ since' = since /\ stamps' = stamps /\ lost' = lost
      /\ Queued' = Queued
  BY TimeToNextAlarmKeeps DEF TimeToNextAlarm
<1>2. Len(queue') = Len(queue) /\ \A i \in 1..Len(queue) : queue'[i].token = queue[i].token
  BY <1>1, RefreshedProperties
<1>3. QED
  BY <1>1, <1>2 DEF Ordered, Sorted, StampedBefore, Before

(* handleAlarm() takes the first alarm, and it is one that was to go first. *)
LEMMA HandleAlarmKeepsOrder ==
  ASSUME IInv, Ordered, HandleAlarm
  PROVE  Ordered' /\ FirstFires
<1>1. CASE ~HeadIsDue(Refreshed)
  BY <1>1, TimeToNextAlarmKeepsOrder DEF HandleAlarm, TimeToNextAlarm, FirstFires, IInv, TypeOK
<1>2. CASE HeadIsDue(Refreshed)
  <2>1. PICK q : q = Refreshed
    OBVIOUS
  <2>2. PICK token : token = q[1].token
    OBVIOUS
  <2>3. /\ queue' = RemoveEntry(q, 1) /\ running' = Append(running, token)
        /\ left' = Restrict(left, Queued \ {token}) /\ since' = Restrict(since, Queued \ {token})
        /\ stamps' = stamps /\ lost' = lost /\ Queued' = Queued \ {token}
    BY <1>2, <2>1, <2>2, HandleAlarmKeeps DEF HandleAlarm, Drop
  <2>4. /\ q \in Seq(Entry) /\ Len(q) = Len(queue)
        /\ \A i \in 1..Len(queue) : q[i].token = queue[i].token
    BY <2>1, RefreshedProperties
  <2>5. 1 \in 1..Len(q)
    BY <1>2, <2>1, <2>4, EmptySeq DEF HeadIsDue
  <2>6. lost = 0 => Sorted(q)
    BY <2>4, SameOrder DEF Ordered
  <2>7. Ordered'
    BY <2>3, <2>4, <2>5, <2>6, RemovalKeepsOrder DEF Ordered
  <2>8. running'[Len(running')] = token
    <3>1. token \in Tokens /\ running \in Seq(Tokens)
      BY <2>2, <2>4, <2>5, EntryType DEF IInv, TypeOK
    <3> QED BY <2>3, <3>1
  <2>9. ASSUME lost = 0, NEW u \in Queued \ {token} PROVE Before(token, u)
    <3>1. PICK j \in 1..Len(queue) : u = queue[j].token
      BY IInvFacts
    <3>2. j \in 1..Len(q) /\ 1 < j /\ u = q[j].token
      BY <2>2, <2>4, <2>5, <2>9, <3>1
    <3> QED BY <2>2, <2>5, <2>6, <2>9, <3>2 DEF Sorted
  <2> QED BY <2>7, <2>8, <2>9 DEF FirstFires
<1>3. QED
  BY <1>1, <1>2

(* The end of a handler concerns no alarm. *)
LEMMA HandlerReturnsKeepsOrder ==
  ASSUME IInv, Ordered, HandlerReturns
  PROVE  Ordered' /\ Len(running') = Len(running) - 1 /\ Len(running) \in Nat
<1>1. Ordered'
  BY DEF HandlerReturns, Ordered, Sorted, StampedBefore, Before, Queued
<1>2. running \in Seq(Tokens) /\ running # <<>> /\ running' = SubSeq(running, 1, Len(running) - 1)
  BY DEF HandlerReturns, IInv, TypeOK
<1>3. Len(running) \in Nat \ {0} /\ DOMAIN running = 1..Len(running)
  BY <1>2, LenProperties, EmptySeq
<1>4. Len(running') = Len(running) - 1
  BY <1>2, <1>3, SubSeqProperties, ElementOfSeq
<1>5. QED
  BY <1>1, <1>3, <1>4

(* The time that passes concerns no alarm. *)
LEMMA TickKeepsOrder ==
  ASSUME IInv, Ordered, Tick
  PROVE  Ordered'
<1>1. /\ left' = [t \in Queued |-> left[t] - 1] /\ Queued' = Queued
      /\ queue' = queue /\ since' = since /\ stamps' = stamps /\ lost' = lost
  BY DEF Tick, Queued
<1>2. StampedBefore'
  BY <1>1 DEF Ordered, StampedBefore
<1>3. \A t, u \in Queued : Before(t, u) => Before(t, u)'
  BY <1>1, IInvFacts DEF Before
<1>4. PICK q : q = queue
  OBVIOUS
<1>5. \A i \in 1..Len(q) : q[i].token \in Queued
  BY <1>4, IInvFacts
<1>6. Sorted(q) => Sorted(q)'
  BY <1>3, <1>5 DEF Sorted
<1>7. QED
  BY <1>1, <1>2, <1>4, <1>6 DEF Ordered, Sorted

(* Once the clock has been set back the order is no longer promised. *)
LEMMA ClockSetBackKeepsOrder ==
  ASSUME IInv, Ordered, NEW b \in 1..MaxBack, ClockSetBack(b)
  PROVE  Ordered'
<1>1. /\ lost' # 0 /\ queue' = queue /\ since' = since /\ stamps' = stamps
  BY BoundsAssumption, IInvFacts DEF ClockSetBack
<1>2. QED
  BY <1>1 DEF Ordered, StampedBefore, Queued

(* A step that runs no handler satisfies FirstFires. *)
LEMMA NoHandlerRuns == running' = running => FirstFires
<1> SUFFICES ASSUME running' = running PROVE ~(Len(running') > Len(running))
  BY DEF FirstFires
<1>1. PICK n : n = Len(running)
  OBVIOUS
<1>2. Len(running') = n
  BY <1>1
<1> QED BY <1>1, <1>2

(* Every step keeps the order, and takes no alarm before its turn. *)
LEMMA StepKeepsOrder == IInv /\ Ordered /\ [Next]_vars => Ordered' /\ [FirstFires]_vars
<1> SUFFICES ASSUME IInv, Ordered, [Next]_vars PROVE Ordered' /\ FirstFires
  OBVIOUS
<1>1. ASSUME NEW delay \in Delays, ScheduleDelayedTask(delay) PROVE Ordered' /\ FirstFires
  BY <1>1, ScheduleKeepsOrder, NoHandlerRuns DEF ScheduleDelayedTask
<1>2. ASSUME NEW i \in DOMAIN queue, UnscheduleDelayedTask(i) PROVE Ordered' /\ FirstFires
  BY <1>2, UnscheduleKeepsOrder, NoHandlerRuns DEF UnscheduleDelayedTask
<1>3. ASSUME NEW i \in DOMAIN queue, NEW delay \in Delays, UpdateEntry(i, delay)
      PROVE  Ordered' /\ FirstFires
  BY <1>3, UpdateKeepsOrder, NoHandlerRuns DEF UpdateEntry
<1>4. CASE TimeToNextAlarm
  BY <1>4, TimeToNextAlarmKeepsOrder, NoHandlerRuns DEF TimeToNextAlarm
<1>5. CASE HandleAlarm
  BY <1>5, HandleAlarmKeepsOrder
<1>6. CASE HandlerReturns
  <2>1. Ordered' /\ Len(running') = Len(running) - 1 /\ Len(running) \in Nat
    BY <1>6, HandlerReturnsKeepsOrder
  <2> QED BY <2>1 DEF FirstFires
<1>7. CASE Tick
  BY <1>7, TickKeepsOrder, NoHandlerRuns DEF Tick
<1>8. ASSUME NEW b \in 1..MaxBack, ClockSetBack(b) PROVE Ordered' /\ FirstFires
  BY <1>8, ClockSetBackKeepsOrder, NoHandlerRuns DEF ClockSetBack
<1>9. CASE UNCHANGED vars
  <2>1. Ordered'
    BY <1>9 DEF vars, Ordered, Sorted, StampedBefore, Before, Queued
  <2> QED BY <1>9, <2>1, NoHandlerRuns DEF vars
<1>10. QED
  BY <1>1, <1>2, <1>3, <1>4, <1>5, <1>6, <1>7, <1>8, <1>9 DEF Next

(* Alarms go off in the order of their due times, and those that are due at the
   same time in the order in which they were set, as long as the system clock
   is never set back: for every set of delays, every length of the list, and
   every time that passes between two synchronizations. *)
THEOREM AlarmsFireInOrder == Spec => FiresInOrder
<1>1. Init => Ordered
  BY DEF Init, Ordered, Sorted, StampedBefore, Queued, TokensIn
<1>2. IInv /\ Ordered /\ [Next]_vars => Ordered' /\ [FirstFires]_vars
  BY StepKeepsOrder
<1>3. QED
  BY <1>1, <1>2, Invariance, PTL DEF Spec, FiresInOrder
=============================================================================
