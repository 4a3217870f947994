----------------------- MODULE StreamReplicatorProofs -----------------------
(***************************************************************************)
(* Proofs that StreamReplicator serves each request once and gives frames  *)
(* in order, for any number of replicas, when a reader that is called only *)
(* stops or deletes its replica if nothing else is in progress.            *)
(*                                                                         *)
(* The stack is seen as the sets of replicas that each function in         *)
(* progress is about, and the lists as the sets of those that wait in      *)
(* them.  Each function that calls out then has its own lemma, in terms of *)
(* what the stack, the lists and the frames are before and after it.       *)
(***************************************************************************)
EXTENDS StreamReplicator, TLAPS, FiniteSetTheorems, SequenceTheorems

Calls == [run : Functions, on : Replicas \union {None}]

(* A function only calls those of a greater rank. *)
Rank(f) ==
  IF f = "removed" THEN 1 ELSE IF f = "deactivated" THEN 2 ELSE IF f = "complete" THEN 3
  ELSE IF f \in {"deliver", "close"} THEN 4 ELSE 5

Ranked(s) == \A i, j \in DOMAIN s : i < j => Rank(s[i].run) < Rank(s[j].run)

Below(s, n) == \A i \in DOMAIN s : Rank(s[i].run) < n

(* Whom the calls of f in progress are about. *)
On(s, f) == {s[i].on : i \in {j \in DOMAIN s : s[j].run = f}}

Members(list) == {list[i] : i \in DOMAIN list}

Distinct(list) == \A i, j \in DOMAIN list : list[i] = list[j] => i = j

Waiting(R, s) == Members(R.current) \union Members(R.next) \union On(s, "complete")

StackGood(s) == s \in Seq(Calls) /\ Ranked(s)

Plays(P) == {r \in DOMAIN P : P[r].index # NotPlaying}

(* The counters count. *)
CountsGood(R, P, s) ==
  /\ R = [master |-> R.master, current |-> R.current, next |-> R.next, active |-> R.active,
          deliveries |-> R.deliveries, index |-> R.index, closed |-> R.closed,
          replicas |-> R.replicas]
  /\ R.deliveries \in Nat /\ R.index \in {0, 1} /\ R.closed \in BOOLEAN
  /\ DOMAIN P \subseteq Replicas /\ IsFiniteSet(DOMAIN P)
  /\ P \in [DOMAIN P -> ReplicaType]
  /\ R.active = Cardinality(Plays(P))
  /\ R.replicas = Cardinality(DOMAIN P) + (IF On(s, "removed") = {} THEN 0 ELSE 1)

(* A replica stands in one place when it waits, and in none otherwise. *)
PlacesGood(R, P, s) ==
  /\ R.current \in Seq(Replicas) /\ Distinct(R.current)
  /\ R.next \in Seq(Replicas) /\ Distinct(R.next)
  /\ Members(R.current) \intersect Members(R.next) = {}
  /\ On(s, "complete") \intersect (Members(R.current) \union Members(R.next)) = {}
  /\ R.master \notin Waiting(R, s)
  /\ R.master \in DOMAIN P \union {None}
  /\ Waiting(R, s) \subseteq DOMAIN P
  /\ \A r \in DOMAIN P : P[r].waits <=> r = R.master \/ r \in Waiting(R, s)

(* A reader that is called in the middle of a delivery has got the frame. *)
GivenGood(R, P, s) ==
  On(s, "deliver") # {} => \A r \in On(s, "reader") : r \in DOMAIN P /\ P[r].index = 1 - R.index

(* The index tells which frame a replica waits for, or has got. *)
IndexesGood(R, P, s) ==
  /\ \A r \in DOMAIN P : P[r].index = NotPlaying => ~P[r].waits /\ P[r].got = Older
  /\ \A r \in Members(R.current) : P[r].index = R.index
  /\ \A r \in Members(R.next) :
       P[r].index = IF On(s, "complete") = {} THEN 1 - R.index ELSE R.index
  /\ On(s, "complete") # {} => R.current = <<>> /\ R.deliveries = 0

(* What is in progress says what has been asked of the source. *)
SourceGood(R, a, s) ==
  /\ a \in BOOLEAN
  /\ a => R.master # None /\ ~R.closed
  /\ On(s, "source") # {} => a
  /\ On(s, "deliver") # {} => R.master # None /\ ~a /\ ~R.closed
  /\ On(s, "close") # {} => R.closed
  /\ R.closed /\ On(s, "close") = {} => R.master = None
  /\ On(s, "reader") # {} /\ On(s, "complete") # {} => R.closed

InHand(R, a) == R.master # None /\ ~a /\ ~R.closed

(* The frame that the master has in its buffer is the newest; whoever has it
   has toggled its index. *)
FramesGood(R, P, a, s) ==
  /\ InHand(R, a) => /\ P[R.master].buffer = 0 /\ P[R.master].got >= 1
                     /\ \A r \in DOMAIN P : P[r].got = 0 => P[r].index # R.index
                     /\ \A r \in On(s, "complete") : P[r].buffer >= 1
  /\ \A r \in On(s, "complete") : P[r].buffer < P[r].got /\ (a => P[r].buffer = 0)

Good(R, P, a, s) ==
  /\ StackGood(s)
  /\ CountsGood(R, P, s)
  /\ PlacesGood(R, P, s)
  /\ GivenGood(R, P, s)
  /\ IndexesGood(R, P, s)
  /\ SourceGood(R, a, s)
  /\ FramesGood(R, P, a, s)

IInv == Good(replicator, replica, asked, stack) /\ gone \in BOOLEAN /\ abandoned \in BOOLEAN

-----------------------------------------------------------------------------
(* The stack. *)

(* The stack t is s with the call c on top. *)
Pushed(s, c, t) ==
  /\ StackGood(t)
  /\ t # <<>> /\ Front(t) = s /\ Last(t) = c
  /\ Below(t, Rank(c.run) + 1)
  /\ \A f : On(t, f) = IF f = c.run THEN On(s, f) \union {c.on} ELSE On(s, f)

(* Ranks are from one to five. *)
LEMMA Ranks ==
  /\ \A f : Rank(f) \in 1..5
  /\ Rank("removed") = 1 /\ Rank("deactivated") = 2 /\ Rank("complete") = 3
  /\ Rank("deliver") = 4 /\ Rank("close") = 4 /\ Rank("source") = 5 /\ Rank("reader") = 5
  BY DEF Rank

(* Below a bound no function of that rank is in progress. *)
LEMMA NoneBelow ==
  ASSUME NEW s, NEW n \in Nat, Below(s, n), NEW f, Rank(f) >= n
  PROVE  On(s, f) = {}
<1>1. \A i \in DOMAIN s : s[i].run # f
  BY Ranks DEF Below
<1> QED BY <1>1 DEF On

(* A call to a function of a greater rank is one more on the stack. *)
LEMMA PushGood ==
  ASSUME NEW s, StackGood(s), NEW c \in Calls, Below(s, Rank(c.run))
  PROVE  Pushed(s, c, Append(s, c))
<1> PICK t : t = Append(s, c)
  OBVIOUS
<1> PICK n : n = Len(s)
  OBVIOUS
<1>1. n \in Nat /\ DOMAIN s = 1..n /\ s \in Seq(Calls)
  BY DEF StackGood
<1>2. /\ t \in Seq(Calls) /\ t # <<>> /\ DOMAIN t = 1..(n + 1) /\ Len(t) = n + 1
      /\ \A i \in 1..n : t[i] = s[i]
      /\ t[n + 1] = c
  BY <1>1, AppendProperties
<1>3. Front(t) = s /\ Last(t) = c
  <2>1. Front(t) = SubSeq(t, 1, n)
    BY <1>1, <1>2 DEF Front
  <2>2. Len(SubSeq(t, 1, n)) = n /\ \A i \in 1..n : SubSeq(t, 1, n)[i] = s[i]
    BY <1>1, <1>2
  <2>3. SubSeq(t, 1, n) \in Seq(Calls)
    BY <1>1, <1>2
  <2>4. SubSeq(t, 1, n) = s
    BY <1>1, <2>2, <2>3
  <2> QED BY <1>2, <2>1, <2>4 DEF Last
<1>4. \A i \in 1..n : Rank(s[i].run) < Rank(c.run)
  BY <1>1 DEF Below
<1>5. Ranked(t)
  BY <1>1, <1>2, <1>4 DEF Ranked, StackGood
<1>6. Below(t, Rank(c.run) + 1)
  BY <1>1, <1>2, <1>4, Ranks DEF Below
<1>7. ASSUME NEW f
      PROVE  On(t, f) = IF f = c.run THEN On(s, f) \union {c.on} ELSE On(s, f)
  <2>1. \A x : x \in On(t, f) <=> \E i \in 1..(n + 1) : t[i].run = f /\ x = t[i].on
    BY <1>2 DEF On
  <2>2. \A x : x \in On(s, f) <=> \E i \in 1..n : s[i].run = f /\ x = s[i].on
    BY <1>1 DEF On
  <2>3. \A x : x \in On(t, f) <=> x \in On(s, f) \/ (c.run = f /\ x = c.on)
    BY <2>1, <2>2, <1>1, <1>2
  <2> QED BY <2>3
<1> QED BY <1>2, <1>3, <1>5, <1>6, <1>7 DEF Pushed, StackGood

(* The call on top of a stack is one that was pushed. *)
LEMMA TopIsPushed ==
  ASSUME NEW s, StackGood(s), s # <<>>
  PROVE  /\ StackGood(Front(s)) /\ Last(s) \in Calls
         /\ Below(Front(s), Rank(Last(s).run))
         /\ Pushed(Front(s), Last(s), s)
<1> PICK n : n = Len(s)
  OBVIOUS
<1> PICK t : t = Front(s)
  OBVIOUS
<1> PICK c : c = Last(s)
  OBVIOUS
<1>1. n \in Nat \ {0} /\ DOMAIN s = 1..n /\ s \in Seq(Calls)
  BY DEF StackGood
<1>2. /\ t \in Seq(Calls) /\ Len(t) = n - 1 /\ DOMAIN t = 1..(n - 1)
      /\ \A i \in 1..(n - 1) : t[i] = s[i]
  <2>1. t = SubSeq(s, 1, n - 1)
    BY DEF Front
  <2> QED BY <1>1, <2>1
<1>3. c \in Calls /\ c = s[n]
  BY <1>1 DEF Last
<1>4. \A i \in 1..(n - 1) : Rank(t[i].run) < Rank(c.run)
  BY <1>1, <1>2, <1>3 DEF Ranked, StackGood
<1>5. StackGood(t) /\ Below(t, Rank(c.run))
  BY <1>1, <1>2, <1>4 DEF Ranked, StackGood, Below
<1>6. Pushed(t, c, Append(t, c))
  BY <1>3, <1>5, PushGood
<1>7. Append(t, c) = s
  <2>1. /\ Append(t, c) \in Seq(Calls) /\ Len(Append(t, c)) = n
        /\ \A i \in 1..n : Append(t, c)[i] = s[i]
    BY <1>1, <1>2, <1>3
  <2> QED BY <1>1, <2>1
<1> QED BY <1>3, <1>5, <1>6, <1>7

-----------------------------------------------------------------------------
(* The lists. *)

(* The replicas of a list, in which each stands once, are those of A. *)
Lists(list, A) == list \in Seq(Replicas) /\ Distinct(list) /\ Members(list) = A

(* A list is empty when it has no members. *)
LEMMA EmptyList ==
  ASSUME NEW list \in Seq(Replicas)
  PROVE  list = <<>> <=> Members(list) = {}
<1>1. ASSUME list # <<>>
      PROVE  Members(list) # {}
  <2>1. 1 \in DOMAIN list
    BY <1>1
  <2> QED BY <2>1 DEF Members
<1> QED BY <1>1 DEF Members

(* A replica is put in front. *)
LEMMA Prepended ==
  ASSUME NEW list \in Seq(Replicas), Distinct(list), NEW r \in Replicas \ Members(list)
  PROVE  Lists(<<r>> \o list, Members(list) \union {r})
<1> PICK t : t = <<r>> \o list
  OBVIOUS
<1> PICK n : n = Len(list)
  OBVIOUS
<1>1. n \in Nat /\ DOMAIN list = 1..n
  OBVIOUS
<1>2. t \in Seq(Replicas) /\ DOMAIN t = 1..(n + 1) /\ Len(t) = n + 1
  BY <1>1
<1>3. t[1] = r /\ \A i \in 2..(n + 1) : t[i] = list[i - 1]
  BY <1>1, <1>2
<1>4. \A i \in 1..n : list[i] # r
  BY <1>1 DEF Members
<1>5. Distinct(t)
  <2>1. ASSUME NEW i \in 2..(n + 1), NEW j \in 2..(n + 1), t[i] = t[j]
        PROVE  i = j
    <3>1. list[i - 1] = list[j - 1] /\ i - 1 \in 1..n /\ j - 1 \in 1..n
      BY <1>1, <1>3, <2>1
    <3>2. i - 1 = j - 1
      BY <1>1, <3>1 DEF Distinct
    <3> QED BY <1>1, <3>2
  <2>2. \A i \in 2..(n + 1) : t[i] # r
    BY <1>1, <1>3, <1>4
  <2> QED BY <1>1, <1>2, <1>3, <2>1, <2>2 DEF Distinct
<1>6. Members(t) = Members(list) \union {r}
  <2>1. ASSUME NEW x
        PROVE  (\E i \in 1..(n + 1) : x = t[i]) <=> (x = r \/ \E i \in 1..n : x = list[i])
    <3>1. ASSUME NEW i \in 1..n, x = list[i]
          PROVE  \E j \in 1..(n + 1) : x = t[j]
      <4>1. i + 1 \in 2..(n + 1) /\ (i + 1) - 1 = i
        BY <1>1
      <4>2. t[i + 1] = list[i]
        BY <1>3, <4>1
      <4> QED BY <1>1, <3>1, <4>1, <4>2
    <3>2. ASSUME NEW i \in 1..(n + 1), x = t[i], x # r
          PROVE  \E j \in 1..n : x = list[j]
      <4>1. i \in 2..(n + 1)
        BY <1>1, <1>3, <3>2
      <4> QED BY <1>1, <1>3, <3>2, <4>1
    <3>3. 1 \in 1..(n + 1) /\ t[1] = r
      BY <1>1, <1>3
    <3> QED BY <3>1, <3>2, <3>3
  <2>2. \A x : x \in Members(t) <=> \E i \in 1..(n + 1) : x = t[i]
    BY <1>2 DEF Members
  <2>3. \A x : x \in Members(list) <=> \E i \in 1..n : x = list[i]
    BY <1>1 DEF Members
  <2>4. \A x : x \in Members(t) <=> x = r \/ x \in Members(list)
    BY <2>1, <2>2, <2>3
  <2> QED BY ONLY <2>4
<1> QED BY <1>2, <1>5, <1>6 DEF Lists

(* The list t of length n - 1 is the list of length n without its entry at i. *)
Without(t, list, n, i) ==
  /\ n \in Nat /\ i \in 1..n /\ DOMAIN list = 1..n /\ DOMAIN t = 1..(n - 1)
  /\ \A k \in 1..(i - 1) : t[k] = list[k]
  /\ \A k \in i..(n - 1) : t[k] = list[k + 1]

(* It has the other members. *)
LEMMA Shifted ==
  ASSUME NEW list, Distinct(list), NEW n, NEW i, NEW t, Without(t, list, n, i)
  PROVE  Distinct(t) /\ Members(t) = Members(list) \ {list[i]}
<1>0. /\ n \in Nat /\ i \in 1..n /\ DOMAIN list = 1..n /\ DOMAIN t = 1..(n - 1)
      /\ \A k \in 1..(i - 1) : t[k] = list[k]
      /\ \A k \in i..(n - 1) : t[k] = list[k + 1]
  BY DEF Without
<1> DEFINE from(k) == IF k < i THEN k ELSE k + 1
           to(j)   == IF j < i THEN j ELSE j - 1
<1>1. ASSUME NEW k \in 1..(n - 1)
      PROVE  from(k) \in 1..n /\ from(k) # i /\ t[k] = list[from(k)]
  <2>1. CASE k < i
    BY <1>0, <2>1
  <2>2. CASE k >= i
    BY <1>0, <2>2
  <2> QED BY <1>0, <2>1, <2>2
<1>2. ASSUME NEW j \in 1..n, j # i
      PROVE  to(j) \in 1..(n - 1) /\ from(to(j)) = j
  <2>1. CASE j < i
    BY <1>0, <2>1
  <2>2. CASE j > i
    BY <1>0, <2>2
  <2> QED BY <1>0, <1>2, <2>1, <2>2
<1>3. \A j, k \in 1..(n - 1) : from(j) = from(k) => j = k
  BY <1>0
<1> HIDE DEF from, to
<1>4. Distinct(t)
  BY <1>0, <1>1, <1>3 DEF Distinct
<1>5. \A x : x \in Members(t) <=> \E k \in 1..(n - 1) : x = t[k]
  BY <1>0 DEF Members
<1>6. \A x : x \in Members(list) <=> \E j \in 1..n : x = list[j]
  BY <1>0 DEF Members
<1>7. \A j \in 1..n : list[j] = list[i] <=> j = i
  BY <1>0 DEF Distinct
<1>8. \A x : x \in Members(t) => x \in Members(list) /\ x # list[i]
  BY <1>0, <1>1, <1>5, <1>6, <1>7
<1>9. \A x : x \in Members(list) /\ x # list[i] => x \in Members(t)
  <2>1. ASSUME NEW j \in 1..n, j # i
        PROVE  list[j] = t[to(j)] /\ to(j) \in 1..(n - 1)
    BY <1>1, <1>2, <2>1
  <2> QED BY <1>5, <1>6, <2>1
<1>10. \A x : x \in Members(t) <=> x \in Members(list) \ {list[i]}
  BY <1>8, <1>9
<1> QED BY ONLY <1>4, <1>10

(* The entry at i is taken out. *)
LEMMA Removes ==
  ASSUME NEW list \in Seq(Replicas), Distinct(list), NEW i \in DOMAIN list
  PROVE  Lists(RemoveAt(list, i), Members(list) \ {list[i]})
<1>1. PICK n : n = Len(list)
  OBVIOUS
<1>2. n \in Nat /\ DOMAIN list = 1..n /\ i \in 1..n
  BY <1>1
<1>3. PICK s1, s2 : s1 = SubSeq(list, 1, i - 1) /\ s2 = SubSeq(list, i + 1, n)
  OBVIOUS
<1>4. PICK t : t = RemoveAt(list, i)
  OBVIOUS
<1>5. /\ s1 \in Seq(Replicas) /\ Len(s1) = i - 1
      /\ \A k \in 1..(i - 1) : s1[k] = list[k]
  BY <1>2, <1>3
<1>6. /\ s2 \in Seq(Replicas) /\ Len(s2) = n - i
      /\ \A k \in 1..(n - i) : s2[k] = list[k + i]
  <2>1. \A k \in (i + 1)..n : list[k] \in Replicas
    BY <1>2
  <2>2. /\ s2 \in Seq(Replicas)
        /\ Len(s2) = IF i + 1 <= n THEN n - (i + 1) + 1 ELSE 0
        /\ \A k \in 1..(n - (i + 1) + 1) : s2[k] = list[(i + 1) + k - 1]
    BY <1>2, <1>3, <2>1, SubSeqProperties
  <2>3. n - (i + 1) + 1 = n - i /\ (i + 1 <= n \/ n - i = 0)
    BY ONLY <1>2
  <2>4. ASSUME NEW k \in 1..(n - i)
        PROVE  s2[k] = list[k + i]
    <3>1. (i + 1) + k - 1 = k + i
      BY ONLY <1>2, k \in 1..(n - i)
    <3> QED BY ONLY <2>2, <2>3, <3>1, k \in 1..(n - i)
  <2> QED BY ONLY <1>2, <2>2, <2>3, <2>4
<1>7. t = s1 \o s2
  BY <1>1, <1>3, <1>4 DEF RemoveAt
<1>8. t \in Seq(Replicas) /\ Len(t) = n - 1 /\ DOMAIN t = 1..(n - 1)
  <2>1. t \in Seq(Replicas) /\ Len(t) = Len(s1) + Len(s2)
    BY ONLY <1>5, <1>6, <1>7, ConcatProperties
  <2> QED BY ONLY <1>2, <1>5, <1>6, <2>1
<1>9. \A k \in 1..(n - 1) : t[k] = IF k <= i - 1 THEN s1[k] ELSE s2[k - (i - 1)]
  <2>1. \A k \in 1..(Len(s1) + Len(s2)) :
          (s1 \o s2)[k] = IF k <= Len(s1) THEN s1[k] ELSE s2[k - Len(s1)]
    <3>1. s1 \in Seq(Replicas) /\ s2 \in Seq(Replicas)
      BY ONLY <1>5, <1>6
    <3> QED BY ONLY <3>1
  <2>2. Len(s1) + Len(s2) = n - 1
    BY ONLY <1>2, <1>5, <1>6
  <2> QED BY ONLY <1>5, <1>7, <2>1, <2>2
<1>10. \A k \in 1..(i - 1) : t[k] = list[k]
  BY ONLY <1>2, <1>5, <1>9
<1>11. ASSUME NEW k \in i..(n - 1)
       PROVE  t[k] = list[k + 1]
  <2>1. k \in 1..(n - 1) /\ ~(k <= i - 1) /\ k - (i - 1) \in 1..(n - i)
    BY ONLY <1>2, k \in i..(n - 1)
  <2>2. t[k] = s2[k - (i - 1)] /\ s2[k - (i - 1)] = list[k - (i - 1) + i]
    BY ONLY <1>6, <1>9, <2>1
  <2>3. k - (i - 1) + i = k + 1
    BY ONLY <1>2, <2>1
  <2> QED BY ONLY <2>2, <2>3
<1>12. Distinct(t) /\ Members(t) = Members(list) \ {list[i]}
  <2>1. Without(t, list, n, i)
    BY ONLY <1>2, <1>8, <1>10, <1>11 DEF Without
  <2> QED BY <2>1, Shifted
<1> QED BY <1>4, <1>8, <1>12 DEF Lists

(* A replica is taken out, wherever it stands. *)
LEMMA Dropped ==
  ASSUME NEW list \in Seq(Replicas), Distinct(list), NEW r
  PROVE  Lists(Drop(list, r), Members(list) \ {r})
<1>1. CASE \E i \in DOMAIN list : list[i] = r
  <2>1. PICK k : k = CHOOSE i \in DOMAIN list : list[i] = r
    OBVIOUS
  <2>2. k \in DOMAIN list /\ list[k] = r
    BY <1>1, <2>1
  <2>3. Drop(list, r) = RemoveAt(list, k)
    BY <1>1, <2>1 DEF Drop
  <2> QED BY <2>2, <2>3, Removes
<1>2. CASE ~\E i \in DOMAIN list : list[i] = r
  <2>1. Drop(list, r) = list /\ r \notin Members(list)
    BY <1>2 DEF Drop, Members
  <2>2. Members(list) \ {r} = Members(list)
    BY <2>1
  <2> QED BY <2>1, <2>2 DEF Lists
<1> QED BY <1>1, <1>2

(* The first one is taken out. *)
LEMMA Shortened ==
  ASSUME NEW list \in Seq(Replicas), Distinct(list), list # <<>>
  PROVE  /\ Head(list) \in Members(list)
         /\ Lists(Tail(list), Members(list) \ {Head(list)})
<1>1. Len(list) \in Nat \ {0} /\ 1 \in DOMAIN list
  OBVIOUS
<1>2. Head(list) = list[1]
  OBVIOUS
<1>3. Tail(list) = RemoveAt(list, 1)
  <2>1. Tail(list) = SubSeq(list, 2, Len(list))
    BY TailIsSubSeq
  <2>2. SubSeq(list, 2, Len(list)) \in Seq(Replicas)
    BY <2>1
  <2>3. SubSeq(list, 1, 1 - 1) = <<>>
    BY SubSeqEmpty
  <2>4. <<>> \o SubSeq(list, 2, Len(list)) = SubSeq(list, 2, Len(list))
    BY <2>2, ConcatEmptySeq
  <2> QED BY <1>1, <2>1, <2>3, <2>4 DEF RemoveAt
<1> QED BY <1>1, <1>2, <1>3, Removes DEF Members

-----------------------------------------------------------------------------
(* Calls that are made and that return. *)

(* The same functions that the state depends on are in progress. *)
Alike(s, t) == \A f \in {"removed", "complete", "close"} : On(t, f) = On(s, f)

(* Only what is in progress differs. *)
LEMMA AlikeGood ==
  ASSUME NEW R, NEW P, NEW a, NEW s, NEW t, Good(R, P, a, s), Alike(s, t),
         StackGood(t), SourceGood(R, a, t), GivenGood(R, P, t)
  PROVE  Good(R, P, a, t)
<1>1. On(t, "removed") = On(s, "removed") /\ On(t, "complete") = On(s, "complete")
  BY DEF Alike
<1>2. Waiting(R, t) = Waiting(R, s)
  BY <1>1 DEF Waiting
<1>3. CountsGood(R, P, t)
  BY <1>1 DEF Good, CountsGood
<1>4. PlacesGood(R, P, t)
  BY <1>1, <1>2 DEF Good, PlacesGood
<1>5. IndexesGood(R, P, t)
  BY <1>1 DEF Good, IndexesGood
<1>6. FramesGood(R, P, a, t)
  BY <1>1 DEF Good, FramesGood
<1> QED BY <1>3, <1>4, <1>5, <1>6 DEF Good

(* The caller of a function that has nothing to tell when it returns. *)
LEMMA PopGood ==
  ASSUME NEW R, NEW P, NEW a, NEW s, Good(R, P, a, s), s # <<>>,
         Last(s).run \in {"reader", "source", "deliver", "deactivated"}
  PROVE  Good(R, P, a, Front(s)) /\ Below(Front(s), Rank(Last(s).run))
<1> PICK t : t = Front(s)
  OBVIOUS
<1> PICK c : c = Last(s)
  OBVIOUS
<1>1. StackGood(t) /\ Below(t, Rank(c.run)) /\ Pushed(t, c, s)
  BY TopIsPushed DEF Good
<1>2. \A f : On(s, f) = IF f = c.run THEN On(t, f) \union {c.on} ELSE On(t, f)
  BY <1>1 DEF Pushed
<1>3. Alike(s, t)
  BY <1>2 DEF Alike
<1>4. \A f : On(t, f) \subseteq On(s, f)
  BY <1>2
<1>5. SourceGood(R, a, t)
  <2>1. On(t, "close") = On(s, "close") /\ On(t, "complete") = On(s, "complete")
    BY <1>3 DEF Alike
  <2> QED BY <1>4, <2>1 DEF Good, SourceGood
<1>6. GivenGood(R, P, t)
  BY <1>4 DEF Good, GivenGood
<1> QED BY <1>1, <1>3, <1>5, <1>6, AlikeGood

(* A call that is made in a state where it may be. *)
LEMMA CallGood ==
  ASSUME NEW R, NEW P, NEW a, NEW s, Good(R, P, a, s), NEW c \in Calls,
         c.run \notin {"removed", "complete", "close"}, Below(s, Rank(c.run)),
         SourceGood(R, a, Append(s, c)), GivenGood(R, P, Append(s, c))
  PROVE  Good(R, P, a, Append(s, c))
<1>1. Pushed(s, c, Append(s, c))
  BY PushGood DEF Good
<1>2. Alike(s, Append(s, c)) /\ StackGood(Append(s, c))
  BY <1>1 DEF Pushed, Alike
<1> QED BY <1>2, AlikeGood

(* A reader is called. *)
LEMMA ReaderCalled ==
  ASSUME NEW R, NEW P, NEW a, NEW s, Good(R, P, a, s), Below(s, 5),
         NEW r \in Replicas \union {None},
         On(s, "deliver") # {} => r \in DOMAIN P /\ P[r].index = 1 - R.index,
         On(s, "complete") # {} => R.closed
  PROVE  Good(R, P, a, Append(s, Reader(r)))
<1> PICK c : c = Reader(r)
  OBVIOUS
<1> PICK t : t = Append(s, c)
  OBVIOUS
<1>1. c \in Calls /\ c.run = "reader" /\ c.on = r
  BY DEF Reader, Calls, Functions
<1>2. Pushed(s, c, t)
  BY <1>1, Ranks, PushGood DEF Good
<1>3. \A f : On(t, f) = IF f = "reader" THEN On(s, f) \union {r} ELSE On(s, f)
  BY <1>1, <1>2 DEF Pushed
<1>4. /\ On(t, "source") = On(s, "source") /\ On(t, "deliver") = On(s, "deliver")
      /\ On(t, "close") = On(s, "close") /\ On(t, "complete") = On(s, "complete")
      /\ On(t, "reader") = On(s, "reader") \union {r}
  BY <1>3
<1>5. SourceGood(R, a, t)
  BY <1>4 DEF Good, SourceGood
<1>6. GivenGood(R, P, t)
  BY <1>4 DEF Good, GivenGood
<1> QED BY <1>1, <1>5, <1>6, Ranks, CallGood

(* The source is read. *)
LEMMA SourceCalled ==
  ASSUME NEW R, NEW P, NEW s, Good(R, P, TRUE, s), Below(s, 5)
  PROVE  Good(R, P, TRUE, Append(s, Call("source")))
<1> PICK c : c = Call("source")
  OBVIOUS
<1> PICK t : t = Append(s, c)
  OBVIOUS
<1>1. c \in Calls /\ c.run = "source" /\ c.on = None
  BY DEF Call, Calls, Functions
<1>2. Pushed(s, c, t)
  BY <1>1, Ranks, PushGood DEF Good
<1>3. \A f : On(t, f) = IF f = "source" THEN On(s, f) \union {None} ELSE On(s, f)
  BY <1>1, <1>2 DEF Pushed
<1>4. /\ On(t, "deliver") = On(s, "deliver") /\ On(t, "reader") = On(s, "reader")
      /\ On(t, "close") = On(s, "close") /\ On(t, "complete") = On(s, "complete")
  BY <1>3
<1>5. SourceGood(R, TRUE, t)
  BY <1>4 DEF Good, SourceGood
<1>6. GivenGood(R, P, t)
  BY <1>4 DEF Good, GivenGood
<1> QED BY <1>1, <1>5, <1>6, Ranks, CallGood

(* A frame is delivered. *)
LEMMA DeliverCalled ==
  ASSUME NEW R, NEW P, NEW a, NEW s, Good(R, P, a, s), Below(s, 4), InHand(R, a)
  PROVE  Good(R, P, a, Append(s, Call("deliver")))
<1> PICK c : c = Call("deliver")
  OBVIOUS
<1> PICK t : t = Append(s, c)
  OBVIOUS
<1>1. c \in Calls /\ c.run = "deliver" /\ c.on = None
  BY DEF Call, Calls, Functions
<1>2. Pushed(s, c, t)
  BY <1>1, Ranks, PushGood DEF Good
<1>3. \A f : On(t, f) = IF f = "deliver" THEN On(s, f) \union {None} ELSE On(s, f)
  BY <1>1, <1>2 DEF Pushed
<1>4. /\ On(t, "source") = On(s, "source") /\ On(t, "reader") = On(s, "reader")
      /\ On(t, "close") = On(s, "close") /\ On(t, "complete") = On(s, "complete")
  BY <1>3
<1>5. SourceGood(R, a, t)
  BY <1>4 DEF Good, SourceGood, InHand
<1>6. On(t, "reader") = {}
  BY <1>4, Ranks, NoneBelow
<1>7. GivenGood(R, P, t)
  BY <1>6 DEF GivenGood
<1> QED BY <1>1, <1>5, <1>7, Ranks, CallGood

(* The rest of deactivateStreamReplica is left to do. *)
LEMMA DeactivateCalled ==
  ASSUME NEW R, NEW P, NEW a, NEW s, Good(R, P, a, s), Below(s, 2)
  PROVE  /\ Good(R, P, a, Append(s, Call("deactivated")))
         /\ Below(Append(s, Call("deactivated")), 3)
<1> PICK c : c = Call("deactivated")
  OBVIOUS
<1> PICK t : t = Append(s, c)
  OBVIOUS
<1>1. c \in Calls /\ c.run = "deactivated" /\ c.on = None
  BY DEF Call, Calls, Functions
<1>2. Pushed(s, c, t)
  BY <1>1, Ranks, PushGood DEF Good
<1>3. \A f : On(t, f) = IF f = "deactivated" THEN On(s, f) \union {None} ELSE On(s, f)
  BY <1>1, <1>2 DEF Pushed
<1>4. /\ On(t, "source") = On(s, "source") /\ On(t, "reader") = On(s, "reader")
      /\ On(t, "deliver") = On(s, "deliver")
      /\ On(t, "close") = On(s, "close") /\ On(t, "complete") = On(s, "complete")
  BY <1>3
<1>5. SourceGood(R, a, t) /\ GivenGood(R, P, t)
  BY <1>4 DEF Good, SourceGood, GivenGood
<1>6. Below(t, 3)
  BY <1>1, <1>2, Ranks DEF Pushed
<1> QED BY <1>1, <1>5, <1>6, Ranks, CallGood

(* A bound may be raised. *)
LEMMA BelowMore ==
  ASSUME NEW s, NEW m \in Nat, NEW n \in Nat, Below(s, m), m <= n
  PROVE  Below(s, n)
  BY Ranks DEF Below

(* A bound may be lowered when no function of that rank is in progress. *)
LEMMA BelowLess ==
  ASSUME NEW s, StackGood(s)
  PROVE  /\ Below(s, 5) /\ On(s, "deliver") = {} /\ On(s, "close") = {} => Below(s, 4)
         /\ Below(s, 4) /\ On(s, "complete") = {} => Below(s, 3)
<1>1. \A i \in DOMAIN s : s[i] \in Calls
  BY DEF StackGood
<1>2. \A i \in DOMAIN s : s[i].run \in Functions
  BY <1>1 DEF Calls
<1>3. \A f : On(s, f) = {} => \A i \in DOMAIN s : s[i].run # f
  BY DEF On
<1>4. \A f \in Functions : Rank(f) < 5 /\ f \notin {"deliver", "close"} => Rank(f) < 4
  BY DEF Rank, Functions
<1>5. \A f \in Functions : Rank(f) < 4 /\ f # "complete" => Rank(f) < 3
  BY DEF Rank, Functions
<1>6. ASSUME Below(s, 5), On(s, "deliver") = {}, On(s, "close") = {}
      PROVE  Below(s, 4)
  BY <1>2, <1>3, <1>4, <1>6 DEF Below
<1>7. ASSUME Below(s, 4), On(s, "complete") = {}
      PROVE  Below(s, 3)
  BY <1>2, <1>3, <1>5, <1>7 DEF Below
<1> QED BY <1>6, <1>7

-----------------------------------------------------------------------------
(* Requests. *)

(* Only r changes. *)
Changed(P, Q, r) == DOMAIN Q = DOMAIN P /\ \A x \in DOMAIN P \ {r} : Q[x] = P[x]

(* Those that play are counted when r begins to, or goes on. *)
LEMMA OnePlays ==
  ASSUME NEW P, IsFiniteSet(DOMAIN P), NEW r \in DOMAIN P, NEW Q, Changed(P, Q, r),
         Q[r].index # NotPlaying
  PROVE  /\ Cardinality(Plays(P)) \in Nat
         /\ Cardinality(Plays(Q))
              = IF P[r].index = NotPlaying THEN Cardinality(Plays(P)) + 1 ELSE Cardinality(Plays(P))
<1>2. Plays(Q) = Plays(P) \union {r}
  BY DEF Plays, Changed
<1>3. Plays(P) \subseteq DOMAIN P /\ IsFiniteSet(Plays(P))
  BY FS_Subset DEF Plays
<1>4. /\ Cardinality(Plays(P)) \in Nat
      /\ Cardinality(Plays(P) \union {r})
           = IF r \in Plays(P) THEN Cardinality(Plays(P)) ELSE Cardinality(Plays(P)) + 1
  BY <1>3, FS_AddElement, FS_CardinalityType
<1>5. r \in Plays(P) <=> P[r].index # NotPlaying
  BY DEF Plays
<1> QED BY <1>2, <1>4, <1>5

(* The replicator and the replicas when r has asked, but for where it stands. *)
Asked(R, P, r, R2, P2) ==
  /\ P2 \in [DOMAIN P -> ReplicaType] /\ Changed(P, P2, r)
  /\ P2[r].index = IF P[r].index = NotPlaying THEN R.index ELSE P[r].index
  /\ P2[r].waits /\ P2[r].buffer = P[r].buffer /\ P2[r].got = P[r].got
  /\ R2 = [master |-> R2.master, current |-> R2.current, next |-> R2.next, active |-> R2.active,
           deliveries |-> R.deliveries, index |-> R.index, closed |-> R.closed,
           replicas |-> R.replicas]
  /\ R2.active = Cardinality(Plays(P2))

(* A replica that asks is activated if it was not. *)
LEMMA Asks ==
  ASSUME NEW r \in Alive, NEW callers, Good(replicator, replica, asked, callers),
         GetNextFrame(r, callers), ~replicator.closed
  PROVE  Asked(replicator, replica, r, replicator', replica')
<1> PICK R2, P2 : R2 = replicator' /\ P2 = replica'
  OBVIOUS
<1>1. P2 = [replica EXCEPT ![r].index = IndexOf(r), ![r].waits = TRUE]
  BY DEF GetNextFrame
<1>2. /\ replica \in [DOMAIN replica -> ReplicaType] /\ r \in DOMAIN replica
      /\ IsFiniteSet(DOMAIN replica) /\ replicator.index \in {0, 1}
      /\ replicator.active = Cardinality(Plays(replica))
      /\ replicator = [master |-> replicator.master, current |-> replicator.current,
                       next |-> replicator.next, active |-> replicator.active,
                       deliveries |-> replicator.deliveries, index |-> replicator.index,
                       closed |-> replicator.closed, replicas |-> replicator.replicas]
  BY DEF Good, CountsGood, Alive
<1>3. PICK i : i = IndexOf(r)
  OBVIOUS
<1>4. /\ i = IF replica[r].index = NotPlaying THEN replicator.index ELSE replica[r].index
      /\ i \in {0, 1}
  BY <1>2, <1>3 DEF IndexOf, ReplicaType, NotPlaying
<1>5. P2 \in [DOMAIN replica -> ReplicaType] /\ Changed(replica, P2, r)
  BY <1>1, <1>2, <1>3, <1>4 DEF ReplicaType, Changed
<1>6. P2[r].index = i /\ P2[r].waits /\ P2[r].buffer = replica[r].buffer /\ P2[r].got = replica[r].got
  BY <1>1, <1>2, <1>3 DEF ReplicaType
<1>7. Cardinality(Plays(P2)) = IF replica[r].index = NotPlaying THEN replicator.active + 1
                                                                ELSE replicator.active
  BY <1>2, <1>4, <1>5, <1>6, OnePlays DEF NotPlaying
<1>8. /\ R2 = [master |-> R2.master, current |-> R2.current, next |-> R2.next, active |-> R2.active,
               deliveries |-> replicator.deliveries, index |-> replicator.index,
               closed |-> replicator.closed, replicas |-> replicator.replicas]
      /\ R2.active = IF replica[r].index = NotPlaying THEN replicator.active + 1
                                                      ELSE replicator.active
  <2> PICK A : A = Activated(r)
    OBVIOUS
  <2>1. /\ A = [master |-> replicator.master, current |-> replicator.current,
                next |-> replicator.next, active |-> A.active,
                deliveries |-> replicator.deliveries, index |-> replicator.index,
                closed |-> replicator.closed, replicas |-> replicator.replicas]
        /\ A.active = IF replica[r].index = NotPlaying THEN replicator.active + 1
                                                       ELSE replicator.active
    BY <1>2 DEF Activated
  <2>2. \/ R2 = [A EXCEPT !.master = r]
        \/ R2 = [A EXCEPT !.next = <<r>> \o @]
        \/ R2 = [A EXCEPT !.current = <<r>> \o @]
    BY DEF GetNextFrame, BecomeMaster, AwaitNextFrame, AwaitCurrentFrame
  <2> QED BY <2>1, <2>2
<1> QED BY <1>4, <1>5, <1>6, <1>7, <1>8 DEF Asked

(* What holds of the others, and of r, whatever it waits for. *)
LEMMA AskedKeeps ==
  ASSUME NEW R, NEW P, NEW a, NEW s, Good(R, P, a, s), Below(s, 5), NEW r \in DOMAIN P,
         ~P[r].waits, ~R.closed, NEW R2, NEW P2, Asked(R, P, r, R2, P2)
  PROVE  /\ CountsGood(R2, P2, s) /\ GivenGood(R2, P2, s) /\ StackGood(s)
         /\ DOMAIN P2 = DOMAIN P /\ R2.index = R.index /\ R2.deliveries = R.deliveries
         /\ R2.closed = R.closed
         /\ r \in Replicas \ Waiting(R, s) /\ r # R.master /\ r # None
         /\ \A x \in DOMAIN P \ {r} : P2[x] = P[x]
         /\ P2[r].waits /\ P2[r].index \in {0, 1}
         /\ P2[r].index = IF P[r].index = NotPlaying THEN R.index ELSE P[r].index
         /\ P2[r].got = P[r].got /\ (P2[r].got = 0 => P[r].index = P2[r].index)
<1>1. /\ DOMAIN P2 = DOMAIN P /\ R2.index = R.index /\ R2.deliveries = R.deliveries
      /\ R2.closed = R.closed /\ R2.replicas = R.replicas
      /\ \A x \in DOMAIN P \ {r} : P2[x] = P[x]
      /\ P2[r].waits
  BY DEF Asked, Changed
<1>2. CountsGood(R2, P2, s)
  BY <1>1 DEF Good, CountsGood, Asked
<1>3. GivenGood(R2, P2, s)
  <2>1. On(s, "reader") = {}
    BY Ranks, NoneBelow
  <2> QED BY <2>1 DEF GivenGood
<1>4. /\ r \in Replicas \ Waiting(R, s) /\ r # R.master /\ r # None
  BY NoneAssumption DEF Good, PlacesGood, CountsGood
<1>5. P2[r].index = IF P[r].index = NotPlaying THEN R.index ELSE P[r].index
  BY DEF Asked
<1>6. P2[r].index \in {0, 1}
  BY <1>5 DEF Good, CountsGood, ReplicaType, NotPlaying
<1>7. P2[r].got = P[r].got /\ (P2[r].got = 0 => P[r].index = P2[r].index)
  BY <1>5 DEF Good, IndexesGood, Asked, Older
<1> QED BY <1>1, <1>2, <1>3, <1>4, <1>5, <1>6, <1>7 DEF Good

(* The first to ask for the next frame is the master. *)
LEMMA BecomesMaster ==
  ASSUME NEW R, NEW P, NEW a, NEW s, Good(R, P, a, s), Below(s, 5), NEW r \in DOMAIN P,
         ~P[r].waits, ~R.closed, NEW R2, NEW P2, Asked(R, P, r, R2, P2),
         R.master = None, R2.master = r, R2.current = R.current, R2.next = R.next,
         On(s, "complete") # {} => R.closed
  PROVE  Good(R2, P2, TRUE, s)
<1>1. /\ CountsGood(R2, P2, s) /\ GivenGood(R2, P2, s) /\ StackGood(s)
      /\ DOMAIN P2 = DOMAIN P /\ R2.index = R.index /\ R2.deliveries = R.deliveries
      /\ R2.closed = R.closed
      /\ r \in Replicas \ Waiting(R, s) /\ r # None
      /\ \A x \in DOMAIN P \ {r} : P2[x] = P[x]
      /\ P2[r].waits /\ P2[r].index \in {0, 1}
  BY AskedKeeps
<1>2. Waiting(R2, s) = Waiting(R, s) /\ On(s, "complete") = {}
  BY DEF Waiting
<1>3. PlacesGood(R2, P2, s)
  <2>1. \A x \in DOMAIN P : x # None
    BY NoneAssumption DEF Good, CountsGood
  <2> QED BY <1>1, <1>2, <2>1 DEF Good, PlacesGood
<1>4. IndexesGood(R2, P2, s)
  <2>1. r \notin Members(R.current) /\ r \notin Members(R.next)
    BY <1>1 DEF Waiting
  <2>2. Members(R.current) \subseteq DOMAIN P /\ Members(R.next) \subseteq DOMAIN P
    BY DEF Good, PlacesGood, Waiting
  <2> QED BY <1>1, <1>2, <2>1, <2>2 DEF Good, IndexesGood, NotPlaying
<1>5. SourceGood(R2, TRUE, s)
  BY <1>1, <1>2 DEF Good, SourceGood
<1>6. FramesGood(R2, P2, TRUE, s)
  BY <1>2 DEF FramesGood, InHand
<1> QED BY <1>1, <1>3, <1>4, <1>5, <1>6 DEF Good

(* Who has got the current frame waits for the next one. *)
LEMMA WaitsForNext ==
  ASSUME NEW R, NEW P, NEW a, NEW s, Good(R, P, a, s), Below(s, 5), NEW r \in DOMAIN P,
         ~P[r].waits, ~R.closed, NEW R2, NEW P2, Asked(R, P, r, R2, P2),
         R.master # None, R2.master = R.master, R2.current = R.current, R2.next = <<r>> \o R.next,
         P2[r].index # R.index, On(s, "complete") # {} => R.closed
  PROVE  Good(R2, P2, a, s)
<1>1. /\ CountsGood(R2, P2, s) /\ GivenGood(R2, P2, s) /\ StackGood(s)
      /\ DOMAIN P2 = DOMAIN P /\ R2.index = R.index /\ R2.deliveries = R.deliveries
      /\ R2.closed = R.closed
      /\ r \in Replicas \ Waiting(R, s) /\ r # R.master /\ r # None
      /\ \A x \in DOMAIN P \ {r} : P2[x] = P[x]
      /\ P2[r].waits /\ P2[r].index \in {0, 1}
      /\ P2[r].got = P[r].got /\ (P2[r].got = 0 => P[r].index = P2[r].index)
  BY AskedKeeps
<1>2. On(s, "complete") = {}
  OBVIOUS
<1>3. r \notin Members(R.current) /\ r \notin Members(R.next)
  BY <1>1 DEF Waiting
<1>4. Lists(R2.next, Members(R.next) \union {r})
  BY <1>1, <1>3, Prepended DEF Good, PlacesGood
<1>5. R2.next \in Seq(Replicas) /\ Distinct(R2.next) /\ Members(R2.next) = Members(R.next) \union {r}
  BY <1>4 DEF Lists
<1>6. Waiting(R2, s) = Waiting(R, s) \union {r}
  BY <1>5 DEF Waiting
<1>7. PlacesGood(R2, P2, s)
  BY <1>1, <1>2, <1>3, <1>5, <1>6 DEF Good, PlacesGood
<1>8. IndexesGood(R2, P2, s)
  <2>1. Members(R.current) \subseteq DOMAIN P /\ Members(R.next) \subseteq DOMAIN P
    BY DEF Good, PlacesGood, Waiting
  <2>2. R.index \in {0, 1}
    BY DEF Good, CountsGood
  <2>3. P2[r].index = 1 - R.index
    BY ONLY <1>1, <2>2, P2[r].index # R.index
  <2>4. P2[r].index # NotPlaying
    BY <1>1 DEF NotPlaying
  <2>5. \A x \in Members(R2.next) : P2[x].index = 1 - R.index
    BY <1>1, <1>2, <1>3, <1>5, <2>1, <2>3 DEF Good, IndexesGood
  <2> QED BY <1>1, <1>2, <1>3, <2>1, <2>4, <2>5 DEF Good, IndexesGood
<1>9. SourceGood(R2, a, s)
  BY <1>1 DEF Good, SourceGood
<1>10. FramesGood(R2, P2, a, s)
  <2>1. R.master \in DOMAIN P
    BY DEF Good, PlacesGood
  <2> QED BY <1>1, <1>2, <2>1 DEF Good, FramesGood, InHand
<1> QED BY <1>1, <1>7, <1>8, <1>9, <1>10 DEF Good

(* Who has not got the current frame waits for it. *)
LEMMA WaitsForCurrent ==
  ASSUME NEW R, NEW P, NEW a, NEW s, Good(R, P, a, s), Below(s, 5), NEW r \in DOMAIN P,
         ~P[r].waits, ~R.closed, NEW R2, NEW P2, Asked(R, P, r, R2, P2),
         R.master # None, R2.master = R.master, R2.current = <<r>> \o R.current, R2.next = R.next,
         P2[r].index = R.index, On(s, "complete") # {} => R.closed
  PROVE  Good(R2, P2, a, s)
<1>1. /\ CountsGood(R2, P2, s) /\ GivenGood(R2, P2, s) /\ StackGood(s)
      /\ DOMAIN P2 = DOMAIN P /\ R2.index = R.index /\ R2.deliveries = R.deliveries
      /\ R2.closed = R.closed
      /\ r \in Replicas \ Waiting(R, s) /\ r # R.master /\ r # None
      /\ \A x \in DOMAIN P \ {r} : P2[x] = P[x]
      /\ P2[r].waits /\ P2[r].index \in {0, 1}
      /\ P2[r].got = P[r].got /\ (P2[r].got = 0 => P[r].index = P2[r].index)
  BY AskedKeeps
<1>2. On(s, "complete") = {}
  OBVIOUS
<1>3. r \notin Members(R.current) /\ r \notin Members(R.next)
  BY <1>1 DEF Waiting
<1>4. Lists(R2.current, Members(R.current) \union {r})
  BY <1>1, <1>3, Prepended DEF Good, PlacesGood
<1>5. /\ R2.current \in Seq(Replicas) /\ Distinct(R2.current)
      /\ Members(R2.current) = Members(R.current) \union {r}
  BY <1>4 DEF Lists
<1>6. Waiting(R2, s) = Waiting(R, s) \union {r}
  BY <1>5 DEF Waiting
<1>7. PlacesGood(R2, P2, s)
  BY <1>1, <1>2, <1>3, <1>5, <1>6 DEF Good, PlacesGood
<1>8. IndexesGood(R2, P2, s)
  <2>1. Members(R.current) \subseteq DOMAIN P /\ Members(R.next) \subseteq DOMAIN P
    BY DEF Good, PlacesGood, Waiting
  <2> QED BY <1>1, <1>2, <1>3, <1>5, <2>1 DEF Good, IndexesGood, NotPlaying
<1>9. SourceGood(R2, a, s)
  BY <1>1 DEF Good, SourceGood
<1>10. FramesGood(R2, P2, a, s)
  <2>1. R.master \in DOMAIN P
    BY DEF Good, PlacesGood
  <2> QED BY <1>1, <1>2, <2>1 DEF Good, FramesGood, InHand
<1> QED BY <1>1, <1>7, <1>8, <1>9, <1>10 DEF Good

(* A reader asks, by itself or when it is called. *)
LEMMA GetNextFrameKeeps ==
  ASSUME NEW r \in Alive, NEW callers, Good(replicator, replica, asked, callers),
         Below(callers, 5), GetNextFrame(r, callers),
         On(callers, "deliver") # {} => replica[r].index = 1 - replicator.index,
         On(callers, "complete") # {} => replicator.closed
  PROVE  Good(replicator', replica', asked', stack')
<1>1. CASE replicator.closed
  <2>1. /\ replicator' = replicator /\ replica' = replica /\ asked' = asked
        /\ stack' = Append(callers, Reader(r))
    BY <1>1 DEF GetNextFrame
  <2>2. r \in DOMAIN replica /\ r \in Replicas
    BY DEF Alive, Good, CountsGood
  <2>3. Good(replicator, replica, asked, Append(callers, Reader(r)))
    BY <2>2, ReaderCalled
  <2> QED BY <2>1, <2>3
<1>2. CASE ~replicator.closed
  <2>1. PICK R2, P2 : R2 = replicator' /\ P2 = replica'
    OBVIOUS
  <2>2. Asked(replicator, replica, r, R2, P2)
    BY <1>2, <2>1, Asks
  <2>3. r \in DOMAIN replica /\ ~replica[r].waits
    BY DEF Alive, GetNextFrame
  <2>4. /\ replicator = [master |-> replicator.master, current |-> replicator.current,
                         next |-> replicator.next, active |-> replicator.active,
                         deliveries |-> replicator.deliveries, index |-> replicator.index,
                         closed |-> replicator.closed, replicas |-> replicator.replicas]
        /\ replicator.index \in {0, 1}
    BY DEF Good, CountsGood
  <2>5. PICK A : A = Activated(r)
    OBVIOUS
  <2>6. A = [master |-> replicator.master, current |-> replicator.current,
             next |-> replicator.next, active |-> A.active,
             deliveries |-> replicator.deliveries, index |-> replicator.index,
             closed |-> replicator.closed, replicas |-> replicator.replicas]
    BY <2>4, <2>5 DEF Activated
  <2>7. P2[r].index = IndexOf(r)
    BY <2>2 DEF Asked, IndexOf
  <2>8. CASE BecomeMaster(r, callers)
    <3>1. /\ replicator.master = None /\ R2 = [A EXCEPT !.master = r]
          /\ asked' = TRUE /\ stack' = Append(callers, Call("source"))
      BY <2>1, <2>5, <2>8 DEF BecomeMaster
    <3>2. R2.master = r /\ R2.current = replicator.current /\ R2.next = replicator.next
      BY <2>6, <3>1
    <3>3. Good(R2, P2, TRUE, callers)
      BY <1>2, <2>2, <2>3, <3>1, <3>2, BecomesMaster
    <3>4. Good(R2, P2, TRUE, Append(callers, Call("source")))
      BY <3>3, SourceCalled
    <3> QED BY <2>1, <3>1, <3>4
  <2>9. CASE AwaitNextFrame(r, callers)
    <3>1. /\ replicator.master # None /\ IndexOf(r) # replicator.index
          /\ R2 = [A EXCEPT !.next = <<r>> \o @]
          /\ asked' = asked /\ stack' = callers
      BY <2>1, <2>5, <2>9 DEF AwaitNextFrame
    <3>2. /\ R2.master = replicator.master /\ R2.current = replicator.current
          /\ R2.next = <<r>> \o replicator.next
      BY <2>6, <3>1
    <3>3. Good(R2, P2, asked, callers)
      BY <1>2, <2>2, <2>3, <2>7, <3>1, <3>2, WaitsForNext
    <3> QED BY <2>1, <3>1, <3>3
  <2>10. CASE AwaitCurrentFrame(r, callers)
    <3>1. /\ replicator.master # None /\ IndexOf(r) = replicator.index
          /\ R2 = [A EXCEPT !.current = <<r>> \o @]
          /\ asked' = asked /\ stack' = DeliverIfRead(callers)
      BY <2>1, <2>5, <2>10 DEF AwaitCurrentFrame
    <3>2. /\ R2.master = replicator.master /\ R2.current = <<r>> \o replicator.current
          /\ R2.next = replicator.next /\ R2.closed = replicator.closed
      BY <2>6, <3>1
    <3>3. Good(R2, P2, asked, callers)
      BY <1>2, <2>2, <2>3, <2>7, <3>1, <3>2, WaitsForCurrent
    <3>4. CASE asked
      BY <2>1, <3>1, <3>3, <3>4 DEF DeliverIfRead
    <3>5. CASE ~asked
      <4>1. InHand(R2, asked)
        BY <1>2, <3>1, <3>2, <3>5 DEF InHand
      <4>2. replica[r].index # 1 - replicator.index
        BY <2>4, <3>1 DEF IndexOf, NotPlaying
      <4>3. On(callers, "deliver") = {} /\ On(callers, "close") = {}
        BY <1>2, <4>2 DEF Good, SourceGood
      <4>4. Below(callers, 4)
        BY <4>3, BelowLess DEF Good
      <4>5. Good(R2, P2, asked, Append(callers, Call("deliver")))
        BY <3>3, <4>1, <4>4, DeliverCalled
      <4> QED BY <2>1, <3>1, <3>5, <4>5 DEF DeliverIfRead
    <3> QED BY <3>4, <3>5
  <2> QED BY <1>2, <2>8, <2>9, <2>10 DEF GetNextFrame
<1> QED BY <1>1, <1>2

-----------------------------------------------------------------------------
(* Replicas that stop or are deleted. *)

(* Nothing is in progress, but perhaps the removal of a replica. *)
Quiet(s) == StackGood(s) /\ Below(s, 2) /\ \A f : f # "removed" => On(s, f) = {}

(* r has stopped, or is gone and its removal goes on in s. *)
Leaves(P, r, P2, s) ==
  /\ P2 \in [DOMAIN P2 -> ReplicaType]
  /\ DOMAIN P2 \subseteq DOMAIN P /\ DOMAIN P \ {r} \subseteq DOMAIN P2
  /\ r \in DOMAIN P2 <=> On(s, "removed") = {}
  /\ r \in DOMAIN P2 => P2[r].index = NotPlaying /\ ~P2[r].waits /\ P2[r].got = Older
  /\ \A x \in DOMAIN P \ {r} : /\ P2[x].index = P[x].index /\ P2[x].got = P[x].got
                               /\ P2[x].waits <=> P[x].waits

(* It stands nowhere now, and its place as the master is taken by one that
   waits for the current frame, if any does. *)
Passed(R, r, R2) ==
  /\ R2 = [master |-> R2.master, current |-> R2.current, next |-> R2.next, active |-> R2.active,
           deliveries |-> R2.deliveries, index |-> R.index, closed |-> R.closed,
           replicas |-> R.replicas]
  /\ R2.deliveries \in Nat
  /\ R2.current \in Seq(Replicas) /\ Distinct(R2.current)
  /\ R2.next \in Seq(Replicas) /\ Distinct(R2.next)
  /\ Members(R2.current) \subseteq Members(R.current)
  /\ Members(R2.next) \subseteq Members(R.next)
  /\ R2.master \notin Members(R2.current) \union Members(R2.next)
  /\ R2.master # R.master => r = R.master /\ R2.master \in Members(R.current) \union {None}
  /\ \A x \in Replicas :
       x = R2.master \/ x \in Members(R2.current) \union Members(R2.next)
         <=> x # r /\ (x = R.master \/ x \in Members(R.current) \union Members(R.next))

(* No call is in progress on an empty stack. *)
LEMMA NothingOn == StackGood(<<>>) /\ \A f : On(<<>>, f) = {}
  BY DEF StackGood, Ranked, On

(* One plays less, if r did. *)
LEMMA OneLess ==
  ASSUME NEW P, IsFiniteSet(DOMAIN P), NEW r \in DOMAIN P, NEW P2, NEW s, Leaves(P, r, P2, s)
  PROVE  /\ Cardinality(Plays(P2))
              = IF P[r].index = NotPlaying THEN Cardinality(Plays(P)) ELSE Cardinality(Plays(P)) - 1
         /\ IsFiniteSet(DOMAIN P2)
         /\ Cardinality(DOMAIN P) = Cardinality(DOMAIN P2) + (IF On(s, "removed") = {} THEN 0 ELSE 1)
<1>1. Plays(P2) = Plays(P) \ {r}
  BY DEF Plays, Leaves
<1>2. Plays(P) \subseteq DOMAIN P /\ IsFiniteSet(Plays(P))
  BY FS_Subset DEF Plays
<1>3. Cardinality(Plays(P) \ {r})
        = IF r \in Plays(P) THEN Cardinality(Plays(P)) - 1 ELSE Cardinality(Plays(P))
  BY <1>2, FS_RemoveElement
<1>4. r \in Plays(P) <=> P[r].index # NotPlaying
  BY DEF Plays
<1>5. DOMAIN P2 = IF On(s, "removed") = {} THEN DOMAIN P ELSE DOMAIN P \ {r}
  BY DEF Leaves
<1>6. /\ IsFiniteSet(DOMAIN P \ {r})
      /\ Cardinality(DOMAIN P \ {r}) = Cardinality(DOMAIN P) - 1
      /\ Cardinality(DOMAIN P) \in Nat
  BY FS_RemoveElement, FS_CardinalityType
<1>7. Cardinality(DOMAIN P) = Cardinality(DOMAIN P2) + (IF On(s, "removed") = {} THEN 0 ELSE 1)
  <2>1. CASE On(s, "removed") = {}
    BY <1>5, <1>6, <2>1
  <2>2. CASE On(s, "removed") # {}
    BY <1>5, <1>6, <2>2
  <2> QED BY <2>1, <2>2
<1> QED BY <1>1, <1>3, <1>4, <1>5, <1>6, <1>7

(* What holds when r has stopped or is gone. *)
LEMMA LeavesGood ==
  ASSUME NEW R, NEW P, NEW a, Good(R, P, a, <<>>), NEW r \in DOMAIN P, NEW s, Quiet(s),
         NEW R2, NEW P2, NEW a2, Leaves(P, r, P2, s), Passed(R, r, R2),
         R2.active = IF P[r].index = NotPlaying THEN R.active ELSE R.active - 1,
         a2 \in BOOLEAN, a2 => a /\ R2.master # None, ~a2 /\ R2.master # None => ~a,
         ~a2 /\ R2.master # None => P2[R2.master].buffer = 0
  PROVE  Good(R2, P2, a2, s)
<1>1. \A f : On(<<>>, f) = {}
  BY NothingOn
<1>2. On(s, "complete") = {} /\ On(s, "deliver") = {} /\ On(s, "close") = {} /\ On(s, "source") = {}
  BY DEF Quiet
<1>3. /\ R2.index = R.index /\ R2.closed = R.closed /\ R2.replicas = R.replicas
      /\ R.index \in {0, 1} /\ R.closed \in BOOLEAN
      /\ DOMAIN P \subseteq Replicas /\ IsFiniteSet(DOMAIN P)
      /\ R.active = Cardinality(Plays(P)) /\ R.replicas = Cardinality(DOMAIN P) + 0
      /\ P \in [DOMAIN P -> ReplicaType]
  BY <1>1 DEF Passed, Good, CountsGood
<1>4. CountsGood(R2, P2, s)
  <2>1. R2.active = Cardinality(Plays(P2))
    BY <1>3, OneLess
  <2>2. /\ IsFiniteSet(DOMAIN P2)
        /\ R2.replicas = Cardinality(DOMAIN P2) + (IF On(s, "removed") = {} THEN 0 ELSE 1)
    <3>1. Cardinality(DOMAIN P) \in Nat
      BY <1>3, FS_CardinalityType
    <3>2. R2.replicas = Cardinality(DOMAIN P)
      BY <1>3, <3>1
    <3> QED BY <1>3, <3>2, OneLess
  <2>3. DOMAIN P2 \subseteq Replicas /\ P2 \in [DOMAIN P2 -> ReplicaType]
    BY <1>3 DEF Leaves
  <2>4. R2.deliveries \in Nat /\ R2 = [master |-> R2.master, current |-> R2.current,
           next |-> R2.next, active |-> R2.active, deliveries |-> R2.deliveries,
           index |-> R2.index, closed |-> R2.closed, replicas |-> R2.replicas]
    BY DEF Passed
  <2> QED BY <1>3, <2>1, <2>2, <2>3, <2>4 DEF CountsGood
<1> DEFINE C == Members(R.current)
           N == Members(R.next)
           C2 == Members(R2.current)
           N2 == Members(R2.next)
<1>5. /\ C2 \subseteq C /\ N2 \subseteq N /\ C \intersect N = {}
      /\ R2.master \notin C2 \union N2 /\ (R2.master # R.master => r = R.master /\ R2.master \in C \union {None})
      /\ R.master \in DOMAIN P \union {None} /\ C \union N \subseteq DOMAIN P
      /\ \A x \in Replicas : x = R2.master \/ x \in C2 \union N2
                               <=> x # r /\ (x = R.master \/ x \in C \union N)
      /\ \A x \in DOMAIN P : P[x].waits <=> x = R.master \/ x \in C \union N
  BY <1>1 DEF Passed, Good, PlacesGood, Waiting
<1>6. Waiting(R2, s) = C2 \union N2
  BY <1>2 DEF Waiting
<1>7. R2.master \in (DOMAIN P \ {r}) \union {None} /\ C2 \union N2 \subseteq DOMAIN P \ {r}
  BY <1>3, <1>5
<1>8. PlacesGood(R2, P2, s)
  <2>1. /\ R2.current \in Seq(Replicas) /\ Distinct(R2.current)
        /\ R2.next \in Seq(Replicas) /\ Distinct(R2.next)
    BY DEF Passed
  <2>2. R2.master \in DOMAIN P2 \union {None} /\ C2 \union N2 \subseteq DOMAIN P2
    BY <1>7 DEF Leaves
  <2>3. \A x \in DOMAIN P2 : P2[x].waits <=> x = R2.master \/ x \in C2 \union N2
    BY <1>3, <1>5 DEF Leaves
  <2> QED BY <1>2, <1>5, <1>6, <2>1, <2>2, <2>3 DEF PlacesGood
<1>9. IndexesGood(R2, P2, s)
  <2>1. /\ \A x \in DOMAIN P : P[x].index = NotPlaying => ~P[x].waits /\ P[x].got = Older
        /\ \A x \in C : P[x].index = R.index
        /\ \A x \in N : P[x].index = 1 - R.index
    BY <1>1 DEF Good, IndexesGood
  <2>2. \A x \in DOMAIN P2 : P2[x].index = NotPlaying => ~P2[x].waits /\ P2[x].got = Older
    BY <2>1 DEF Leaves
  <2>3. \A x \in C2 : P2[x].index = R.index
    BY <1>5, <1>7, <2>1 DEF Leaves
  <2>4. \A x \in N2 : P2[x].index = 1 - R.index
    BY <1>5, <1>7, <2>1 DEF Leaves
  <2> QED BY <1>2, <1>3, <2>2, <2>3, <2>4 DEF IndexesGood
<1>10. R.closed => R.master = None
  BY <1>1 DEF Good, SourceGood
<1>11. R.closed => R2.master = None
  BY <1>3, <1>5, <1>10, NoneAssumption
<1>12. SourceGood(R2, a2, s)
  BY <1>2, <1>3, <1>10, <1>11 DEF Good, SourceGood
<1>13. FramesGood(R2, P2, a2, s)
  <2>1. ASSUME InHand(R2, a2)
        PROVE  /\ P2[R2.master].buffer = 0 /\ P2[R2.master].got >= 1
               /\ \A x \in DOMAIN P2 : P2[x].got = 0 => P2[x].index # R.index
    <3>1. R2.master # None /\ ~a2 /\ ~R.closed /\ R2.master \in DOMAIN P \ {r}
      BY <1>3, <1>7, <2>1 DEF InHand
    <3>2. InHand(R, a)
      BY <1>3, <1>5, <3>1, NoneAssumption DEF InHand
    <3>3. P[R.master].got >= 1 /\ \A x \in DOMAIN P : P[x].got = 0 => P[x].index # R.index
      BY <3>2 DEF Good, FramesGood
    <3>4. P[R2.master].got >= 1
      <4>1. P[R2.master].got \in 0..Older
        BY <1>3, <3>1 DEF ReplicaType
      <4>2. CASE R2.master = R.master
        BY <3>3, <4>2
      <4>3. CASE R2.master \in C
        <5>1. P[R2.master].index = R.index
          BY <4>3 DEF Good, IndexesGood
        <5>2. P[R2.master].got # 0
          BY <3>1, <3>3, <5>1
        <5> QED BY <4>1, <5>2
      <4> QED BY <1>5, <3>1, <4>2, <4>3
    <3>5. \A x \in DOMAIN P2 : P2[x].got = 0 => P2[x].index # R.index
      BY <3>3 DEF Leaves, Older
    <3> QED BY <3>1, <3>4, <3>5 DEF Leaves
  <2> QED BY <1>2, <1>3, <2>1 DEF FramesGood
<1> QED BY <1>4, <1>8, <1>9, <1>12, <1>13 DEF Good, Quiet, GivenGood

(* The stack on which a deactivation begins. *)
LEMMA Quiets ==
  /\ Quiet(<<>>) /\ On(<<>>, "removed") = {}
  /\ Quiet(Append(<<>>, Call("removed"))) /\ On(Append(<<>>, Call("removed")), "removed") = {None}
<1>1. Quiet(<<>>) /\ \A f : On(<<>>, f) = {}
  BY NothingOn DEF Quiet, Below
<1> PICK c : c = Call("removed")
  OBVIOUS
<1>2. c \in Calls /\ c.run = "removed" /\ c.on = None
  BY DEF Call, Calls, Functions
<1>3. Below(<<>>, Rank(c.run))
  BY DEF Below
<1>4. Pushed(<<>>, c, Append(<<>>, c))
  BY <1>2, <1>3, PushGood, NothingOn
<1>5. Quiet(Append(<<>>, c)) /\ On(Append(<<>>, c), "removed") = {None}
  <2>1. PICK t : t = Append(<<>>, c)
    OBVIOUS
  <2>2. /\ StackGood(t) /\ Below(t, Rank(c.run) + 1)
        /\ \A f : On(t, f) = IF f = c.run THEN On(<<>>, f) \union {c.on} ELSE On(<<>>, f)
    BY <1>4, <2>1 DEF Pushed
  <2>3. Rank(c.run) + 1 = 2
    BY <1>2, Ranks
  <2>4. Below(t, 2)
    BY <2>2, <2>3
  <2>5. \A f : On(t, f) = IF f = "removed" THEN {None} ELSE {}
    BY <1>1, <1>2, <2>2
  <2> QED BY <2>1, <2>2, <2>4, <2>5 DEF Quiet
<1> QED BY <1>1, <1>5

(* The counters of the replicator once r plays no more. *)
LEMMA FewerIs ==
  ASSUME Good(replicator, replica, asked, <<>>), NEW r \in Alive
  PROVE  \E n \in Nat :
           Fewer(r) = [master |-> replicator.master, current |-> replicator.current,
                       next |-> replicator.next, active |-> replicator.active - 1,
                       deliveries |-> n, index |-> replicator.index,
                       closed |-> replicator.closed, replicas |-> replicator.replicas]
<1>1. /\ replicator = [master |-> replicator.master, current |-> replicator.current,
                       next |-> replicator.next, active |-> replicator.active,
                       deliveries |-> replicator.deliveries, index |-> replicator.index,
                       closed |-> replicator.closed, replicas |-> replicator.replicas]
      /\ replicator.deliveries \in Nat
  BY DEF Good, CountsGood
<1> DEFINE delivered == replica[r].index # replicator.index /\ replicator.deliveries > 0
<1>2. PICK n : n = IF delivered THEN replicator.deliveries - 1 ELSE replicator.deliveries
  OBVIOUS
<1>3. n \in Nat
  BY <1>1, <1>2
<1>4. PICK F : F = [replicator EXCEPT !.active = @ - 1, !.deliveries = n]
  OBVIOUS
<1>5. Fewer(r) = F
  BY <1>2, <1>4 DEF Fewer
<1>6. /\ F = [master |-> replicator.master, current |-> replicator.current,
              next |-> replicator.next, active |-> replicator.active - 1,
              deliveries |-> n, index |-> replicator.index,
              closed |-> replicator.closed, replicas |-> replicator.replicas]
  BY ONLY <1>1, <1>4
<1> QED BY <1>3, <1>5, <1>6

(* The master passes its office on. *)
LEMMA MasterPasses ==
  ASSUME Good(replicator, replica, asked, <<>>), NEW r \in Alive, replicator.master = r
  PROVE  /\ Passed(replicator, r, Succeeded(r)) /\ Succeeded(r).master = Successor
         /\ Succeeded(r).active = replicator.active - 1
         /\ Successor # None => Successor \in Members(replicator.current)
<1>1. PICK F : F = Fewer(r)
  OBVIOUS
<1>2. PICK C, N : C = replicator.current /\ N = replicator.next
  OBVIOUS
<1>3. PICK m : m = Successor
  OBVIOUS
<1>4. PICK C2 : C2 = IF m = None THEN C ELSE Tail(C)
  OBVIOUS
<1>5. PICK R2 : R2 = Succeeded(r)
  OBVIOUS
<1>6. PICK n \in Nat :
        F = [master |-> replicator.master, current |-> C, next |-> N,
             active |-> replicator.active - 1, deliveries |-> n,
             index |-> replicator.index, closed |-> replicator.closed,
             replicas |-> replicator.replicas]
  BY <1>1, <1>2, FewerIs
<1>7. R2 = [master |-> m, current |-> C2, next |-> N,
            active |-> replicator.active - 1, deliveries |-> n,
            index |-> replicator.index, closed |-> replicator.closed,
            replicas |-> replicator.replicas]
  <2>1. R2 = [F EXCEPT !.master = m, !.current = IF m = None THEN @ ELSE Tail(@)]
    BY <1>1, <1>3, <1>5 DEF Succeeded
  <2> QED BY ONLY <1>4, <1>6, <2>1
<1>8. /\ C \in Seq(Replicas) /\ Distinct(C) /\ N \in Seq(Replicas) /\ Distinct(N)
      /\ Members(C) \intersect Members(N) = {}
      /\ r \notin Members(C) \union Members(N) /\ r \in Replicas
      /\ Members(C) \subseteq Replicas
  BY <1>2 DEF Good, PlacesGood, CountsGood, Waiting, Alive
<1>9. /\ R2.master = m /\ R2.current = C2 /\ R2.next = N
      /\ R2.active = replicator.active - 1 /\ R2.deliveries \in Nat
      /\ R2 = [master |-> R2.master, current |-> R2.current, next |-> R2.next,
               active |-> R2.active, deliveries |-> R2.deliveries,
               index |-> replicator.index, closed |-> replicator.closed,
               replicas |-> replicator.replicas]
  BY ONLY <1>7, n \in Nat
<1>10. m = IF C = <<>> THEN None ELSE Head(C)
  BY <1>2, <1>3 DEF Successor
<1>11. CASE C = <<>>
  <2>1. m = None /\ C2 = C /\ Members(C) = {}
    BY <1>4, <1>8, <1>10, <1>11, EmptyList
  <2>2. \A x \in Replicas : x # m
    BY <2>1, NoneAssumption
  <2>3. Members(R2.current) = {} /\ R2.current \in Seq(Replicas) /\ Distinct(R2.current)
    BY <1>8, <1>9, <2>1
  <2>4. \A x \in Replicas :
          x = R2.master \/ x \in Members(R2.current) \union Members(R2.next)
            <=> x # r /\ (x = replicator.master
                          \/ x \in Members(replicator.current) \union Members(replicator.next))
    BY <1>2, <1>8, <1>9, <2>1, <2>2, <2>3
  <2>5. R2.master \notin Members(R2.current) \union Members(R2.next)
    <3>1. Members(N) \subseteq Replicas
      BY <1>8 DEF Members
    <3> QED BY <1>9, <2>1, <2>3, <3>1, NoneAssumption
  <2>6. Passed(replicator, r, R2)
    BY <1>2, <1>8, <1>9, <2>1, <2>3, <2>4, <2>5 DEF Passed
  <2> QED BY <1>3, <1>5, <1>9, <2>1, <2>6
<1>12. CASE C # <<>>
  <2>1. m = Head(C) /\ m \in Members(C) /\ Lists(Tail(C), Members(C) \ {m})
    BY <1>8, <1>10, <1>12, Shortened
  <2>2. m # None /\ C2 = Tail(C)
    BY <1>4, <1>8, <2>1, NoneAssumption
  <2>3. C2 \in Seq(Replicas) /\ Distinct(C2) /\ Members(C2) = Members(C) \ {m}
    BY <2>1, <2>2 DEF Lists
  <2> QED BY <1>2, <1>3, <1>5, <1>8, <1>9, <2>1, <2>2, <2>3 DEF Passed
<1> QED BY <1>11, <1>12

(* Another replica leaves the lists. *)
LEMMA OtherLeaves ==
  ASSUME Good(replicator, replica, asked, <<>>), NEW r \in Alive, replicator.master # r
  PROVE  /\ Passed(replicator, r, Left(r)) /\ Left(r).master = replicator.master
         /\ Left(r).active = replicator.active - 1
<1>1. PICK F : F = Fewer(r)
  OBVIOUS
<1>2. PICK C, N : C = replicator.current /\ N = replicator.next
  OBVIOUS
<1>3. PICK C2, N2 : C2 = Drop(C, r) /\ N2 = Drop(N, r)
  OBVIOUS
<1>4. PICK R2 : R2 = Left(r)
  OBVIOUS
<1>5. PICK n \in Nat :
        F = [master |-> replicator.master, current |-> C, next |-> N,
             active |-> replicator.active - 1, deliveries |-> n,
             index |-> replicator.index, closed |-> replicator.closed,
             replicas |-> replicator.replicas]
  BY <1>1, <1>2, FewerIs
<1>6. R2 = [master |-> replicator.master, current |-> C2, next |-> N2,
            active |-> replicator.active - 1, deliveries |-> n,
            index |-> replicator.index, closed |-> replicator.closed,
            replicas |-> replicator.replicas]
  <2>1. R2 = [F EXCEPT !.current = Drop(@, r), !.next = Drop(@, r)]
    BY <1>1, <1>4 DEF Left
  <2>2. F.current = C /\ F.next = N
    BY <1>5
  <2>3. R2 = [F EXCEPT !.current = C2, !.next = N2]
    BY <1>3, <2>1, <2>2
  <2> QED BY ONLY <1>5, <2>3
<1>7. /\ C \in Seq(Replicas) /\ Distinct(C) /\ N \in Seq(Replicas) /\ Distinct(N)
      /\ replicator.master \notin Members(C) \union Members(N) /\ r \in Replicas
  BY <1>2 DEF Good, PlacesGood, CountsGood, Waiting, Alive
<1>8. Lists(C2, Members(C) \ {r}) /\ Lists(N2, Members(N) \ {r})
  BY <1>3, <1>7, Dropped
<1>9. /\ C2 \in Seq(Replicas) /\ Distinct(C2) /\ Members(C2) = Members(C) \ {r}
      /\ N2 \in Seq(Replicas) /\ Distinct(N2) /\ Members(N2) = Members(N) \ {r}
  BY <1>8 DEF Lists
<1> QED BY <1>2, <1>4, <1>5, <1>6, <1>7, <1>9 DEF Passed

(* The frame is handed on to the new master, and nothing else changes. *)
LEMMA HandedOnIs ==
  ASSUME Good(replicator, replica, asked, <<>>), NEW r \in Alive
  PROVE  /\ HandedOn(r) \in [Alive -> ReplicaType]
         /\ \A x \in Alive : /\ HandedOn(r)[x].index = replica[x].index
                             /\ HandedOn(r)[x].waits = replica[x].waits
                             /\ HandedOn(r)[x].got = replica[x].got
                             /\ HandedOn(r)[x].buffer =
                                  IF /\ r \in Playing /\ replicator.master = r /\ ~asked
                                     /\ Successor # None /\ x = Successor
                                  THEN replica[r].buffer ELSE replica[x].buffer
<1>1. replica \in [Alive -> ReplicaType]
  BY DEF Good, CountsGood, Alive
<1>2. PICK b : b = replica[r].buffer
  OBVIOUS
<1>3. b \in 0..Older
  BY <1>1, <1>2 DEF ReplicaType
<1>4. CASE r \in Playing /\ replicator.master = r /\ ~asked /\ Successor # None
  <2>1. PICK m : m = Successor
    OBVIOUS
  <2>2. m \in Alive
    <3>1. m \in Members(replicator.current)
      BY <1>4, <2>1, MasterPasses
    <3> QED BY <3>1 DEF Good, PlacesGood, Waiting, Alive
  <2>3. HandedOn(r) = [replica EXCEPT ![m].buffer = b]
    BY <1>2, <1>4, <2>1 DEF HandedOn
  <2>4. PICK H : H = HandedOn(r)
    OBVIOUS
  <2>5. H \in [Alive -> ReplicaType]
    BY ONLY <1>1, <1>3, <2>2, <2>3, <2>4 DEF ReplicaType
  <2>6. \A x \in Alive : /\ H[x].index = replica[x].index /\ H[x].waits = replica[x].waits
                         /\ H[x].got = replica[x].got
                         /\ H[x].buffer = IF x = m THEN b ELSE replica[x].buffer
    BY ONLY <1>1, <2>2, <2>3, <2>4 DEF ReplicaType
  <2> QED BY <1>2, <1>4, <2>1, <2>4, <2>5, <2>6
<1>5. CASE ~(r \in Playing /\ replicator.master = r /\ ~asked /\ Successor # None)
  <2>1. HandedOn(r) = replica
    BY <1>5 DEF HandedOn
  <2> QED BY <1>1, <1>5, <2>1
<1> QED BY <1>4, <1>5

(* The buffers that the others have are the ones of HandedOn. *)
BuffersKept(r, P2) == \A x \in Alive \ {r} : P2[x].buffer = HandedOn(r)[x].buffer

(* A replica that stops leaves, but may start again. *)
LEMMA StopLeaves ==
  ASSUME Good(replicator, replica, asked, <<>>), NEW r \in Alive,
         replica' = [HandedOn(r) EXCEPT ![r].index = NotPlaying, ![r].waits = FALSE, ![r].got = Older]
  PROVE  Leaves(replica, r, replica', <<>>) /\ BuffersKept(r, replica')
<1>1. PICK P2, H : P2 = replica' /\ H = HandedOn(r)
  OBVIOUS
<1>2. /\ H \in [Alive -> ReplicaType]
      /\ \A x \in Alive : /\ H[x].index = replica[x].index /\ H[x].waits = replica[x].waits
                          /\ H[x].got = replica[x].got
  BY <1>1, HandedOnIs
<1>3. P2 = [H EXCEPT ![r].index = NotPlaying, ![r].waits = FALSE, ![r].got = Older]
  BY <1>1
<1>4. P2 \in [Alive -> ReplicaType] /\ \A x \in Alive \ {r} : P2[x] = H[x]
  <2>1. Older \in 0..Older /\ NotPlaying \in {NotPlaying, 0, 1}
    BY DEF Older
  <2>2. P2 \in [Alive -> ReplicaType]
    BY ONLY <1>2, <1>3, <2>1, r \in Alive DEF ReplicaType
  <2>3. \A x \in Alive \ {r} : P2[x] = H[x]
    BY ONLY <1>2, <1>3
  <2> QED BY <2>2, <2>3
<1>5. P2[r].index = NotPlaying /\ ~P2[r].waits /\ P2[r].got = Older
  BY ONLY <1>2, <1>3, r \in Alive DEF ReplicaType
<1>6. Leaves(replica, r, P2, <<>>)
  BY <1>2, <1>4, <1>5, Quiets DEF Leaves, Alive
<1>7. BuffersKept(r, P2)
  BY <1>1, <1>4 DEF BuffersKept
<1> QED BY <1>1, <1>6, <1>7

(* A replica that is deleted is gone. *)
LEMMA DeleteLeaves ==
  ASSUME Good(replicator, replica, asked, <<>>), NEW r \in Alive,
         replica' = Restrict(HandedOn(r), Alive \ {r})
  PROVE  Leaves(replica, r, replica', Append(<<>>, Call("removed"))) /\ BuffersKept(r, replica')
<1>1. PICK P2, H : P2 = replica' /\ H = HandedOn(r)
  OBVIOUS
<1>2. /\ H \in [Alive -> ReplicaType]
      /\ \A x \in Alive : /\ H[x].index = replica[x].index /\ H[x].waits = replica[x].waits
                          /\ H[x].got = replica[x].got
  BY <1>1, HandedOnIs
<1>3. P2 = [x \in Alive \ {r} |-> H[x]]
  BY <1>1 DEF Restrict
<1>4. P2 \in [Alive \ {r} -> ReplicaType] /\ \A x \in Alive \ {r} : P2[x] = H[x]
  BY ONLY <1>2, <1>3
<1>5. PICK s : s = Append(<<>>, Call("removed"))
  OBVIOUS
<1>6. On(s, "removed") # {}
  BY <1>5, Quiets
<1>7. Leaves(replica, r, P2, s)
  BY <1>2, <1>4, <1>6 DEF Leaves, Alive
<1>8. BuffersKept(r, P2)
  BY <1>1, <1>4 DEF BuffersKept
<1> QED BY <1>1, <1>5, <1>7, <1>8

(* Whoever leaves, the rest goes on as the functions that are called say. *)
LEMMA DeactivateKeeps ==
  ASSUME Good(replicator, replica, asked, <<>>), NEW r \in Alive, NEW s, Quiet(s),
         Leaves(replica, r, replica', s), BuffersKept(r, replica'), Deactivate(r, s)
  PROVE  Good(replicator', replica', asked', stack')
<1>1. PICK R2, P2, a2 : R2 = replicator' /\ P2 = replica' /\ a2 = asked'
  OBVIOUS
<1>2. PICK after : after = Append(s, Call("deactivated"))
  OBVIOUS
<1>3. r \in DOMAIN replica /\ r \in Replicas /\ Leaves(replica, r, P2, s) /\ BuffersKept(r, P2)
  BY <1>1 DEF Alive, Good, CountsGood
<1>4. asked \in BOOLEAN /\ (asked => replicator.master # None)
  BY DEF Good, SourceGood
<1>5. InHand(replicator, asked) => replica[replicator.master].buffer = 0
  BY DEF Good, FramesGood
<1>6. replicator.master # None => ~replicator.closed
  BY NothingOn DEF Good, SourceGood
<1>7. ASSUME Good(R2, P2, a2, s)
      PROVE  Good(R2, P2, a2, after) /\ Below(after, 3)
  BY <1>2, <1>7, DeactivateCalled DEF Quiet
<1>8. CASE r \notin Playing
  <2>1. replicator' = replicator /\ asked' = asked /\ stack' = s
    BY <1>8 DEF Deactivate
  <2>2. replica[r].index = NotPlaying
    BY <1>8 DEF Playing
  <2>3. ~replica[r].waits
    BY <1>3, <2>2 DEF Good, IndexesGood
  <2>4. Passed(replicator, r, replicator)
    <3>1. r # replicator.master /\ r \notin Members(replicator.current) \union Members(replicator.next)
      BY <1>3, <2>3 DEF Good, PlacesGood, Waiting
    <3> QED BY <3>1 DEF Passed, Good, CountsGood, PlacesGood, Waiting
  <2>5. replicator.master # None /\ ~asked => P2[replicator.master].buffer = 0
    <3>1. r # replicator.master
      BY <1>3, <2>3 DEF Good, PlacesGood
    <3>2. ASSUME replicator.master # None, ~asked
          PROVE  P2[replicator.master].buffer = 0
      <4>1. replicator.master \in Alive \ {r}
        BY <3>1, <3>2 DEF Good, PlacesGood, Alive
      <4>2. InHand(replicator, asked)
        BY <1>6, <3>2 DEF InHand
      <4> QED BY <1>3, <1>5, <1>8, <4>1, <4>2, HandedOnIs DEF BuffersKept
    <3> QED BY <3>2
  <2>6. Good(replicator, P2, asked, s)
    BY <1>3, <1>4, <2>2, <2>4, <2>5, LeavesGood
  <2> QED BY <1>1, <2>1, <2>6
<1>9. CASE r \in Playing /\ replicator.master = r /\ ReplaceMaster(r, after)
  <2>1. /\ R2 = Succeeded(r) /\ a2 = ReadAgain
        /\ stack' = IF a2 THEN Append(after, Call("source")) ELSE after
    BY <1>1, <1>9 DEF ReplaceMaster
  <2>2. /\ Passed(replicator, r, R2) /\ R2.master = Successor
        /\ R2.active = replicator.active - 1
        /\ Successor # None => Successor \in Members(replicator.current)
    BY <1>9, <2>1, MasterPasses
  <2>3. replica[r].index # NotPlaying
    BY <1>9 DEF Playing
  <2>4. a2 \in BOOLEAN /\ (a2 <=> asked /\ R2.master # None)
    BY <1>4, <2>1, <2>2 DEF ReadAgain
  <2>5. ~a2 /\ R2.master # None => P2[R2.master].buffer = 0
    <3>1. ASSUME ~a2, R2.master # None
          PROVE  P2[R2.master].buffer = 0
      <4>1. ~asked /\ Successor # None /\ R2.master = Successor
        BY <2>2, <2>4, <3>1
      <4>2. Successor \in Alive \ {r}
        BY <1>9, <2>2, <4>1 DEF Good, PlacesGood, Waiting, Alive
      <4>3. HandedOn(r)[Successor].buffer = replica[r].buffer
        BY <1>9, <4>1, <4>2, HandedOnIs
      <4>4. InHand(replicator, asked)
        BY <1>3, <1>6, <1>9, <4>1, NoneAssumption DEF InHand
      <4> QED BY <1>3, <1>5, <1>9, <4>1, <4>2, <4>3, <4>4 DEF BuffersKept
    <3> QED BY <3>1
  <2>6. Good(R2, P2, a2, s)
    BY <1>3, <2>2, <2>3, <2>4, <2>5, LeavesGood
  <2>7. Good(R2, P2, a2, after) /\ Below(after, 5)
    BY <1>7, <2>6, BelowMore
  <2>8. CASE a2
    <3>1. Good(R2, P2, TRUE, after)
      BY <2>4, <2>7, <2>8
    <3>2. Good(R2, P2, TRUE, Append(after, Call("source")))
      BY <2>7, <3>1, SourceCalled
    <3>3. Good(R2, P2, a2, Append(after, Call("source")))
      BY <2>4, <2>8, <3>2
    <3> QED BY <1>1, <2>1, <2>8, <3>3
  <2>9. CASE ~a2
    BY <1>1, <2>1, <2>7, <2>9
  <2> QED BY <2>8, <2>9
<1>10. CASE r \in Playing /\ replicator.master # r /\ LeaveLists(r, after)
  <2>1. /\ R2 = Left(r) /\ a2 = asked
        /\ stack' = IF replicator.master = None THEN after ELSE DeliverIfRead(after)
    BY <1>1, <1>10 DEF LeaveLists
  <2>2. /\ Passed(replicator, r, R2) /\ R2.master = replicator.master
        /\ R2.active = replicator.active - 1
    BY <1>10, <2>1, OtherLeaves
  <2>3. replica[r].index # NotPlaying
    BY <1>10 DEF Playing
  <2>4. ~a2 /\ R2.master # None => P2[R2.master].buffer = 0
    <3>1. ASSUME ~a2, R2.master # None
          PROVE  P2[R2.master].buffer = 0
      <4>1. replicator.master \in Alive \ {r} /\ ~asked
        BY <1>10, <2>1, <2>2, <3>1 DEF Good, PlacesGood, Alive
      <4>2. InHand(replicator, asked)
        BY <1>6, <2>2, <3>1, <4>1 DEF InHand
      <4> QED BY <1>3, <1>5, <1>10, <2>2, <4>1, <4>2, HandedOnIs DEF BuffersKept
    <3> QED BY <3>1
  <2>5. Good(R2, P2, a2, s)
    BY <1>3, <1>4, <2>1, <2>2, <2>3, <2>4, LeavesGood
  <2>6. Good(R2, P2, a2, after) /\ Below(after, 4)
    BY <1>7, <2>5, BelowMore
  <2>7. CASE replicator.master = None \/ asked
    BY <1>1, <2>1, <2>6, <2>7 DEF DeliverIfRead
  <2>8. CASE replicator.master # None /\ ~asked
    <3>1. InHand(R2, a2)
      BY <1>6, <2>1, <2>2, <2>8 DEF InHand, Passed
    <3>2. Good(R2, P2, a2, Append(after, Call("deliver")))
      BY <2>6, <3>1, DeliverCalled
    <3> QED BY <1>1, <2>1, <2>8, <3>2 DEF DeliverIfRead
  <2> QED BY <2>7, <2>8
<1> QED BY <1>2, <1>8, <1>9, <1>10 DEF Deactivate

-----------------------------------------------------------------------------
(* The source. *)

(* What is known of the state when functions in s are in progress. *)
LEMMA Known ==
  ASSUME NEW R, NEW P, NEW a, NEW s, Good(R, P, a, s)
  PROVE  /\ R = [master |-> R.master, current |-> R.current, next |-> R.next, active |-> R.active,
                 deliveries |-> R.deliveries, index |-> R.index, closed |-> R.closed,
                 replicas |-> R.replicas]
         /\ P \in [DOMAIN P -> ReplicaType] /\ DOMAIN P \subseteq Replicas /\ None \notin DOMAIN P
         /\ IsFiniteSet(DOMAIN P) /\ R.index \in {0, 1} /\ R.deliveries \in Nat
         /\ R.closed \in BOOLEAN /\ a \in BOOLEAN
         /\ R.master \in DOMAIN P \union {None} /\ Waiting(R, s) \subseteq DOMAIN P
         /\ R.current \in Seq(Replicas) /\ Distinct(R.current)
         /\ R.next \in Seq(Replicas) /\ Distinct(R.next)
         /\ R.active = Cardinality(Plays(P))
  BY NoneAssumption DEF Good, CountsGood, PlacesGood, SourceGood

(* The replicas of P2 are those of P, and wait and play alike. *)
OnlyFrames(P, P2) ==
  /\ P2 \in [DOMAIN P -> ReplicaType]
  /\ \A x \in DOMAIN P : P2[x].index = P[x].index /\ (P2[x].waits <=> P[x].waits)

(* Frames come and go without anything else. *)
LEMMA OnlyFramesGood ==
  ASSUME NEW R, NEW P, NEW a, NEW s, Good(R, P, a, s), NEW P2, OnlyFrames(P, P2)
  PROVE  /\ CountsGood(R, P2, s) /\ PlacesGood(R, P2, s) /\ GivenGood(R, P2, s)
         /\ (\A x \in DOMAIN P : P[x].got = Older => P2[x].got = Older) => IndexesGood(R, P2, s)
<1>1. DOMAIN P2 = DOMAIN P /\ Plays(P2) = Plays(P)
  BY DEF OnlyFrames, Plays
<1>2. CountsGood(R, P2, s)
  BY <1>1 DEF Good, CountsGood, OnlyFrames
<1>3. PlacesGood(R, P2, s)
  BY <1>1 DEF Good, PlacesGood, OnlyFrames
<1>4. GivenGood(R, P2, s)
  BY <1>1 DEF Good, GivenGood, OnlyFrames
<1>5. ASSUME \A x \in DOMAIN P : P[x].got = Older => P2[x].got = Older
      PROVE  IndexesGood(R, P2, s)
  <2>1. Waiting(R, s) \subseteq DOMAIN P
    BY Known
  <2>2. Members(R.current) \subseteq DOMAIN P /\ Members(R.next) \subseteq DOMAIN P
    BY <2>1 DEF Waiting
  <2> QED BY <1>1, <1>5, <2>2 DEF Good, IndexesGood, OnlyFrames
<1> QED BY <1>2, <1>3, <1>4, <1>5

(* A frame has come into the master's buffer, and is delivered. *)
LEMMA AfterGettingFrameKeeps ==
  ASSUME NEW callers, Good(replicator, replica, asked, callers), Below(callers, 5), asked,
         AfterGettingFrame(callers)
  PROVE  Good(replicator', replica', asked', stack')
<1>1. PICK P2 : P2 = replica'
  OBVIOUS
<1>2. P2 = [r \in Alive |-> [replica[r] EXCEPT !.buffer = IF r = replicator.master THEN 0 ELSE Aged(@),
                                               !.got = Aged(@)]]
  BY <1>1 DEF AfterGettingFrame
<1>3. replica \in [Alive -> ReplicaType]
  BY Known DEF Alive
<1>4. ASSUME NEW x \in Alive
      PROVE  /\ P2[x] \in ReplicaType
             /\ P2[x].index = replica[x].index /\ (P2[x].waits <=> replica[x].waits)
             /\ P2[x].buffer = IF x = replicator.master THEN 0 ELSE Aged(replica[x].buffer)
             /\ P2[x].got = Aged(replica[x].got)
  <2>1. PICK k : k = replica[x]
    OBVIOUS
  <2>2. PICK b, g : b = (IF x = replicator.master THEN 0 ELSE Aged(k.buffer)) /\ g = Aged(k.got)
    OBVIOUS
  <2>3. k \in ReplicaType
    BY <1>3, <2>1
  <2>4. b \in 0..Older /\ g \in 0..Older
    BY <2>2, <2>3 DEF ReplicaType, Aged, Older
  <2>5. P2[x] = [k EXCEPT !.buffer = b, !.got = g]
    BY <1>2, <2>1, <2>2
  <2>6. /\ P2[x].index = k.index /\ P2[x].waits = k.waits /\ P2[x].buffer = b /\ P2[x].got = g
        /\ P2[x] \in ReplicaType
    BY ONLY <2>3, <2>4, <2>5 DEF ReplicaType
  <2> QED BY <2>1, <2>2, <2>6
<1>5. OnlyFrames(replica, P2)
  BY <1>2, <1>4 DEF OnlyFrames, Alive
<1>6. /\ CountsGood(replicator, P2, callers) /\ PlacesGood(replicator, P2, callers)
      /\ GivenGood(replicator, P2, callers) /\ IndexesGood(replicator, P2, callers)
  <2>1. \A x \in DOMAIN replica : replica[x].got = Older => P2[x].got = Older
    BY <1>4 DEF Alive, Aged, Older
  <2> QED BY <1>5, <2>1, OnlyFramesGood
<1>7. /\ replicator.master # None /\ ~replicator.closed
      /\ On(callers, "deliver") = {} /\ On(callers, "close") = {}
  BY DEF Good, SourceGood
<1>8. On(callers, "source") = {}
  BY Ranks, NoneBelow
<1>9. SourceGood(replicator, FALSE, callers)
  BY <1>7, <1>8 DEF Good, SourceGood
<1>10. FramesGood(replicator, P2, FALSE, callers)
  <2>1. replicator.master \in Alive /\ On(callers, "complete") \subseteq Alive \ {replicator.master}
    BY <1>7 DEF Good, PlacesGood, Waiting, Alive
  <2>2. \A x \in Alive : P2[x].got \in 1..Older
    BY <1>3, <1>4 DEF ReplicaType, Aged, Older
  <2>3. P2[replicator.master].buffer = 0
    BY <1>4, <2>1
  <2>4. ASSUME NEW x \in On(callers, "complete")
        PROVE  P2[x].buffer >= 1 /\ P2[x].buffer < P2[x].got
    <3>1. replica[x].buffer = 0 /\ replica[x].buffer < replica[x].got /\ x \in Alive
          /\ x # replicator.master
      BY <2>1 DEF Good, FramesGood
    <3>2. replica[x].got \in 0..Older
      BY <1>3, <3>1 DEF ReplicaType
    <3> QED BY <1>4, <3>1, <3>2 DEF Aged, Older
  <2>5. DOMAIN P2 = Alive
    BY <1>2
  <2>6. \A x \in DOMAIN P2 : P2[x].got # 0 /\ P2[x].got >= 1
    BY ONLY <2>2, <2>5
  <2> QED BY <2>1, <2>3, <2>4, <2>5, <2>6 DEF FramesGood
<1>11. Good(replicator, P2, FALSE, callers)
  BY <1>6, <1>9, <1>10 DEF Good
<1>12. Below(callers, 4)
  BY <1>7, BelowLess DEF Good
<1>13. InHand(replicator, FALSE)
  BY <1>7 DEF InHand
<1>14. Good(replicator, P2, FALSE, Append(callers, Call("deliver")))
  BY <1>11, <1>12, <1>13, DeliverCalled
<1>15. /\ replicator' = replicator /\ asked' = FALSE
       /\ stack' = Append(callers, Call("deliver"))
  BY DEF AfterGettingFrame
<1> QED BY <1>1, <1>14, <1>15

(* The source has come to its end, and everybody is told. *)
LEMMA OnSourceClosureKeeps ==
  ASSUME NEW callers, Good(replicator, replica, asked, callers), Below(callers, 5), asked,
         OnSourceClosure(callers)
  PROVE  Good(replicator', replica', asked', stack')
<1>1. PICK R2, t, c : R2 = replicator' /\ c = Call("close") /\ t = Append(callers, c)
  OBVIOUS
<1>2. replica' = replica /\ asked' = FALSE /\ stack' = t /\ R2 = [replicator EXCEPT !.closed = TRUE]
  BY <1>1 DEF OnSourceClosure
<1>3. /\ On(callers, "deliver") = {} /\ On(callers, "close") = {}
  BY DEF Good, SourceGood
<1>4. Below(callers, 4)
  BY <1>3, BelowLess DEF Good
<1>5. c \in Calls /\ c.run = "close" /\ c.on = None
  BY <1>1 DEF Call, Calls, Functions
<1>6. Pushed(callers, c, t)
  BY <1>1, <1>4, <1>5, Ranks, PushGood DEF Good
<1>7. StackGood(t) /\ \A f : On(t, f) = IF f = "close" THEN On(callers, f) \union {None} ELSE On(callers, f)
  BY <1>5, <1>6 DEF Pushed
<1>8. /\ On(t, "removed") = On(callers, "removed") /\ On(t, "complete") = On(callers, "complete")
      /\ On(t, "deliver") = {} /\ On(t, "close") # {}
      /\ On(t, "source") = {}
  BY <1>3, <1>7, Ranks, NoneBelow
<1>9. /\ R2.master = replicator.master /\ R2.current = replicator.current
      /\ R2.next = replicator.next /\ R2.active = replicator.active
      /\ R2.deliveries = replicator.deliveries /\ R2.index = replicator.index
      /\ R2.closed /\ R2.closed \in BOOLEAN /\ R2.replicas = replicator.replicas
      /\ R2 = [master |-> R2.master, current |-> R2.current, next |-> R2.next,
               active |-> R2.active, deliveries |-> R2.deliveries, index |-> R2.index,
               closed |-> R2.closed, replicas |-> R2.replicas]
  <2>1. PICK v : v = TRUE
    OBVIOUS
  <2>2. R2 = [replicator EXCEPT !.closed = v]
    BY <1>2, <2>1
  <2>3. replicator = [master |-> replicator.master, current |-> replicator.current,
                      next |-> replicator.next, active |-> replicator.active,
                      deliveries |-> replicator.deliveries, index |-> replicator.index,
                      closed |-> replicator.closed, replicas |-> replicator.replicas]
    BY Known
  <2> QED BY <2>1, <2>2, <2>3
<1>10. CountsGood(R2, replica, t)
  BY <1>8, <1>9 DEF Good, CountsGood
<1>11. PlacesGood(R2, replica, t)
  BY <1>8, <1>9 DEF Good, PlacesGood, Waiting
<1>12. IndexesGood(R2, replica, t) /\ GivenGood(R2, replica, t)
  BY <1>8, <1>9 DEF Good, IndexesGood, GivenGood
<1>13. SourceGood(R2, FALSE, t)
  BY <1>8, <1>9 DEF SourceGood
<1>14. FramesGood(R2, replica, FALSE, t)
  BY <1>8, <1>9 DEF Good, FramesGood, InHand
<1>15. Good(R2, replica, FALSE, t)
  BY <1>7, <1>10, <1>11, <1>12, <1>13, <1>14 DEF Good
<1> QED BY <1>1, <1>2, <1>15

(* r waits no more, and nothing else changes. *)
Told(P, r, P2) ==
  /\ P2 \in [DOMAIN P -> ReplicaType] /\ Changed(P, P2, r)
  /\ P2[r].index = P[r].index /\ P2[r].buffer = P[r].buffer /\ P2[r].got = P[r].got
  /\ ~P2[r].waits

(* What EXCEPT makes of it. *)
LEMMA ToldIs ==
  ASSUME NEW P, P \in [DOMAIN P -> ReplicaType], NEW r \in DOMAIN P,
         NEW P2, P2 = [P EXCEPT ![r].waits = FALSE]
  PROVE  Told(P, r, P2)
<1>1. P2 \in [DOMAIN P -> ReplicaType]
  BY DEF ReplicaType
<1>2. Changed(P, P2, r)
  BY DEF Changed
<1>3. P2[r].index = P[r].index /\ P2[r].buffer = P[r].buffer /\ P2[r].got = P[r].got /\ ~P2[r].waits
  BY DEF ReplicaType
<1> QED BY <1>1, <1>2, <1>3 DEF Told

(* A replica that waits in a list is told of the end. *)
LEMMA CloseWaitingKeeps ==
  ASSUME Good(replicator, replica, asked, stack), CloseWaiting
  PROVE  Good(replicator', replica', asked', stack')
<1>1. PICK C, N : C = replicator.current /\ N = replicator.next
  OBVIOUS
<1>2. PICK r : r = Head(C \o N)
  OBVIOUS
<1>3. PICK R2, P2 : R2 = replicator' /\ P2 = replica'
  OBVIOUS
<1>4. /\ Running("close") /\ C \o N # <<>> /\ asked' = asked /\ stack' = Append(stack, Reader(r))
      /\ R2 = [replicator EXCEPT !.current = Drop(@, r), !.next = Drop(@, r)]
      /\ P2 = [replica EXCEPT ![r].waits = FALSE]
  BY <1>1, <1>2, <1>3 DEF CloseWaiting
<1>5. /\ C \in Seq(Replicas) /\ Distinct(C) /\ N \in Seq(Replicas) /\ Distinct(N)
      /\ replicator = [master |-> replicator.master, current |-> C,
                       next |-> N, active |-> replicator.active,
                       deliveries |-> replicator.deliveries, index |-> replicator.index,
                       closed |-> replicator.closed, replicas |-> replicator.replicas]
  BY <1>1, Known
<1>6. r \in Members(C) \union Members(N)
  <2>1. CASE C = <<>>
    <3>1. r = Head(N) /\ N # <<>>
      BY <1>2, <1>4, <1>5, <2>1
    <3> QED BY <1>5, <3>1, Shortened
  <2>2. CASE C # <<>>
    <3>1. r = Head(C)
      BY <1>2, <1>5, <2>2
    <3> QED BY <1>5, <2>2, <3>1, Shortened
  <2> QED BY <2>1, <2>2
<1>7. r \in DOMAIN replica /\ r \in Replicas
  BY <1>1, <1>6, Known DEF Waiting
<1>8. PICK C2, N2 : C2 = Drop(C, r) /\ N2 = Drop(N, r)
  OBVIOUS
<1>9. Lists(C2, Members(C) \ {r}) /\ Lists(N2, Members(N) \ {r})
  BY <1>5, <1>8, Dropped
<1>10. /\ C2 \in Seq(Replicas) /\ Distinct(C2) /\ Members(C2) = Members(C) \ {r}
       /\ N2 \in Seq(Replicas) /\ Distinct(N2) /\ Members(N2) = Members(N) \ {r}
  BY <1>9 DEF Lists
<1>11. R2 = [master |-> replicator.master, current |-> C2,
             next |-> N2, active |-> replicator.active,
             deliveries |-> replicator.deliveries, index |-> replicator.index,
             closed |-> replicator.closed, replicas |-> replicator.replicas]
  <2>1. R2 = [replicator EXCEPT !.current = C2, !.next = N2]
    BY <1>1, <1>4, <1>8
  <2> QED BY ONLY <1>5, <2>1
<1>12. Told(replica, r, P2)
  BY <1>4, <1>7, Known, ToldIs
<1>13. stack # <<>> /\ Last(stack).run = "close"
  BY <1>4 DEF Running
<1>14. Pushed(Front(stack), Last(stack), stack)
  BY <1>13, TopIsPushed DEF Good
<1>15. Below(stack, 5) /\ On(stack, "close") # {}
  <2>1. Below(stack, Rank("close") + 1) /\ Last(stack).on \in On(stack, "close")
    BY <1>13, <1>14 DEF Pushed
  <2> QED BY <2>1, Ranks
<1>16. replicator.closed /\ On(stack, "deliver") = {}
  BY <1>15 DEF Good, SourceGood
<1>17. CountsGood(R2, P2, stack)
  <2>1. Plays(P2) = Plays(replica) /\ DOMAIN P2 = DOMAIN replica
    BY <1>12 DEF Plays, Told, Changed
  <2> QED BY <1>11, <1>12, <2>1 DEF Good, CountsGood, Told
<1> DEFINE K == On(stack, "complete")
<1>18. /\ Members(C) \intersect Members(N) = {} /\ K \intersect (Members(C) \union Members(N)) = {}
       /\ replicator.master \notin Members(C) \union Members(N) \union K
       /\ replicator.master \in DOMAIN replica \union {None}
       /\ Members(C) \union Members(N) \union K \subseteq DOMAIN replica
       /\ \A x \in DOMAIN replica :
            replica[x].waits <=> x = replicator.master \/ x \in Members(C) \union Members(N) \union K
  BY <1>1 DEF Good, PlacesGood, Waiting
<1>19. /\ R2.current = C2 /\ R2.next = N2 /\ R2.master = replicator.master
       /\ R2.index = replicator.index /\ R2.deliveries = replicator.deliveries
       /\ R2.closed = replicator.closed
  BY <1>11
<1>20. PlacesGood(R2, P2, stack)
  <2>1. Waiting(R2, stack) = (Members(C) \union Members(N) \union K) \ {r}
    BY <1>6, <1>10, <1>18, <1>19 DEF Waiting
  <2>2. DOMAIN P2 = DOMAIN replica /\ \A x \in DOMAIN P2 : x # r => P2[x] = replica[x]
    BY <1>12 DEF Told, Changed
  <2>3. ~P2[r].waits
    BY <1>12 DEF Told
  <2>4. \A x \in DOMAIN P2 : P2[x].waits <=> x = R2.master \/ x \in Waiting(R2, stack)
    BY <1>6, <1>18, <1>19, <2>1, <2>2, <2>3
  <2> QED BY <1>6, <1>10, <1>18, <1>19, <2>1, <2>2, <2>4 DEF PlacesGood
<1>21. IndexesGood(R2, P2, stack)
  <2>1. \A x \in DOMAIN replica : P2[x].index = replica[x].index /\ P2[x].got = replica[x].got
    BY <1>12 DEF Told, Changed
  <2>2. DOMAIN P2 = DOMAIN replica /\ (\A x \in DOMAIN P2 : P2[x].waits => replica[x].waits)
    BY <1>12 DEF Told, Changed
  <2>3. C = <<>> => C2 = <<>>
    BY <1>5, <1>10, EmptyList
  <2> QED BY <1>1, <1>10, <1>18, <1>19, <2>1, <2>2, <2>3 DEF Good, IndexesGood
<1>22. SourceGood(R2, asked, stack)
  BY <1>19 DEF Good, SourceGood
<1>23. FramesGood(R2, P2, asked, stack)
  <2>1. \A x \in DOMAIN replica : P2[x].buffer = replica[x].buffer /\ P2[x].got = replica[x].got
    BY <1>12 DEF Told, Changed
  <2> QED BY <1>16, <1>18, <1>19, <2>1 DEF Good, FramesGood, InHand
<1>24. Good(R2, P2, asked, stack)
  BY <1>16, <1>17, <1>20, <1>21, <1>22, <1>23 DEF Good, GivenGood
<1>25. Good(R2, P2, asked, Append(stack, Reader(r)))
  BY <1>7, <1>15, <1>16, <1>19, <1>24, ReaderCalled
<1> QED BY <1>3, <1>4, <1>25

(* The master is told of the end last. *)
LEMMA CloseMasterKeeps ==
  ASSUME Good(replicator, replica, asked, stack), CloseMaster
  PROVE  Good(replicator', replica', asked', stack')
<1>1. PICK r, s : r = replicator.master /\ s = Front(stack)
  OBVIOUS
<1>2. PICK R2, P2 : R2 = replicator' /\ P2 = replica'
  OBVIOUS
<1>3. /\ Running("close") /\ replicator.current \o replicator.next = <<>> /\ asked' = asked
      /\ R2 = [replicator EXCEPT !.master = None]
      /\ P2 = IF r = None THEN replica ELSE [replica EXCEPT ![r].waits = FALSE]
      /\ stack' = IF r = None THEN s ELSE Append(s, Reader(r))
  BY <1>1, <1>2 DEF CloseMaster, Caller
<1>4. stack # <<>> /\ Last(stack).run = "close"
  BY <1>3 DEF Running
<1>5. StackGood(s) /\ Below(s, 4) /\ Pushed(s, Last(stack), stack)
  BY <1>1, <1>4, TopIsPushed, Ranks DEF Good
<1>6. \A f : On(stack, f) = IF f = "close" THEN On(s, f) \union {Last(stack).on} ELSE On(s, f)
  BY <1>4, <1>5 DEF Pushed
<1>7. /\ On(s, "close") = {} /\ On(s, "deliver") = {} /\ On(s, "source") = {} /\ On(s, "reader") = {}
      /\ On(s, "complete") = On(stack, "complete") /\ On(s, "removed") = On(stack, "removed")
      /\ On(stack, "close") # {}
  BY <1>5, <1>6, Ranks, NoneBelow
<1>8. replicator.closed /\ ~asked
  BY <1>7 DEF Good, SourceGood
<1>9. /\ replicator.current = <<>> /\ replicator.next = <<>>
      /\ Members(replicator.current) = {} /\ Members(replicator.next) = {}
  <2>1. replicator.current = <<>> /\ replicator.next = <<>>
    BY <1>3, Known
  <2> QED BY <2>1, Known, EmptyList
<1>10. R2 = [master |-> None, current |-> <<>>,
             next |-> <<>>, active |-> replicator.active,
             deliveries |-> replicator.deliveries, index |-> replicator.index,
             closed |-> replicator.closed, replicas |-> replicator.replicas]
  BY <1>3, <1>9, Known
<1>11. /\ P2 \in [DOMAIN replica -> ReplicaType] /\ DOMAIN P2 = DOMAIN replica
       /\ \A x \in DOMAIN replica : /\ P2[x].index = replica[x].index /\ P2[x].got = replica[x].got
                                    /\ P2[x].buffer = replica[x].buffer
                                    /\ P2[x].waits <=> replica[x].waits /\ x # r
  <2>1. CASE r = None
    BY <1>3, <2>1, Known
  <2>2. CASE r # None
    <3>1. r \in DOMAIN replica
      BY <1>1, <2>2, Known
    <3>2. Told(replica, r, P2)
      BY <1>3, <2>2, <3>1, Known, ToldIs
    <3> QED BY <3>2 DEF Told, Changed
  <2> QED BY <2>1, <2>2
<1>12. CountsGood(R2, P2, s)
  <2>1. Plays(P2) = Plays(replica)
    BY <1>11 DEF Plays
  <2> QED BY <1>7, <1>10, <1>11, <2>1 DEF Good, CountsGood
<1>13. /\ R2.master = None /\ R2.current = <<>> /\ R2.next = <<>> /\ R2.closed
       /\ R2.index = replicator.index /\ R2.deliveries = replicator.deliveries
  BY <1>8, <1>10
<1>14. PlacesGood(R2, P2, s)
  <2>1. Waiting(R2, s) = On(s, "complete") /\ Waiting(replicator, stack) = On(s, "complete")
    BY <1>7, <1>9, <1>13 DEF Waiting
  <2>2. None \notin DOMAIN replica
    BY Known
  <2>3. /\ r \notin On(s, "complete") /\ On(s, "complete") \subseteq DOMAIN replica
        /\ \A x \in DOMAIN replica : replica[x].waits <=> x = r \/ x \in On(s, "complete")
    BY <1>1, <2>1 DEF Good, PlacesGood
  <2>4. \A x \in DOMAIN P2 : P2[x].waits <=> x = R2.master \/ x \in On(s, "complete")
    BY <1>11, <1>13, <2>2, <2>3
  <2>5. <<>> \in Seq(Replicas) /\ Distinct(<<>>) /\ Members(<<>>) = {}
    BY DEF Distinct, Members
  <2> QED BY <1>11, <1>13, <2>1, <2>2, <2>3, <2>4, <2>5 DEF PlacesGood
<1>15. IndexesGood(R2, P2, s)
  <2>1. Members(<<>>) = {}
    BY DEF Members
  <2> QED BY <1>7, <1>11, <1>13, <2>1 DEF Good, IndexesGood
<1>16. SourceGood(R2, asked, s)
  BY <1>7, <1>8, <1>13 DEF Good, SourceGood
<1>17. FramesGood(R2, P2, asked, s)
  <2>1. On(s, "complete") \subseteq DOMAIN replica
    BY <1>7 DEF Good, PlacesGood, Waiting
  <2> QED BY <1>7, <1>8, <1>11, <1>13, <2>1 DEF Good, FramesGood, InHand
<1>18. Good(R2, P2, asked, s)
  BY <1>5, <1>7, <1>12, <1>14, <1>15, <1>16, <1>17 DEF Good, GivenGood
<1>19. r \in Replicas \union {None}
  BY <1>1, Known
<1>20. Good(R2, P2, asked, Append(s, Reader(r)))
  <2>1. Below(s, 5)
    BY <1>5, BelowMore
  <2> QED BY <1>7, <1>13, <1>18, <1>19, <2>1, ReaderCalled
<1> QED BY <1>2, <1>3, <1>18, <1>20

-----------------------------------------------------------------------------
(* The delivery of a frame. *)

(* A replica is given the master's frame. *)
LEMMA DeliverToOtherKeeps ==
  ASSUME Good(replicator, replica, asked, stack), DeliverToOther
  PROVE  Good(replicator', replica', asked', stack')
<1>1. PICK C, r, m : C = replicator.current /\ r = Head(C) /\ m = replicator.master
  OBVIOUS
<1>2. PICK R2, P2 : R2 = replicator' /\ P2 = replica'
  OBVIOUS
<1>3. PICK b : b = replica[m].buffer
  OBVIOUS
<1>4. /\ Running("deliver") /\ C # <<>> /\ asked' = asked /\ stack' = Append(stack, Reader(r))
      /\ R2 = [replicator EXCEPT !.current = Tail(@), !.deliveries = @ + 1]
      /\ P2 = [replica EXCEPT ![r].index = Toggled(@), ![r].waits = FALSE,
                              ![r].buffer = b, ![r].got = b]
  BY <1>1, <1>2, <1>3 DEF DeliverToOther
<1>5. stack # <<>> /\ Last(stack).run = "deliver"
  BY <1>4 DEF Running
<1>6. Pushed(Front(stack), Last(stack), stack)
  BY <1>5, TopIsPushed DEF Good
<1>7. Below(stack, 5) /\ On(stack, "deliver") # {} /\ On(stack, "reader") = {}
  <2>1. Below(stack, Rank("deliver") + 1) /\ Last(stack).on \in On(stack, "deliver")
    BY <1>5, <1>6 DEF Pushed
  <2> QED BY <2>1, Ranks, NoneBelow
<1>8. m # None /\ ~asked /\ ~replicator.closed /\ InHand(replicator, asked)
  BY <1>1, <1>7 DEF Good, SourceGood, InHand
<1>9. /\ C \in Seq(Replicas) /\ Distinct(C)
      /\ replicator = [master |-> m, current |-> C, next |-> replicator.next,
                       active |-> replicator.active, deliveries |-> replicator.deliveries,
                       index |-> replicator.index, closed |-> replicator.closed,
                       replicas |-> replicator.replicas]
      /\ replica \in [DOMAIN replica -> ReplicaType] /\ replicator.index \in {0, 1}
      /\ replicator.deliveries \in Nat /\ IsFiniteSet(DOMAIN replica)
      /\ m \in DOMAIN replica
  BY <1>1, <1>8, Known
<1>10. r \in Members(C) /\ Lists(Tail(C), Members(C) \ {r})
  BY <1>1, <1>4, <1>9, Shortened
<1>11. /\ r \in DOMAIN replica /\ r \in Replicas /\ r # m /\ replica[r].index = replicator.index
       /\ replica[r].waits
  BY <1>1, <1>10, Known DEF Good, PlacesGood, IndexesGood, Waiting
<1>12. PICK C2, n, j : /\ C2 = Tail(C) /\ n = replicator.deliveries + 1
                       /\ j = 1 - replicator.index
  OBVIOUS
<1>13. C2 \in Seq(Replicas) /\ Distinct(C2) /\ Members(C2) = Members(C) \ {r}
  BY <1>10, <1>12 DEF Lists
<1>14. n \in Nat /\ j \in {0, 1} /\ j # replicator.index
  BY <1>9, <1>12
<1>15. R2 = [master |-> m, current |-> C2, next |-> replicator.next,
             active |-> replicator.active, deliveries |-> n,
             index |-> replicator.index, closed |-> replicator.closed,
             replicas |-> replicator.replicas]
  <2>1. R2 = [replicator EXCEPT !.current = C2, !.deliveries = n]
    BY <1>1, <1>4, <1>12
  <2>2. PICK N, k, d, i, e, z : /\ N = replicator.next /\ k = replicator.active
                                /\ d = replicator.deliveries /\ i = replicator.index
                                /\ e = replicator.closed /\ z = replicator.replicas
    OBVIOUS
  <2>3. replicator = [master |-> m, current |-> C, next |-> N, active |-> k, deliveries |-> d,
                      index |-> i, closed |-> e, replicas |-> z]
    BY <1>9, <2>2
  <2>4. R2 = [master |-> m, current |-> C2, next |-> N, active |-> k, deliveries |-> n,
              index |-> i, closed |-> e, replicas |-> z]
    BY ONLY <2>1, <2>3
  <2> QED BY ONLY <2>2, <2>4
<1>16. b = 0
  BY <1>1, <1>3, <1>8 DEF Good, FramesGood
<1>17. P2 \in [DOMAIN replica -> ReplicaType] /\ Changed(replica, P2, r)
  <2>1. P2 = [replica EXCEPT ![r].index = j, ![r].waits = FALSE, ![r].buffer = b, ![r].got = b]
    BY <1>4, <1>9, <1>11, <1>12 DEF Toggled
  <2>2. b \in 0..Older /\ j \in {NotPlaying, 0, 1}
    BY <1>14, <1>16 DEF Older
  <2>3. P2 \in [DOMAIN replica -> ReplicaType]
    <3>1. PICK k, f : k = replica[r] /\ f = FALSE
      OBVIOUS
    <3>2. P2[r] = [k EXCEPT !.index = j, !.waits = f, !.buffer = b, !.got = b]
      BY <1>11, <2>1, <3>1
    <3>3. k \in ReplicaType /\ f \in BOOLEAN
      BY <1>9, <1>11, <3>1
    <3>4. P2[r] \in ReplicaType
      BY ONLY <2>2, <3>2, <3>3 DEF ReplicaType
    <3>5. P2 = [x \in DOMAIN replica |-> IF x = r THEN P2[r] ELSE replica[x]]
      BY <1>11, <2>1
    <3> QED BY ONLY <1>9, <3>4, <3>5
  <2>4. Changed(replica, P2, r)
    BY ONLY <2>1 DEF Changed
  <2> QED BY <2>3, <2>4
<1>18. P2[r].index = j /\ ~P2[r].waits /\ P2[r].buffer = 0 /\ P2[r].got = 0
  <2>1. P2 = [replica EXCEPT ![r].index = j, ![r].waits = FALSE, ![r].buffer = b, ![r].got = b]
    BY <1>4, <1>9, <1>11, <1>12 DEF Toggled
  <2> QED BY ONLY <1>9, <1>11, <1>16, <2>1 DEF ReplicaType
<1>19. On(stack, "complete") = {}
  BY <1>1, <1>4 DEF Good, IndexesGood
<1>20. DOMAIN P2 = DOMAIN replica /\ \A x \in DOMAIN replica : x # r => P2[x] = replica[x]
  BY <1>17 DEF Changed
<1>21. /\ R2.master = m /\ R2.current = C2 /\ R2.next = replicator.next /\ R2.deliveries = n
       /\ R2.index = replicator.index /\ R2.closed = replicator.closed
       /\ R2.active = replicator.active /\ R2.replicas = replicator.replicas
  BY <1>15
<1>22. CountsGood(R2, P2, stack)
  <2>1. P2[r].index # NotPlaying /\ replica[r].index # NotPlaying
    BY <1>9, <1>11, <1>14, <1>18 DEF NotPlaying
  <2>2. Plays(P2) = Plays(replica)
    BY <1>11, <1>20, <2>1 DEF Plays
  <2> QED BY <1>14, <1>15, <1>17, <1>20, <2>2 DEF Good, CountsGood
<1> DEFINE N == Members(replicator.next)
<1>23. /\ Members(C) \intersect N = {} /\ m \notin Members(C) \union N
       /\ Members(C) \union N \subseteq DOMAIN replica
       /\ \A x \in DOMAIN replica : replica[x].waits <=> x = m \/ x \in Members(C) \union N
  BY <1>1, <1>19 DEF Good, PlacesGood, Waiting
<1>24. PlacesGood(R2, P2, stack)
  <2>1. Waiting(R2, stack) = (Members(C) \union N) \ {r}
    BY <1>10, <1>13, <1>19, <1>21, <1>23 DEF Waiting
  <2>2. replicator.next \in Seq(Replicas) /\ Distinct(replicator.next)
    BY Known
  <2>3. \A x \in DOMAIN P2 : P2[x].waits <=> x = R2.master \/ x \in Waiting(R2, stack)
    BY <1>11, <1>18, <1>20, <1>21, <1>23, <2>1
  <2> QED BY <1>9, <1>11, <1>13, <1>19, <1>20, <1>21, <1>23, <2>1, <2>2, <2>3 DEF PlacesGood
<1>25. IndexesGood(R2, P2, stack)
  <2>1. r \notin N /\ r \notin Members(C2)
    BY <1>10, <1>13, <1>23
  <2>2. P2[r].index # NotPlaying
    BY <1>14, <1>18 DEF NotPlaying
  <2>3. \A x \in Members(C2) : P2[x].index = replicator.index
    BY <1>1, <1>13, <1>20, <1>23 DEF Good, IndexesGood
  <2>4. \A x \in N : P2[x].index = 1 - replicator.index
    BY <1>19, <1>20, <1>23, <2>1 DEF Good, IndexesGood
  <2>5. \A x \in DOMAIN P2 : P2[x].index = NotPlaying => ~P2[x].waits /\ P2[x].got = Older
    BY <1>20, <2>2 DEF Good, IndexesGood
  <2> QED BY <1>19, <1>21, <2>3, <2>4, <2>5 DEF IndexesGood
<1>26. SourceGood(R2, asked, stack)
  BY <1>1, <1>19, <1>21 DEF Good, SourceGood
<1>27. FramesGood(R2, P2, asked, stack)
  <2>1. /\ replica[m].buffer = 0 /\ replica[m].got >= 1
        /\ \A x \in DOMAIN replica : replica[x].got = 0 => replica[x].index # replicator.index
    BY <1>1, <1>8 DEF Good, FramesGood
  <2> QED BY <1>9, <1>11, <1>14, <1>18, <1>19, <1>20, <1>21, <2>1 DEF FramesGood
<1>28. Good(R2, P2, asked, stack)
  BY <1>7, <1>22, <1>24, <1>25, <1>26, <1>27 DEF Good, GivenGood
<1>29. P2[r].index = 1 - R2.index /\ r \in DOMAIN P2
  BY <1>11, <1>12, <1>18, <1>20, <1>21
<1>30. Good(R2, P2, asked, Append(stack, Reader(r)))
  BY <1>7, <1>11, <1>19, <1>28, <1>29, ReaderCalled
<1> QED BY <1>2, <1>4, <1>30

(* Two replicas that play are counted as two. *)
LEMMA TwoPlay ==
  ASSUME NEW P, IsFiniteSet(DOMAIN P), NEW x \in Plays(P), NEW y \in Plays(P), x # y
  PROVE  Cardinality(Plays(P)) \in Nat /\ Cardinality(Plays(P)) >= 2
<1>1. Plays(P) \subseteq DOMAIN P /\ IsFiniteSet(Plays(P))
  BY FS_Subset DEF Plays
<1>2. {x, y} \subseteq Plays(P) /\ IsFiniteSet({x, y}) /\ Cardinality({x, y}) = 2
  <2>1. IsFiniteSet({x}) /\ Cardinality({x}) = 1
    BY FS_Singleton
  <2>2. {x} \union {y} = {x, y} /\ y \notin {x}
    OBVIOUS
  <2>3. IsFiniteSet({x} \union {y}) /\ Cardinality({x} \union {y}) = 1 + 1
    BY <2>1, <2>2, FS_AddElement
  <2> QED BY <2>2, <2>3
<1>3. Cardinality({x, y}) <= Cardinality(Plays(P))
  BY <1>1, <1>2, FS_Subset
<1>4. Cardinality(Plays(P)) \in Nat
  BY <1>1, FS_CardinalityType
<1> QED BY <1>2, <1>3, <1>4

(* Whoever waits plays. *)
LEMMA WaitersPlay ==
  ASSUME NEW R, NEW P, NEW a, NEW s, Good(R, P, a, s)
  PROVE  /\ Waiting(R, s) \subseteq Plays(P)
         /\ R.master # None => R.master \in Plays(P) /\ P[R.master].index \in {0, 1}
<1>1. \A x \in DOMAIN P : P[x].waits => x \in Plays(P)
  BY DEF Good, IndexesGood, Plays
<1>2. Waiting(R, s) \subseteq DOMAIN P /\ \A x \in Waiting(R, s) : P[x].waits
  BY DEF Good, PlacesGood
<1>3. R.master # None => R.master \in DOMAIN P /\ P[R.master].waits
  BY DEF Good, PlacesGood
<1>4. P \in [DOMAIN P -> ReplicaType]
  BY Known
<1>5. \A x \in Plays(P) : P[x].index \in {0, 1}
  BY <1>4 DEF Plays, ReplicaType
<1> QED BY <1>1, <1>2, <1>3, <1>5

(* What is below a delivery that is done. *)
LEMMA DeliveryIsDone ==
  ASSUME Good(replicator, replica, asked, stack), Running("deliver"), replicator.current = <<>>,
         AllOthersHaveIt
  PROVE  /\ Good(replicator, replica, asked, Front(stack)) /\ Below(Front(stack), 3)
         /\ InHand(replicator, asked) /\ replicator.master \in DOMAIN replica
         /\ \A f \in {"complete", "deliver", "close", "source", "reader"} : On(Front(stack), f) = {}
<1>1. PICK s : s = Front(stack)
  OBVIOUS
<1>2. stack # <<>> /\ Last(stack).run = "deliver"
  BY DEF Running
<1>3. Good(replicator, replica, asked, s) /\ Below(s, 4)
  BY <1>1, <1>2, PopGood, Ranks
<1>4. On(stack, "deliver") # {}
  <2>1. Pushed(Front(stack), Last(stack), stack)
    BY <1>2, TopIsPushed DEF Good
  <2>2. Last(stack).on \in On(stack, "deliver")
    BY <1>2, <2>1 DEF Pushed
  <2> QED BY <2>2
<1>5. InHand(replicator, asked)
  BY <1>4 DEF Good, SourceGood, InHand
<1>6. On(s, "deliver") = {} /\ On(s, "close") = {} /\ On(s, "source") = {} /\ On(s, "reader") = {}
  BY <1>3, Ranks, NoneBelow
<1>7. On(s, "complete") = {}
  <2>1. ASSUME NEW k \in On(s, "complete")
        PROVE  FALSE
    <3>1. replicator.deliveries = 0
      BY <1>3 DEF Good, IndexesGood
    <3>2. k \in Plays(replica) /\ replicator.master \in Plays(replica) /\ replicator.master # k
      BY <1>3, <1>5, WaitersPlay DEF Waiting, InHand, Good, PlacesGood
    <3>3. replicator.active \in Nat /\ replicator.active >= 2
      BY <1>3, <3>2, Known, TwoPlay
    <3>4. replicator.deliveries = replicator.active - 1
      BY DEF AllOthersHaveIt
    <3> QED BY <3>1, <3>3, <3>4
  <2> QED BY <2>1
<1>8. Below(s, 3)
  BY <1>3, <1>7, BelowLess DEF Good
<1>9. replicator.master \in DOMAIN replica
  BY <1>5, Known DEF InHand
<1> QED BY <1>1, <1>3, <1>5, <1>6, <1>7, <1>8, <1>9

(* r has toggled its index, and nothing else changes. *)
Turned(P, r, P2) ==
  /\ P2 \in [DOMAIN P -> ReplicaType] /\ Changed(P, P2, r)
  /\ P2[r].index = 1 - P[r].index /\ P2[r].buffer = P[r].buffer /\ P2[r].got = P[r].got
  /\ P2[r].waits = P[r].waits

(* What EXCEPT makes of it. *)
LEMMA TurnedIs ==
  ASSUME NEW P, P \in [DOMAIN P -> ReplicaType], NEW r \in DOMAIN P, P[r].index \in {0, 1},
         NEW P2, P2 = [P EXCEPT ![r].index = Toggled(@)]
  PROVE  Turned(P, r, P2)
<1>1. PICK i : i = 1 - P[r].index
  OBVIOUS
<1>2. i \in {0, 1} /\ i \in {NotPlaying, 0, 1}
  BY <1>1
<1>3. P2 = [P EXCEPT ![r].index = i]
  BY <1>1 DEF Toggled
<1>4. P2 \in [DOMAIN P -> ReplicaType]
  BY ONLY <1>2, <1>3, P \in [DOMAIN P -> ReplicaType], r \in DOMAIN P DEF ReplicaType
<1>5. Changed(P, P2, r)
  BY ONLY <1>3 DEF Changed
<1>6. P2[r].index = i /\ P2[r].buffer = P[r].buffer /\ P2[r].got = P[r].got /\ P2[r].waits = P[r].waits
  BY ONLY <1>3, P \in [DOMAIN P -> ReplicaType], r \in DOMAIN P DEF ReplicaType
<1> QED BY <1>1, <1>4, <1>5, <1>6 DEF Turned

(* The master has the frame too, and passes its office on. *)
LEMMA DeliverToMasterKeeps ==
  ASSUME Good(replicator, replica, asked, stack), DeliverToMaster
  PROVE  Good(replicator', replica', asked', stack')
<1>1. PICK s, m, N : s = Front(stack) /\ m = replicator.master /\ N = replicator.next
  OBVIOUS
<1>2. PICK R2, P2, a2 : R2 = replicator' /\ P2 = replica' /\ a2 = asked'
  OBVIOUS
<1>3. PICK c, t : c = [run |-> "complete", on |-> m] /\ t = Append(s, c)
  OBVIOUS
<1>4. /\ Running("deliver") /\ replicator.current = <<>> /\ AllOthersHaveIt
      /\ P2 = [replica EXCEPT ![m].index = Toggled(@)]
      /\ R2 = [replicator EXCEPT !.index = Toggled(@), !.deliveries = 0,
                                 !.master = IF N # <<>> THEN Head(N) ELSE None,
                                 !.next = IF N # <<>> THEN Tail(@) ELSE @]
      /\ a2 = (asked \/ N # <<>>)
      /\ stack' = IF N # <<>> THEN Append(t, Call("source")) ELSE t
  BY <1>1, <1>2, <1>3 DEF DeliverToMaster, Caller
<1>5. /\ Good(replicator, replica, asked, s) /\ Below(s, 3)
      /\ InHand(replicator, asked) /\ m \in DOMAIN replica
      /\ \A f \in {"complete", "deliver", "close", "source", "reader"} : On(s, f) = {}
  BY <1>1, <1>4, DeliveryIsDone
<1>6. /\ m # None /\ ~asked /\ ~replicator.closed /\ m \in Replicas
      /\ replica[m].buffer = 0 /\ replica[m].got >= 1
  BY <1>1, <1>5, Known DEF InHand, Good, FramesGood
<1>7. c \in Calls /\ c.run = "complete" /\ c.on = m
  BY <1>3, <1>6 DEF Calls, Functions
<1>8. Pushed(s, c, t)
  BY <1>3, <1>5, <1>7, Ranks, PushGood DEF Good
<1>9. /\ StackGood(t) /\ Below(t, 4)
      /\ \A f : On(t, f) = IF f = "complete" THEN On(s, f) \union {m} ELSE On(s, f)
  BY <1>7, <1>8, Ranks DEF Pushed
<1>10. /\ On(t, "complete") = {m} /\ On(t, "removed") = On(s, "removed")
       /\ On(t, "deliver") = {} /\ On(t, "close") = {} /\ On(t, "source") = {} /\ On(t, "reader") = {}
  BY <1>5, <1>9
<1>11. Turned(replica, m, P2)
  <2>1. replica[m].index \in {0, 1}
    BY <1>1, <1>5, <1>6, WaitersPlay
  <2> QED BY <1>4, <1>5, <2>1, Known, TurnedIs
<1>12. PICK h, N2 : /\ h = IF N # <<>> THEN Head(N) ELSE None
                    /\ N2 = IF N # <<>> THEN Tail(N) ELSE N
  OBVIOUS
<1>13. PICK k, i, j, e, z : /\ k = replicator.active /\ i = replicator.index /\ j = 1 - i
                            /\ e = replicator.closed /\ z = replicator.replicas
  OBVIOUS
<1>14. R2 = [master |-> h, current |-> <<>>, next |-> N2, active |-> k, deliveries |-> 0,
             index |-> j, closed |-> e, replicas |-> z]
  <2>1. PICK d : d = replicator.deliveries
    OBVIOUS
  <2>2. replicator = [master |-> m, current |-> <<>>, next |-> N, active |-> k, deliveries |-> d,
                      index |-> i, closed |-> e, replicas |-> z]
    BY <1>1, <1>4, <1>13, <2>1, Known
  <2>3. R2 = [replicator EXCEPT !.index = j, !.deliveries = 0, !.master = h, !.next = N2]
    <3>1. replicator.index = i /\ replicator.next = N
      BY <1>1, <1>13
    <3> QED BY ONLY <1>4, <1>12, <1>13, <3>1 DEF Toggled
  <2> QED BY ONLY <2>2, <2>3
<1>15. /\ R2.master = h /\ R2.current = <<>> /\ R2.next = N2 /\ R2.deliveries = 0 /\ R2.index = j
       /\ R2.closed = e /\ R2.active = k /\ R2.replicas = z
       /\ R2 = [master |-> R2.master, current |-> R2.current, next |-> R2.next, active |-> R2.active,
                deliveries |-> R2.deliveries, index |-> R2.index, closed |-> R2.closed,
                replicas |-> R2.replicas]
  BY ONLY <1>14
<1>16. i \in {0, 1} /\ j \in {0, 1} /\ e = FALSE
  BY <1>5, <1>6, <1>13, Known
<1>17. /\ DOMAIN P2 = DOMAIN replica /\ P2 \in [DOMAIN P2 -> ReplicaType]
       /\ \A x \in DOMAIN replica : /\ P2[x].got = replica[x].got /\ P2[x].buffer = replica[x].buffer
                                    /\ P2[x].waits = replica[x].waits
                                    /\ (x # m => P2[x].index = replica[x].index)
       /\ P2[m].index # NotPlaying
  <2>1. replica[m].index \in {0, 1}
    BY <1>1, <1>5, <1>6, WaitersPlay
  <2> QED BY <1>11, <2>1 DEF Turned, Changed, NotPlaying
<1>18. CountsGood(R2, P2, t)
  <2>1. m \in Plays(replica)
    BY <1>1, <1>5, <1>6, WaitersPlay
  <2>2. Plays(P2) = Plays(replica)
    BY <1>5, <1>17, <2>1 DEF Plays
  <2> QED BY <1>5, <1>10, <1>13, <1>15, <1>16, <1>17, <2>2 DEF Good, CountsGood
<1>19. /\ N \in Seq(Replicas) /\ Distinct(N)
       /\ m \notin Members(N) /\ Members(N) \subseteq DOMAIN replica
       /\ \A x \in DOMAIN replica : replica[x].waits <=> x = m \/ x \in Members(N)
  <2>1. Members(<<>>) = {}
    BY DEF Members
  <2> QED BY <1>1, <1>4, <1>5, <2>1 DEF Good, PlacesGood, Waiting
<1>20. /\ N2 \in Seq(Replicas) /\ Distinct(N2) /\ h \notin Members(N2)
       /\ h \in Members(N) \union {None} /\ Members(N2) \subseteq Members(N)
       /\ \A x \in Replicas : x \in Members(N) <=> x = h \/ x \in Members(N2)
       /\ h # None <=> N # <<>>
  <2>1. None \notin Members(N)
    BY <1>5, <1>19, Known
  <2>2. CASE N = <<>>
    <3>1. h = None /\ N2 = N
      BY <1>12, <2>2
    <3> QED BY <1>19, <2>1, <2>2, <3>1, NoneAssumption
  <2>3. CASE N # <<>>
    <3>1. h = Head(N) /\ N2 = Tail(N)
      BY <1>12, <2>3
    <3>2. h \in Members(N) /\ Lists(N2, Members(N) \ {h})
      BY <1>19, <2>3, <3>1, Shortened
    <3> QED BY <2>1, <2>3, <3>2 DEF Lists
  <2> QED BY <2>2, <2>3
<1>21. PlacesGood(R2, P2, t)
  <2>1. Members(<<>>) = {} /\ Distinct(<<>>) /\ <<>> \in Seq(Replicas)
    BY DEF Members, Distinct
  <2>2. Waiting(R2, t) = Members(N2) \union {m}
    BY <1>10, <1>15, <2>1 DEF Waiting
  <2>3. h # m
    BY <1>6, <1>19, <1>20
  <2>4. \A x \in DOMAIN P2 : P2[x].waits <=> x = h \/ x \in Members(N2) \union {m}
    <3>1. DOMAIN replica \subseteq Replicas
      BY <1>5, Known
    <3> QED BY <1>17, <1>19, <1>20, <3>1
  <2> QED BY <1>5, <1>10, <1>15, <1>17, <1>19, <1>20, <2>1, <2>2, <2>3, <2>4 DEF PlacesGood
<1>22. IndexesGood(R2, P2, t)
  <2>1. /\ \A x \in DOMAIN replica : replica[x].index = NotPlaying => ~replica[x].waits /\ replica[x].got = Older
        /\ \A x \in Members(N) : replica[x].index = j
    BY <1>1, <1>5, <1>13 DEF Good, IndexesGood
  <2>2. \A x \in DOMAIN P2 : P2[x].index = NotPlaying => ~P2[x].waits /\ P2[x].got = Older
    BY <1>17, <2>1
  <2>3. \A x \in Members(N2) : P2[x].index = j
    BY <1>17, <1>19, <1>20, <2>1
  <2>4. Members(<<>>) = {}
    BY DEF Members
  <2> QED BY <1>10, <1>15, <2>2, <2>3, <2>4 DEF IndexesGood
<1>23. a2 = (N # <<>>) /\ a2 \in BOOLEAN
  BY <1>4, <1>6
<1>24. SourceGood(R2, a2, t)
  BY <1>10, <1>15, <1>16, <1>20, <1>23 DEF SourceGood
<1>25. FramesGood(R2, P2, a2, t)
  <2>1. ~InHand(R2, a2)
    BY <1>15, <1>20, <1>23 DEF InHand
  <2>2. P2[m].buffer = 0 /\ P2[m].got \in 0..Older /\ P2[m].got >= 1
    BY <1>5, <1>6, <1>17 DEF ReplicaType
  <2> QED BY <1>10, <2>1, <2>2 DEF FramesGood
<1>26. Good(R2, P2, a2, t)
  BY <1>9, <1>10, <1>18, <1>21, <1>22, <1>24, <1>25 DEF Good, GivenGood
<1>27. CASE N # <<>>
  <2>1. Good(R2, P2, TRUE, t)
    BY <1>23, <1>26, <1>27
  <2>2. Below(t, 5)
    BY <1>9, BelowMore
  <2>3. Good(R2, P2, TRUE, Append(t, Call("source")))
    BY <2>1, <2>2, SourceCalled
  <2>4. stack' = Append(t, Call("source")) /\ a2 = TRUE
    BY <1>4, <1>23, <1>27
  <2> QED BY <1>2, <2>3, <2>4
<1>28. CASE N = <<>>
  <2>1. stack' = t
    BY <1>4, <1>28
  <2> QED BY <1>2, <1>26, <2>1
<1> QED BY <1>27, <1>28

(* The master's reader is called, and those that waited for the next frame
   wait for the current one. *)
LEMMA CompleteMasterKeeps ==
  ASSUME Good(replicator, replica, asked, stack), CompleteMaster
  PROVE  Good(replicator', replica', asked', stack')
<1>1. PICK s, r, N : s = Front(stack) /\ r = Last(stack).on /\ N = replicator.next
  OBVIOUS
<1>2. PICK R2, P2 : R2 = replicator' /\ P2 = replica'
  OBVIOUS
<1>3. PICK b, f : b = replica[r].buffer /\ f = FALSE
  OBVIOUS
<1>4. /\ Running("complete") /\ asked' = asked /\ stack' = Append(s, Reader(r))
      /\ R2 = [replicator EXCEPT !.current = N, !.next = <<>>]
      /\ P2 = [replica EXCEPT ![r].waits = f, ![r].got = b]
  BY <1>1, <1>2, <1>3 DEF CompleteMaster, Caller
<1>5. stack # <<>> /\ Last(stack).run = "complete"
  BY <1>4 DEF Running
<1>6. StackGood(s) /\ Below(s, 3) /\ Pushed(s, Last(stack), stack)
  BY <1>1, <1>5, TopIsPushed, Ranks DEF Good
<1>7. \A g : On(stack, g) = IF g = "complete" THEN On(s, g) \union {r} ELSE On(s, g)
  BY <1>1, <1>5, <1>6 DEF Pushed
<1>8. \A g \in {"complete", "deliver", "close", "source", "reader"} : On(s, g) = {}
  BY <1>6, Ranks, NoneBelow
<1>9. /\ On(stack, "complete") = {r} /\ On(stack, "removed") = On(s, "removed")
      /\ On(stack, "deliver") = {} /\ On(stack, "close") = {}
      /\ On(stack, "source") = {} /\ On(stack, "reader") = {}
  BY <1>7, <1>8
<1>10. /\ replicator.current = <<>> /\ replicator.deliveries = 0
       /\ \A x \in Members(N) : replica[x].index = replicator.index
       /\ \A x \in DOMAIN replica : replica[x].index = NotPlaying => ~replica[x].waits /\ replica[x].got = Older
  BY <1>1, <1>9 DEF Good, IndexesGood
<1>11. Members(<<>>) = {} /\ Distinct(<<>>) /\ <<>> \in Seq(Replicas)
  BY DEF Members, Distinct
<1>12. Waiting(replicator, stack) = Members(N) \union {r}
  BY <1>1, <1>9, <1>10, <1>11 DEF Waiting
<1>13. /\ N \in Seq(Replicas) /\ Distinct(N) /\ r \notin Members(N)
       /\ replicator.master \notin Members(N) \union {r}
       /\ replicator.master \in DOMAIN replica \union {None}
       /\ Members(N) \union {r} \subseteq DOMAIN replica
       /\ \A x \in DOMAIN replica :
            replica[x].waits <=> x = replicator.master \/ x \in Members(N) \union {r}
  BY <1>1, <1>9, <1>12 DEF Good, PlacesGood
<1>14. r \in DOMAIN replica /\ r \in Replicas /\ replica[r].waits
  BY <1>13, Known
<1>15. /\ DOMAIN P2 = DOMAIN replica /\ P2 \in [DOMAIN P2 -> ReplicaType]
       /\ \A x \in DOMAIN replica : x # r => P2[x] = replica[x]
       /\ P2[r].index = replica[r].index /\ ~P2[r].waits /\ P2[r].got = b
  <2>1. replica \in [DOMAIN replica -> ReplicaType]
    BY Known
  <2>2. b \in 0..Older /\ f \in BOOLEAN
    BY <1>3, <1>14, <2>1 DEF ReplicaType
  <2>3. PICK k : k = replica[r]
    OBVIOUS
  <2>4. k \in ReplicaType
    BY <1>14, <2>1, <2>3
  <2>5. P2[r] = [k EXCEPT !.waits = f, !.got = b]
    BY ONLY <1>4, <1>14, <2>3
  <2>6. P2[r] \in ReplicaType /\ P2[r].index = k.index /\ P2[r].waits = f /\ P2[r].got = b
    BY ONLY <2>2, <2>4, <2>5 DEF ReplicaType
  <2>7. DOMAIN P2 = DOMAIN replica /\ \A x \in DOMAIN replica : x # r => P2[x] = replica[x]
    BY ONLY <1>4
  <2>8. P2 = [x \in DOMAIN replica |-> IF x = r THEN P2[r] ELSE replica[x]]
    BY ONLY <1>4, <1>14
  <2>9. P2 \in [DOMAIN replica -> ReplicaType]
    BY ONLY <2>1, <2>6, <2>8
  <2> QED BY <1>3, <2>3, <2>6, <2>7, <2>9
<1>16. /\ R2.master = replicator.master /\ R2.current = N /\ R2.next = <<>>
       /\ R2.deliveries = replicator.deliveries /\ R2.index = replicator.index
       /\ R2.closed = replicator.closed /\ R2.active = replicator.active
       /\ R2.replicas = replicator.replicas
       /\ R2 = [master |-> R2.master, current |-> R2.current, next |-> R2.next, active |-> R2.active,
                deliveries |-> R2.deliveries, index |-> R2.index, closed |-> R2.closed,
                replicas |-> R2.replicas]
  <2>1. PICK m, C, k, d, i, e, z :
          /\ m = replicator.master /\ C = replicator.current /\ k = replicator.active
          /\ d = replicator.deliveries /\ i = replicator.index
          /\ e = replicator.closed /\ z = replicator.replicas
    OBVIOUS
  <2>2. replicator = [master |-> m, current |-> C, next |-> N, active |-> k, deliveries |-> d,
                      index |-> i, closed |-> e, replicas |-> z]
    BY <1>1, <2>1, Known
  <2>3. R2 = [master |-> m, current |-> N, next |-> <<>>, active |-> k, deliveries |-> d,
              index |-> i, closed |-> e, replicas |-> z]
    BY ONLY <1>4, <2>2
  <2> QED BY ONLY <2>1, <2>3
<1>17. CountsGood(R2, P2, s)
  <2>1. Plays(P2) = Plays(replica)
    BY <1>14, <1>15 DEF Plays
  <2> QED BY <1>9, <1>15, <1>16, <2>1 DEF Good, CountsGood
<1>18. PlacesGood(R2, P2, s)
  <2>1. Waiting(R2, s) = Members(N)
    BY <1>8, <1>11, <1>16 DEF Waiting
  <2>2. \A x \in DOMAIN P2 : P2[x].waits <=> x = R2.master \/ x \in Members(N)
    BY <1>13, <1>15, <1>16
  <2> QED BY <1>8, <1>11, <1>13, <1>15, <1>16, <2>1, <2>2 DEF PlacesGood
<1>19. IndexesGood(R2, P2, s)
  <2>1. \A x \in DOMAIN P2 : P2[x].index = NotPlaying => ~P2[x].waits /\ P2[x].got = Older
    BY <1>10, <1>14, <1>15
  <2>2. \A x \in Members(N) : P2[x].index = replicator.index
    BY <1>10, <1>13, <1>15
  <2> QED BY <1>8, <1>11, <1>16, <2>1, <2>2 DEF IndexesGood
<1>20. SourceGood(R2, asked, s)
  BY <1>8, <1>9, <1>16 DEF Good, SourceGood
<1>21. FramesGood(R2, P2, asked, s)
  <2>1. ASSUME InHand(R2, asked)
        PROVE  /\ P2[R2.master].buffer = 0 /\ P2[R2.master].got >= 1
               /\ \A x \in DOMAIN P2 : P2[x].got = 0 => P2[x].index # R2.index
    <3>1. InHand(replicator, asked) /\ replicator.master \in DOMAIN replica
      BY <1>13, <1>16, <2>1 DEF InHand
    <3>2. /\ replica[replicator.master].buffer = 0 /\ replica[replicator.master].got >= 1
          /\ \A x \in DOMAIN replica : replica[x].got = 0 => replica[x].index # replicator.index
          /\ b >= 1
      BY <1>3, <1>9, <3>1 DEF Good, FramesGood
    <3>3. b # 0
      BY ONLY <3>2
    <3> QED BY <1>13, <1>15, <1>16, <3>1, <3>2, <3>3
  <2> QED BY <1>8, <2>1 DEF FramesGood
<1>22. Good(R2, P2, asked, s)
  BY <1>6, <1>8, <1>17, <1>18, <1>19, <1>20, <1>21 DEF Good, GivenGood
<1>23. Below(s, 5)
  BY <1>6, BelowMore
<1>24. Good(R2, P2, asked, Append(s, Reader(r)))
  BY <1>8, <1>14, <1>22, <1>23, ReaderCalled
<1> QED BY <1>2, <1>4, <1>24

-----------------------------------------------------------------------------
(* Functions that end. *)

(* The last line of deactivateStreamReplica stops reading the source only
   when no replica plays, and then it is not read. *)
LEMMA DeactivatedKeeps ==
  ASSUME Good(replicator, replica, asked, stack), Deactivated
  PROVE  Good(replicator', replica', asked', stack')
<1>1. /\ Running("deactivated") /\ replicator' = replicator /\ replica' = replica
      /\ asked' = (asked /\ replicator.active > 0) /\ stack' = Front(stack)
  BY DEF Deactivated, Caller
<1>2. Good(replicator, replica, asked, Front(stack))
  BY <1>1, PopGood DEF Running
<1>3. asked \in BOOLEAN /\ (asked => replicator.master # None)
  BY DEF Good, SourceGood
<1>4. asked => replicator.active > 0
  <2>1. ASSUME asked
        PROVE  replicator.active > 0
    <3>1. replicator.master \in Plays(replica)
      BY <1>3, <2>1, WaitersPlay
    <3>2. Plays(replica) \subseteq DOMAIN replica /\ IsFiniteSet(Plays(replica))
      BY Known, FS_Subset DEF Plays
    <3>3. Cardinality(Plays(replica)) \in Nat /\ Cardinality(Plays(replica)) # 0
      BY <3>1, <3>2, FS_CardinalityType, FS_EmptySet
    <3> QED BY <3>3, Known
  <2> QED BY <2>1
<1>5. asked' = asked
  BY <1>1, <1>3, <1>4
<1> QED BY <1>1, <1>2, <1>5

(* The last line of removeStreamReplica deletes the replicator, and stops
   reading the source, only when no replica is left. *)
LEMMA RemovedKeeps ==
  ASSUME Good(replicator, replica, asked, stack), Removed
  PROVE  Good(replicator', replica', asked', stack') /\ gone' \in BOOLEAN
<1>1. PICK s, R2 : s = Front(stack) /\ R2 = replicator'
  OBVIOUS
<1>2. /\ Running("removed") /\ replica' = replica /\ stack' = s
      /\ R2 = [replicator EXCEPT !.replicas = @ - 1]
      /\ gone' = (R2.replicas = 0) /\ asked' = (asked /\ ~gone')
  BY <1>1 DEF Removed, Caller
<1>3. stack # <<>> /\ Last(stack).run = "removed"
  BY <1>2 DEF Running
<1>4. StackGood(s) /\ Below(s, 1) /\ Pushed(s, Last(stack), stack)
  BY <1>1, <1>3, TopIsPushed, Ranks DEF Good
<1>5. \A f : On(s, f) = {}
  <2>1. ASSUME NEW f
        PROVE  On(s, f) = {}
    <3>1. Rank(f) >= 1
      BY Ranks
    <3> QED BY <1>4, <3>1, NoneBelow
  <2> QED BY <2>1
<1>6. \A f : On(stack, f) = IF f = "removed" THEN On(s, f) \union {Last(stack).on} ELSE On(s, f)
  BY <1>3, <1>4 DEF Pushed
<1>7. /\ On(stack, "removed") # {} /\ \A f : f # "removed" => On(stack, f) = {}
  BY <1>5, <1>6
<1>8. PICK k, z : k = Cardinality(DOMAIN replica) /\ z = replicator.replicas - 1
  OBVIOUS
<1>9. k \in Nat /\ z = k /\ (k = 0 => DOMAIN replica = {})
  <2>1. IsFiniteSet(DOMAIN replica)
    BY Known
  <2>2. k \in Nat /\ (k = 0 => DOMAIN replica = {})
    BY <1>8, <2>1, FS_CardinalityType, FS_EmptySet
  <2>3. replicator.replicas = k + 1
    BY <1>7, <1>8 DEF Good, CountsGood
  <2> QED BY <1>8, <2>2, <2>3
<1>10. /\ R2.master = replicator.master /\ R2.current = replicator.current
       /\ R2.next = replicator.next /\ R2.active = replicator.active
       /\ R2.deliveries = replicator.deliveries /\ R2.index = replicator.index
       /\ R2.closed = replicator.closed /\ R2.replicas = z
       /\ R2 = [master |-> R2.master, current |-> R2.current, next |-> R2.next, active |-> R2.active,
                deliveries |-> R2.deliveries, index |-> R2.index, closed |-> R2.closed,
                replicas |-> R2.replicas]
  <2>1. R2 = [replicator EXCEPT !.replicas = z]
    BY <1>2, <1>8
  <2> QED BY <2>1, Known
<1>11. asked \in BOOLEAN /\ (asked => replicator.master # None)
  BY DEF Good, SourceGood
<1>12. asked' = asked
  <2>1. asked => DOMAIN replica # {}
    BY <1>11, Known
  <2> QED BY <1>2, <1>9, <1>10, <1>11, <2>1
<1>13. CountsGood(R2, replica, s)
  <2>1. On(s, "removed") = {}
    BY <1>5
  <2>2. R2.replicas = Cardinality(DOMAIN replica) + 0
    BY <1>8, <1>9, <1>10
  <2> QED BY <1>10, <2>1, <2>2 DEF Good, CountsGood
<1>14. PlacesGood(R2, replica, s) /\ IndexesGood(R2, replica, s)
  BY <1>5, <1>7, <1>10 DEF Good, PlacesGood, IndexesGood, Waiting
<1>15. SourceGood(R2, asked, s) /\ FramesGood(R2, replica, asked, s) /\ GivenGood(R2, replica, s)
  BY <1>5, <1>7, <1>10 DEF Good, SourceGood, FramesGood, GivenGood, InHand
<1> QED BY <1>1, <1>2, <1>4, <1>12, <1>13, <1>14, <1>15 DEF Good

(* A function that returns leaves what is below it. *)
LEMMA ReturnsKeeps ==
  ASSUME Good(replicator, replica, asked, stack),
         NEW f \in {"reader", "source", "deliver"}, Returns(f)
  PROVE  Good(replicator', replica', asked', stack')
<1>1. /\ stack # <<>> /\ Last(stack).run = f /\ stack' = Front(stack)
      /\ replicator' = replicator /\ replica' = replica /\ asked' = asked
  BY DEF Returns, Running, Caller
<1>2. Good(replicator, replica, asked, Front(stack))
  BY <1>1, PopGood
<1> QED BY <1>1, <1>2

-----------------------------------------------------------------------------
(* What replicas, readers and the source do by themselves or when called. *)

(* A replica that is created does not play. *)
LEMMA CreateStreamReplicaKeeps ==
  ASSUME Good(replicator, replica, asked, stack), NEW r \in Replicas, CreateStreamReplica(r)
  PROVE  Good(replicator', replica', asked', stack')
<1>1. PICK R2, P2 : R2 = replicator' /\ P2 = replica'
  OBVIOUS
<1>2. PICK n, z : n = NewReplica /\ z = replicator.replicas + 1
  OBVIOUS
<1>3. /\ stack = <<>> /\ r \notin DOMAIN replica /\ asked' = asked /\ stack' = stack
      /\ P2 = [x \in DOMAIN replica \union {r} |-> IF x = r THEN n ELSE replica[x]]
      /\ R2 = [replicator EXCEPT !.replicas = z]
  BY <1>1, <1>2 DEF CreateStreamReplica, Alive
<1>4. /\ n \in ReplicaType /\ n.index = NotPlaying /\ ~n.waits /\ n.got = Older
  BY <1>2 DEF NewReplica, ReplicaType, NotPlaying, Older
<1>5. /\ DOMAIN P2 = DOMAIN replica \union {r} /\ P2[r] = n
      /\ \A x \in DOMAIN replica : P2[x] = replica[x]
      /\ P2 \in [DOMAIN P2 -> ReplicaType]
  <2>1. replica \in [DOMAIN replica -> ReplicaType]
    BY Known
  <2> QED BY ONLY <1>3, <1>4, <2>1
<1>6. /\ R2.master = replicator.master /\ R2.current = replicator.current
      /\ R2.next = replicator.next /\ R2.active = replicator.active
      /\ R2.deliveries = replicator.deliveries /\ R2.index = replicator.index
      /\ R2.closed = replicator.closed /\ R2.replicas = z
      /\ R2 = [master |-> R2.master, current |-> R2.current, next |-> R2.next, active |-> R2.active,
               deliveries |-> R2.deliveries, index |-> R2.index, closed |-> R2.closed,
               replicas |-> R2.replicas]
  BY <1>3, Known
<1>7. \A f : On(stack, f) = {}
  BY <1>3, NothingOn
<1>8. CountsGood(R2, P2, stack)
  <2>1. IsFiniteSet(DOMAIN replica) /\ DOMAIN replica \subseteq Replicas
    BY Known
  <2>2. /\ IsFiniteSet(DOMAIN P2) /\ Cardinality(DOMAIN P2) = Cardinality(DOMAIN replica) + 1
        /\ Cardinality(DOMAIN replica) \in Nat
    BY <1>3, <1>5, <2>1, FS_AddElement, FS_CardinalityType
  <2>3. Plays(P2) = Plays(replica)
    BY <1>3, <1>4, <1>5 DEF Plays
  <2>4. replicator.replicas = Cardinality(DOMAIN replica) + 0
    BY <1>7 DEF Good, CountsGood
  <2>5. R2.replicas = Cardinality(DOMAIN P2) + 0
    BY <1>2, <1>6, <2>2, <2>4
  <2> QED BY <1>5, <1>6, <1>7, <2>1, <2>2, <2>3, <2>5 DEF Good, CountsGood
<1>9. PlacesGood(R2, P2, stack)
  <2>1. Waiting(R2, stack) = Waiting(replicator, stack)
    BY <1>6 DEF Waiting
  <2>2. r \notin Waiting(replicator, stack) /\ r # replicator.master
    BY <1>3, Known, NoneAssumption
  <2> QED BY <1>4, <1>5, <1>6, <2>1, <2>2 DEF Good, PlacesGood
<1>10. Members(replicator.current) \subseteq DOMAIN replica /\ Members(replicator.next) \subseteq DOMAIN replica
  BY Known DEF Waiting
<1>11. IndexesGood(R2, P2, stack)
  BY <1>3, <1>4, <1>5, <1>6, <1>10 DEF Good, IndexesGood
<1>12. SourceGood(R2, asked, stack) /\ GivenGood(R2, P2, stack)
  BY <1>6, <1>7 DEF Good, SourceGood, GivenGood
<1>13. FramesGood(R2, P2, asked, stack)
  <2>1. replicator.master # None => replicator.master \in DOMAIN replica
    BY Known
  <2> QED BY <1>4, <1>5, <1>6, <1>7, <2>1 DEF Good, FramesGood, InHand, Older
<1> QED BY <1>1, <1>3, <1>8, <1>9, <1>11, <1>12, <1>13 DEF Good

(* A replica stops or is deleted while nothing else is in progress. *)
LEMMA StopKeeps ==
  ASSUME Good(replicator, replica, asked, <<>>), NEW r \in Alive,
         StopGettingFrames(r, <<>>) \/ DeleteReplica(r, <<>>)
  PROVE  Good(replicator', replica', asked', stack')
<1>1. CASE StopGettingFrames(r, <<>>)
  <2>1. Leaves(replica, r, replica', <<>>) /\ BuffersKept(r, replica')
    BY <1>1, StopLeaves DEF StopGettingFrames
  <2> QED BY <1>1, <2>1, Quiets, DeactivateKeeps DEF StopGettingFrames
<1>2. CASE DeleteReplica(r, <<>>)
  <2>1. Leaves(replica, r, replica', Append(<<>>, Call("removed"))) /\ BuffersKept(r, replica')
    BY <1>2, DeleteLeaves DEF DeleteReplica
  <2> QED BY <1>2, <2>1, Quiets, DeactivateKeeps DEF DeleteReplica
<1> QED BY <1>1, <1>2

(* A reader acts by itself. *)
LEMMA ReaderActsKeeps ==
  ASSUME Good(replicator, replica, asked, stack), NEW r, ReaderActs(r)
  PROVE  Good(replicator', replica', asked', stack')
<1>1. r \in Alive /\ Good(replicator, replica, asked, <<>>)
  BY DEF ReaderActs
<1>2. CASE GetNextFrame(r, <<>>)
  <2>1. Below(<<>>, 5)
    BY DEF Below
  <2> QED BY <1>1, <1>2, <2>1, NothingOn, GetNextFrameKeeps
<1>3. CASE StopGettingFrames(r, <<>>) \/ DeleteReplica(r, <<>>)
  BY <1>1, <1>3, StopKeeps
<1> QED BY <1>2, <1>3 DEF ReaderActs

(* What is below a reader that is called. *)
LEMMA BelowReader ==
  ASSUME Good(replicator, replica, asked, stack), Running("reader")
  PROVE  /\ Good(replicator, replica, asked, Caller) /\ Below(Caller, 5)
         /\ Last(stack).on \in On(stack, "reader")
         /\ On(Caller, "deliver") = On(stack, "deliver") /\ On(Caller, "complete") = On(stack, "complete")
<1>1. stack # <<>> /\ Last(stack).run = "reader"
  BY DEF Running
<1>2. Good(replicator, replica, asked, Caller) /\ Below(Caller, 5)
  BY <1>1, PopGood, Ranks DEF Caller
<1>3. Pushed(Caller, Last(stack), stack)
  BY <1>1, TopIsPushed DEF Good, Caller
<1>4. \A f : On(stack, f) = IF f = "reader" THEN On(Caller, f) \union {Last(stack).on} ELSE On(Caller, f)
  BY <1>1, <1>3 DEF Pushed
<1> QED BY <1>2, <1>4

(* A reader that is called asks for the next frame at once. *)
LEMMA ReaderAsksWhenCalledKeeps ==
  ASSUME Good(replicator, replica, asked, stack), ReaderAsksWhenCalled
  PROVE  Good(replicator', replica', asked', stack')
<1>1. PICK r : r = Last(stack).on
  OBVIOUS
<1>2. Running("reader") /\ r \in Alive /\ ~replicator.closed /\ GetNextFrame(r, Caller)
  BY <1>1 DEF ReaderAsksWhenCalled
<1>3. On(Caller, "deliver") # {} => replica[r].index = 1 - replicator.index
  BY <1>1, <1>2, BelowReader DEF Good, GivenGood
<1>4. On(Caller, "complete") # {} => replicator.closed
  BY <1>2, BelowReader DEF Good, SourceGood
<1> QED BY <1>2, <1>3, <1>4, BelowReader, GetNextFrameKeeps

(* A reader that is called stops or deletes its replica when nothing else is
   in progress. *)
LEMMA ReaderStopsWhenCalledKeeps ==
  ASSUME Good(replicator, replica, asked, stack), ReaderStopsWhenCalled, StopsInside = FALSE
  PROVE  Good(replicator', replica', asked', stack')
<1>1. /\ Running("reader") /\ Caller = <<>> /\ Last(stack).on \in Alive
      /\ StopGettingFrames(Last(stack).on, <<>>) \/ DeleteReplica(Last(stack).on, <<>>)
  BY DEF ReaderStopsWhenCalled
<1>2. Good(replicator, replica, asked, <<>>)
  BY <1>1, BelowReader
<1> QED BY <1>1, <1>2, StopKeeps

(* The source answers later. *)
LEMMA SourceAnswersKeeps ==
  ASSUME Good(replicator, replica, asked, stack), SourceAnswers
  PROVE  Good(replicator', replica', asked', stack')
<1>1. /\ Good(replicator, replica, asked, <<>>) /\ asked
      /\ AfterGettingFrame(<<>>) \/ OnSourceClosure(<<>>)
  BY DEF SourceAnswers
<1>2. Below(<<>>, 5)
  BY DEF Below
<1> QED BY <1>1, <1>2, AfterGettingFrameKeeps, OnSourceClosureKeeps

(* The source answers before the request returns. *)
LEMMA SourceAnswersAtOnceKeeps ==
  ASSUME Good(replicator, replica, asked, stack), SourceAnswersAtOnce
  PROVE  Good(replicator', replica', asked', stack')
<1>1. /\ stack # <<>> /\ Last(stack).run = "source"
      /\ AfterGettingFrame(Caller) \/ OnSourceClosure(Caller)
  BY DEF SourceAnswersAtOnce, Running
<1>2. Good(replicator, replica, asked, Caller) /\ Below(Caller, 5)
  BY <1>1, PopGood, Ranks DEF Caller
<1>3. On(stack, "source") # {}
  <2>1. Pushed(Front(stack), Last(stack), stack)
    BY <1>1, TopIsPushed DEF Good
  <2>2. Last(stack).on \in On(stack, "source")
    BY <1>1, <2>1 DEF Pushed
  <2> QED BY <2>2
<1>4. asked
  BY <1>3 DEF Good, SourceGood
<1> QED BY <1>1, <1>2, <1>4, AfterGettingFrameKeeps, OnSourceClosureKeeps

-----------------------------------------------------------------------------
(* The invariant. *)

(* At first there is no replica and nothing is in progress. *)
LEMMA InitGood == Init => IInv
<1> SUFFICES ASSUME Init PROVE IInv
  OBVIOUS
<1>1. PICK R, P : R = replicator /\ P = replica
  OBVIOUS
<1>2. /\ R = [master |-> None, current |-> <<>>, next |-> <<>>, active |-> 0,
              deliveries |-> 0, index |-> 0, closed |-> FALSE, replicas |-> 0]
      /\ P = [r \in {} |-> NewReplica] /\ asked = FALSE /\ stack = <<>>
      /\ gone = FALSE /\ abandoned = FALSE
  BY <1>1 DEF Init
<1>3. DOMAIN P = {} /\ P \in [DOMAIN P -> ReplicaType] /\ Plays(P) = {}
  BY <1>2 DEF Plays
<1>4. /\ R.master = None /\ R.current = <<>> /\ R.next = <<>> /\ R.active = 0 /\ R.deliveries = 0
      /\ R.index = 0 /\ R.closed = FALSE /\ R.replicas = 0
  BY <1>2
<1>5. \A f : On(stack, f) = {}
  BY <1>2, NothingOn
<1>6. Members(<<>>) = {} /\ Distinct(<<>>) /\ <<>> \in Seq(Replicas)
  BY DEF Members, Distinct
<1>7. CountsGood(R, P, stack)
  <2>1. IsFiniteSet({}) /\ Cardinality({}) = 0
    BY FS_EmptySet
  <2>2. On(stack, "removed") = {}
    BY <1>5
  <2>3. R.replicas = Cardinality(DOMAIN P) + 0
    BY <1>3, <1>4, <2>1
  <2>4. R = [master |-> R.master, current |-> R.current, next |-> R.next, active |-> R.active,
             deliveries |-> R.deliveries, index |-> R.index, closed |-> R.closed,
             replicas |-> R.replicas]
    BY <1>2
  <2>5. IsFiniteSet(DOMAIN P) /\ R.active = Cardinality(Plays(P)) /\ DOMAIN P \subseteq Replicas
    BY <1>3, <1>4, <2>1
  <2>6. R.deliveries \in Nat /\ R.index \in {0, 1}
    BY <1>4
  <2>7. R.replicas = Cardinality(DOMAIN P) + (IF On(stack, "removed") = {} THEN 0 ELSE 1)
    BY <2>2, <2>3
  <2>8. P \in [DOMAIN P -> ReplicaType] /\ R.closed \in BOOLEAN
    BY <1>3, <1>4, Zenon
  <2> QED BY ONLY <2>4, <2>5, <2>6, <2>7, <2>8 DEF CountsGood
<1>8. PlacesGood(R, P, stack) /\ IndexesGood(R, P, stack)
  BY <1>3, <1>4, <1>5, <1>6 DEF PlacesGood, IndexesGood, Waiting
<1>9. SourceGood(R, asked, stack) /\ FramesGood(R, P, asked, stack) /\ GivenGood(R, P, stack)
  BY <1>2, <1>4, <1>5 DEF SourceGood, FramesGood, GivenGood, InHand
<1> QED BY <1>1, <1>2, <1>7, <1>8, <1>9, NothingOn DEF IInv, Good

(* What a reader does leaves the flags Boolean. *)
LEMMA ReaderKeepsFlags ==
  ASSUME gone \in BOOLEAN, abandoned \in BOOLEAN, NEW r, NEW callers,
         GetNextFrame(r, callers) \/ StopGettingFrames(r, callers) \/ DeleteReplica(r, callers)
  PROVE  gone' \in BOOLEAN /\ abandoned' \in BOOLEAN
<1>1. CASE GetNextFrame(r, callers)
  BY <1>1 DEF GetNextFrame
<1>2. ASSUME NEW s, Deactivate(r, s)
      PROVE  abandoned' \in BOOLEAN
  <2>1. CASE r \notin Playing /\ UNCHANGED abandoned
    BY <2>1
  <2>2. CASE ReplaceMaster(r, Append(s, Call("deactivated")))
    BY <2>2 DEF ReplaceMaster
  <2>3. CASE LeaveLists(r, Append(s, Call("deactivated")))
    BY <2>3 DEF LeaveLists
  <2> QED BY <1>2, <2>1, <2>2, <2>3 DEF Deactivate
<1>3. CASE StopGettingFrames(r, callers)
  BY <1>2, <1>3 DEF StopGettingFrames
<1>4. CASE DeleteReplica(r, callers)
  BY <1>2, <1>4 DEF DeleteReplica
<1> QED BY <1>1, <1>3, <1>4

(* Every step keeps the invariant. *)
LEMMA StepKeeps ==
  ASSUME StopsInside = FALSE, IInv, [Next]_vars
  PROVE  IInv'
<1> DEFINE Kept == /\ Good(replicator', replica', asked', stack')
                   /\ gone' \in BOOLEAN /\ abandoned' \in BOOLEAN
<1>1. Good(replicator, replica, asked, stack) /\ gone \in BOOLEAN /\ abandoned \in BOOLEAN
  BY DEF IInv
<1> SUFFICES Kept
  BY DEF IInv
<1>2. CASE UNCHANGED vars
  BY <1>1, <1>2 DEF vars
<1>3. ASSUME NEW r \in Replicas, CreateStreamReplica(r)
      PROVE  Kept
  <2>1. gone' \in BOOLEAN /\ abandoned' \in BOOLEAN
    BY <1>1, <1>3 DEF CreateStreamReplica
  <2> QED BY <1>1, <1>3, <2>1, CreateStreamReplicaKeeps
<1>4. ASSUME NEW r \in Replicas, ReaderActs(r)
      PROVE  Kept
  <2>1. gone' \in BOOLEAN /\ abandoned' \in BOOLEAN
    BY <1>1, <1>4, ReaderKeepsFlags DEF ReaderActs
  <2> QED BY <1>1, <1>4, <2>1, ReaderActsKeeps
<1>5. CASE SourceAnswers
  <2>1. gone' \in BOOLEAN /\ abandoned' \in BOOLEAN
    BY <1>1, <1>5 DEF SourceAnswers, AfterGettingFrame, OnSourceClosure
  <2> QED BY <1>1, <1>5, <2>1, SourceAnswersKeeps
<1>6. CASE ReaderAsksWhenCalled
  <2>1. gone' \in BOOLEAN /\ abandoned' \in BOOLEAN
    BY <1>1, <1>6, ReaderKeepsFlags DEF ReaderAsksWhenCalled
  <2> QED BY <1>1, <1>6, <2>1, ReaderAsksWhenCalledKeeps
<1>7. CASE ReaderStopsWhenCalled
  <2>1. gone' \in BOOLEAN /\ abandoned' \in BOOLEAN
    BY <1>1, <1>7, ReaderKeepsFlags DEF ReaderStopsWhenCalled
  <2> QED BY <1>1, <1>7, <2>1, ReaderStopsWhenCalledKeeps
<1>8. CASE ReaderReturns \/ SourceAnswersLater \/ Delivered
  <2>1. PICK f \in {"reader", "source", "deliver"} : Returns(f)
    BY <1>8 DEF ReaderReturns, SourceAnswersLater, Delivered
  <2> QED BY <1>1, <2>1, ReturnsKeeps DEF Returns
<1>9. CASE SourceAnswersAtOnce
  <2>1. gone' \in BOOLEAN /\ abandoned' \in BOOLEAN
    BY <1>1, <1>9 DEF SourceAnswersAtOnce, AfterGettingFrame, OnSourceClosure
  <2> QED BY <1>1, <1>9, <2>1, SourceAnswersAtOnceKeeps
<1>10. CASE CloseWaiting
  <2>1. gone' \in BOOLEAN /\ abandoned' \in BOOLEAN
    BY <1>1, <1>10 DEF CloseWaiting
  <2> QED BY <1>1, <1>10, <2>1, CloseWaitingKeeps
<1>11. CASE CloseMaster
  <2>1. gone' \in BOOLEAN /\ abandoned' \in BOOLEAN
    BY <1>1, <1>11 DEF CloseMaster
  <2> QED BY <1>1, <1>11, <2>1, CloseMasterKeeps
<1>12. CASE DeliverToOther
  <2>1. gone' \in BOOLEAN /\ abandoned' \in BOOLEAN
    BY <1>1, <1>12 DEF DeliverToOther
  <2> QED BY <1>1, <1>12, <2>1, DeliverToOtherKeeps
<1>13. CASE DeliverToMaster
  <2>1. gone' \in BOOLEAN /\ abandoned' \in BOOLEAN
    BY <1>1, <1>13 DEF DeliverToMaster
  <2> QED BY <1>1, <1>13, <2>1, DeliverToMasterKeeps
<1>14. CASE CompleteMaster
  <2>1. gone' \in BOOLEAN /\ abandoned' \in BOOLEAN
    BY <1>1, <1>14 DEF CompleteMaster
  <2> QED BY <1>1, <1>14, <2>1, CompleteMasterKeeps
<1>15. CASE Deactivated
  <2>1. gone' \in BOOLEAN /\ abandoned' \in BOOLEAN
    BY <1>1, <1>15 DEF Deactivated
  <2> QED BY <1>1, <1>15, <2>1, DeactivatedKeeps
<1>16. CASE Removed
  <2>1. gone' \in BOOLEAN /\ abandoned' \in BOOLEAN
    BY <1>1, <1>16 DEF Removed
  <2> QED BY <1>1, <1>16, <2>1, RemovedKeeps
<1> QED
  BY <1>2, <1>3, <1>4, <1>5, <1>6, <1>7, <1>8, <1>9, <1>10, <1>11, <1>12, <1>13, <1>14, <1>15,
     <1>16 DEF Next, Proceed

(* Whatever the replicas, their number and what readers and the source do,
   the lists, the stack, the counters and the frames fit each other. *)
THEOREM Invariance ==
  ASSUME StopsInside = FALSE
  PROVE  Spec => []IInv
<1>1. Init => IInv
  BY InitGood
<1>2. IInv /\ [Next]_vars => IInv'
  BY StepKeeps
<1> QED BY <1>1, <1>2, PTL DEF Spec

(* The list of replicas of a list whose members exist. *)
LEMMA ListOf ==
  ASSUME NEW list \in Seq(Replicas), NEW A, Members(list) \subseteq A
  PROVE  list \in Seq(A)
<1>1. Len(list) \in Nat /\ DOMAIN list = 1..Len(list)
  OBVIOUS
<1>2. list = [i \in 1..Len(list) |-> list[i]]
  BY <1>1
<1>3. list \in [1..Len(list) -> A]
  BY <1>1, <1>2 DEF Members
<1> QED BY <1>1, <1>3

(* Each member keeps its type: the variables are what the code declares, the
   lists hold replicas that exist, and numActiveReplicas counts those that
   play. *)
THEOREM TypeCorrect ==
  ASSUME StopsInside = FALSE
  PROVE  Spec => []TypeOK
<1>1. IInv => TypeOK
  <2> SUFFICES ASSUME IInv PROVE TypeOK
    OBVIOUS
  <2>1. Good(replicator, replica, asked, stack) /\ gone \in BOOLEAN /\ abandoned \in BOOLEAN
    BY DEF IInv
  <2>0. Alive = DOMAIN replica /\ Playing = Plays(replica)
    BY DEF Alive, Playing, Plays
  <2>2. /\ replica \in [Alive -> ReplicaType] /\ Alive \subseteq Replicas
        /\ replicator.index \in {0, 1} /\ replicator.deliveries \in Nat
        /\ replicator.closed \in BOOLEAN /\ asked \in BOOLEAN
        /\ replicator.master \in Alive \union {None}
        /\ replicator.current \in Seq(Replicas) /\ replicator.next \in Seq(Replicas)
        /\ Waiting(replicator, stack) \subseteq Alive
        /\ replicator.active = Cardinality(Playing) /\ IsFiniteSet(Alive)
    BY <2>0, <2>1, Known
  <2>3. replicator.current \in Seq(Alive) /\ replicator.next \in Seq(Alive)
    BY <2>2, ListOf DEF Waiting
  <2>4. replicator.replicas \in Nat
    <3>1. Cardinality(DOMAIN replica) \in Nat
      BY <2>2, FS_CardinalityType DEF Alive
    <3> QED BY <2>1, <3>1 DEF Good, CountsGood
  <2>5. stack \in Seq([run : Functions, on : Replicas \union {None}])
    BY <2>1 DEF Good, StackGood, Calls
  <2> QED BY <2>1, <2>2, <2>3, <2>4, <2>5 DEF TypeOK
<1> QED BY <1>1, Invariance, PTL

(* How often a replica stands in a list. *)
LEMMA InList ==
  ASSUME NEW list \in Seq(Replicas), Distinct(list), NEW r
  PROVE  Cardinality({i \in DOMAIN list : list[i] = r}) = IF r \in Members(list) THEN 1 ELSE 0
<1>1. CASE r \in Members(list)
  <2>1. PICK k \in DOMAIN list : list[k] = r
    BY <1>1 DEF Members
  <2>2. {i \in DOMAIN list : list[i] = r} = {k}
    BY <2>1 DEF Distinct
  <2> QED BY <1>1, <2>2, FS_Singleton
<1>2. CASE r \notin Members(list)
  <2>1. {i \in DOMAIN list : list[i] = r} = {}
    BY <1>2 DEF Members
  <2> QED BY <1>2, <2>1, FS_EmptySet
<1> QED BY <1>1, <1>2

(* How often its master's delivery is to be completed. *)
LEMMA OnStack ==
  ASSUME NEW s, StackGood(s), NEW r
  PROVE  Cardinality({i \in DOMAIN s : s[i] = [run |-> "complete", on |-> r]})
           = IF r \in On(s, "complete") THEN 1 ELSE 0
<1> PICK c : c = [run |-> "complete", on |-> r]
  OBVIOUS
<1>1. DOMAIN s \subseteq Nat /\ \A i \in DOMAIN s : s[i] \in Calls
  BY DEF StackGood
<1>2. \A i \in DOMAIN s : s[i] = c <=> s[i].run = "complete" /\ s[i].on = r
  BY <1>1 DEF Calls
<1>3. \A i, j \in DOMAIN s : s[i].run = s[j].run => i = j
  <2>1. ASSUME NEW i \in DOMAIN s, NEW j \in DOMAIN s, s[i].run = s[j].run
        PROVE  i = j
    <3>1. Rank(s[i].run) = Rank(s[j].run) /\ Rank(s[i].run) \in 1..5
      BY <2>1, Ranks
    <3>2. ~(i < j) /\ ~(j < i)
      BY <3>1 DEF StackGood, Ranked
    <3> QED BY <1>1, <3>2
  <2> QED BY <2>1
<1>4. CASE r \in On(s, "complete")
  <2>1. PICK k \in DOMAIN s : s[k].run = "complete" /\ s[k].on = r
    BY <1>4 DEF On
  <2>2. {i \in DOMAIN s : s[i] = c} = {k}
    BY <1>2, <1>3, <2>1
  <2> QED BY <1>4, <2>2, FS_Singleton
<1>5. CASE r \notin On(s, "complete")
  <2>1. {i \in DOMAIN s : s[i] = c} = {}
    BY <1>2, <1>5 DEF On
  <2> QED BY <1>5, <2>1, FS_EmptySet
<1> QED BY <1>4, <1>5

(* A replica that a reader awaits stands in one place where it is served, and
   no other replica stands anywhere; there is a master while the source is
   read. *)
THEOREM RequestsServedOnce ==
  ASSUME StopsInside = FALSE
  PROVE  Spec => []ServedOnce
<1>1. IInv => ServedOnce
  <2> SUFFICES ASSUME IInv PROVE ServedOnce
    OBVIOUS
  <2>1. Good(replicator, replica, asked, stack)
    BY DEF IInv
  <2> DEFINE C == Members(replicator.current)
             N == Members(replicator.next)
             K == On(stack, "complete")
  <2>2. ASSUME NEW r
        PROVE  Places(r) = (IF r \in C THEN 1 ELSE 0) + (IF r \in N THEN 1 ELSE 0)
                             + (IF r \in K THEN 1 ELSE 0) + (IF replicator.master = r THEN 1 ELSE 0)
    <3>1. /\ replicator.current \in Seq(Replicas) /\ Distinct(replicator.current)
          /\ replicator.next \in Seq(Replicas) /\ Distinct(replicator.next)
      BY <2>1, Known
    <3>2. StackGood(stack)
      BY <2>1 DEF Good
    <3>3. /\ Cardinality({i \in DOMAIN replicator.current : replicator.current[i] = r})
               = IF r \in C THEN 1 ELSE 0
          /\ Cardinality({i \in DOMAIN replicator.next : replicator.next[i] = r})
               = IF r \in N THEN 1 ELSE 0
      BY <3>1, InList
    <3>4. Cardinality({i \in DOMAIN stack : stack[i] = [run |-> "complete", on |-> r]})
            = IF r \in K THEN 1 ELSE 0
      BY <3>2, OnStack
    <3> QED BY <3>3, <3>4 DEF Places
  <2>3. /\ C \intersect N = {} /\ K \intersect (C \union N) = {}
        /\ replicator.master \notin C \union N \union K
        /\ replicator.master \in Alive \union {None} /\ C \union N \union K \subseteq Alive
        /\ \A r \in Alive : replica[r].waits <=> r = replicator.master \/ r \in C \union N \union K
        /\ None \notin Replicas
    BY <2>1, NoneAssumption DEF Good, PlacesGood, Waiting, Alive
  <2>4. \A r \in Alive : Places(r) = IF replica[r].waits THEN 1 ELSE 0
    <3>1. ASSUME NEW r \in Alive
          PROVE  Places(r) = IF replica[r].waits THEN 1 ELSE 0
      <4>1. CASE r = replicator.master
        BY <2>2, <2>3, <4>1
      <4>2. CASE r \in C
        BY <2>2, <2>3, <4>2
      <4>3. CASE r \in N
        BY <2>2, <2>3, <4>3
      <4>4. CASE r \in K
        BY <2>2, <2>3, <4>4
      <4>5. CASE r # replicator.master /\ r \notin C \union N \union K
        BY <2>2, <2>3, <4>5
      <4> QED BY <4>1, <4>2, <4>3, <4>4, <4>5
    <3> QED BY <3>1
  <2>5. \A r \in Replicas \ Alive : Places(r) = 0
    BY <2>2, <2>3
  <2>6. asked => replicator.master # None
    BY <2>1 DEF Good, SourceGood
  <2> QED BY <2>4, <2>5, <2>6 DEF ServedOnce
<1> QED BY <1>1, Invariance, PTL

(* A frame is in the master's buffer while it is delivered. *)
LEMMA InHandWhenDelivered ==
  ASSUME Good(replicator, replica, asked, stack), Running("deliver")
  PROVE  InHand(replicator, asked)
<1>1. stack # <<>> /\ Last(stack).run = "deliver"
  BY DEF Running
<1>2. Pushed(Front(stack), Last(stack), stack)
  BY <1>1, TopIsPushed DEF Good
<1>3. Last(stack).on \in On(stack, "deliver")
  BY <1>1, <1>2 DEF Pushed
<1> QED BY <1>3 DEF Good, SourceGood, InHand

(* The master has received the current frame when deliverReceivedFrame hands
   it to the others and to the master. *)
THEOREM MasterHasTheFrame ==
  ASSUME StopsInside = FALSE
  PROVE  Spec => []MasterHasReceived
<1>1. IInv => MasterHasReceived
  <2> SUFFICES ASSUME IInv, Delivering
               PROVE  replicator.master # None /\ ~asked /\ replica[replicator.master].buffer = 0
    BY DEF MasterHasReceived
  <2>1. Good(replicator, replica, asked, stack) /\ Running("deliver")
    BY DEF IInv, Delivering
  <2>2. InHand(replicator, asked)
    BY <2>1, InHandWhenDelivered
  <2> QED BY <2>1, <2>2 DEF InHand, Good, FramesGood
<1> QED BY <1>1, Invariance, PTL

(* A reader is only given frames later than the one that it got before. *)
THEOREM FramesComeInOrder ==
  ASSUME StopsInside = FALSE
  PROVE  Spec => FramesInOrder
<1>1. IInv /\ [Next]_vars => [LaterFrame]_vars
  <2> SUFFICES ASSUME IInv, NEW r \in Alive, Given(r)
               PROVE  replica'[r].got < replica[r].got
    BY DEF LaterFrame
  <2>1. Good(replicator, replica, asked, stack)
    BY DEF IInv
  <2>2. replica \in [Alive -> ReplicaType]
    BY <2>1, Known DEF Alive
  <2>3. CASE DeliverToOther /\ r = Head(replicator.current)
    <3>1. PICK b, m : b = replica[m].buffer /\ m = replicator.master
      OBVIOUS
    <3>2. /\ Running("deliver") /\ replicator.current # <<>>
          /\ replica' = [replica EXCEPT ![r].index = Toggled(@), ![r].waits = FALSE,
                                        ![r].buffer = b, ![r].got = b]
      BY <2>3, <3>1 DEF DeliverToOther
    <3>3. InHand(replicator, asked)
      BY <2>1, <3>2, InHandWhenDelivered
    <3>4. b = 0 /\ (replica[r].got = 0 => replica[r].index # replicator.index)
      BY <2>1, <3>1, <3>3 DEF Good, FramesGood, Alive
    <3>5. r \in Members(replicator.current)
      BY <2>1, <2>3, <3>2, Known, Shortened
    <3>6. replica[r].index = replicator.index
      BY <2>1, <3>5 DEF Good, IndexesGood
    <3>7. replica[r].got \in 0..Older /\ replica[r].got # 0
      BY <2>2, <3>4, <3>6 DEF ReplicaType
    <3>8. replica'[r].got = b
      <4>1. PICK P2, f : P2 = replica' /\ f = FALSE
        OBVIOUS
      <4>2. P2 = [replica EXCEPT ![r].index = Toggled(@), ![r].waits = f,
                                 ![r].buffer = b, ![r].got = b]
        BY <3>2, <4>1
      <4> QED BY <2>2, <4>1, <4>2 DEF ReplicaType
    <3> QED BY <3>4, <3>7, <3>8 DEF Older
  <2>4. CASE CompleteMaster /\ r = Last(stack).on
    <3>1. PICK b : b = replica[r].buffer
      OBVIOUS
    <3>2. /\ Running("complete")
          /\ replica' = [replica EXCEPT ![r].waits = FALSE, ![r].got = b]
      BY <2>4, <3>1 DEF CompleteMaster
    <3>3. stack # <<>> /\ Last(stack).run = "complete"
      BY <3>2 DEF Running
    <3>4. Pushed(Front(stack), Last(stack), stack)
      BY <2>1, <3>3, TopIsPushed DEF Good
    <3>5. r \in On(stack, "complete")
      BY <2>4, <3>3, <3>4 DEF Pushed
    <3>6. b < replica[r].got
      BY <2>1, <3>1, <3>5 DEF Good, FramesGood
    <3>7. replica'[r].got = b
      <4>1. PICK P2, f : P2 = replica' /\ f = FALSE
        OBVIOUS
      <4>2. P2 = [replica EXCEPT ![r].waits = f, ![r].got = b]
        BY <3>2, <4>1
      <4> QED BY <2>2, <4>1, <4>2 DEF ReplicaType
    <3> QED BY <3>6, <3>7
  <2> QED BY <2>3, <2>4 DEF Given
<1> QED BY <1>1, Invariance, PTL DEF Spec, FramesInOrder
=============================================================================
