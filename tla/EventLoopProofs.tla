--------------------------- MODULE EventLoopProofs ---------------------------
(***************************************************************************)
(* Proofs that the socket handlers of EventLoop, what select() is asked    *)
(* for and fMaxNumSockets go together, and that the round robin of event   *)
(* triggers keeps to its numbers, for any number of sockets and triggers.  *)
(*                                                                         *)
(* The plan: the list of handlers is seen as a set of them (Lists), one    *)
(* for a socket.  Each operation of HandlerSet is described by what it     *)
(* does to that set, and so each call of the scheduler keeps the three     *)
(* together (Together).  For the triggers it is enough that a search finds *)
(* a trigger of the set it is made in, and that a write of the mask only   *)
(* sets bits of triggers that were in use when it was begun.               *)
(***************************************************************************)
EXTENDS EventLoop, TLAPS, FiniteSetTheorems, SequenceTheorems, WellFoundedInduction

Handler == [sock : Sockets, conds : (SUBSET Conditions) \ {{}}]

(* The handlers in list hs are those of H, each once, and no two are for the
   same socket. *)
Lists(hs, H) ==
  /\ hs \in Seq(Handler)
  /\ H = {hs[i] : i \in 1..Len(hs)}
  /\ \A i, j \in 1..Len(hs) : hs[i].sock = hs[j].sock => i = j

(* What select() is asked for when the handlers are those of H. *)
AskedFor(H) == UNION {{h.sock} \X h.conds : h \in H}

(* What TypeOK says of socks. *)
Together(k) ==
  /\ k = [handlers |-> k.handlers, fdSets |-> k.fdSets, max |-> k.max]
  /\ Lists(k.handlers, Range(k.handlers))
  /\ k.fdSets = AskedFor(Range(k.handlers))
  /\ \A p \in k.fdSets : p[1] < k.max
  /\ k.max \in 0..NumSockets

(* A write of the mask under way sets and clears bits of different triggers,
   and sets only those of triggers that have a handler. *)
LoopGood ==
  /\ loop.step.clear \subseteq Triggers
  /\ loop.step.set \subseteq used
  /\ loop.step.clear \cap loop.step.set = {}

(* The part of the inductive invariant that is about the sockets. *)
SocketsGood ==
  /\ Together(socks)
  /\ lastSock \in Sockets \cup {-1}
  /\ ready \subseteq socks.fdSets

(* What comes after a write of the mask. *)
Places == {"sockets", "call", "alarm"}

(* The part that is about the triggers. *)
TriggersGood ==
  /\ used \subseteq Triggers /\ awaiting \subseteq Triggers /\ owed \subseteq used
  /\ lastTrigger \in Triggers
  /\ loop \in [step : Steps, next : Places]
  /\ thread \in Steps
  /\ LoopGood

IInv == SocketsGood /\ TriggersGood

(* A nonempty set of naturals has a least element. *)
LEMMA LeastOf ==
  ASSUME NEW T \in SUBSET Nat, T # {}
  PROVE  \E m \in T : \A n \in T : m <= n
<1> DEFINE R == {p \in Nat \X Nat : p[1] < p[2]}
<1>1. IsWellFoundedOn(R, Nat)
  <2>1. R = OpToRel(<, Nat)
    BY DEF OpToRel
  <2> QED BY <2>1, NatLessThanWellFounded
<1>2. PICK m \in T : \A n \in T : ~(<<n, m>> \in R)
  <2> HIDE DEF R
  <2> QED BY <1>1, WFMin
<1>3. ASSUME NEW n \in T PROVE m <= n
  <2>1. n \in Nat /\ m \in Nat /\ (n < m => <<n, m>> \in R)
    OBVIOUS
  <2> HIDE DEF R
  <2> QED BY <1>2, <2>1
<1> QED BY <1>3

(* Min of a set of indices is one of them. *)
LEMMA FirstIndex ==
  ASSUME NEW n \in Nat, NEW T \in SUBSET (1..n), T # {}
  PROVE  (CHOOSE x \in T : \A y \in T : x <= y) \in T
<1>1. T \in SUBSET Nat
  OBVIOUS
<1>2. PICK m \in T : \A k \in T : m <= k
  BY <1>1, LeastOf
<1> QED BY <1>2

-----------------------------------------------------------------------------
(* The list of handlers.                                                   *)

(* No list is longer than there are sockets. *)
LEMMA ListsBounded ==
  ASSUME NEW hs, NEW H, Lists(hs, H)
  PROVE  Len(hs) <= NumSockets
<1>1. NumSockets \in Nat
  BY NumbersAssumption
<1>2. IsFiniteSet(Sockets) /\ Cardinality(Sockets) = NumSockets
  <2>1. 0 \in Int /\ NumSockets - 1 \in Int
    BY <1>1
  <2>2. IsFiniteSet(Sockets) /\ Cardinality(Sockets) = IF 0 <= NumSockets - 1 THEN (NumSockets - 1) - 0 + 1 ELSE 0
    BY <2>1, FS_Interval DEF Sockets
  <2> QED BY <1>1, <2>2
<1>3. PICK n : n = Len(hs)
  OBVIOUS
<1>4. n \in Nat /\ hs \in [1..n -> Handler] /\ \A i, j \in 1..n : hs[i].sock = hs[j].sock => i = j
  BY <1>3 DEF Lists
<1>5. IsFiniteSet(1..n) /\ Cardinality(1..n) = n
  <2>1. Cardinality(1..n) = IF 1 <= n THEN n - 1 + 1 ELSE 0
    BY <1>4, FS_Interval
  <2> QED BY <1>4, <2>1, FS_Interval
<1>6. PICK f : f = [i \in 1..n |-> hs[i].sock]
  OBVIOUS
<1>7. f \in Injection(1..n, Sockets)
  <2>1. \A i \in 1..n : hs[i].sock \in Sockets
    BY <1>4 DEF Handler
  <2> QED BY <1>4, <1>6, <2>1 DEF Injection, IsInjective
<1>8. Cardinality(1..n) <= Cardinality(Sockets)
  BY <1>2, <1>5, <1>7, FS_Injection
<1> QED BY <1>2, <1>3, <1>5, <1>8

LEMMA AssignLists ==
  ASSUME NEW hs, NEW H, Lists(hs, H), NEW s \in Sockets, NEW conds \in (SUBSET Conditions) \ {{}}
  PROVE  Lists(AssignHandler(hs, s, conds),
               {h \in H : h.sock # s} \cup {[sock |-> s, conds |-> conds]})
<1>1. PICK n : n = Len(hs)
  OBVIOUS
<1>2. /\ n \in Nat /\ hs \in [1..n -> Handler] /\ H = {hs[i] : i \in 1..n} /\ DOMAIN hs = 1..n
      /\ \A i, j \in 1..n : hs[i].sock = hs[j].sock => i = j
  BY <1>1 DEF Lists
<1>3. PICK new : new = [sock |-> s, conds |-> conds]
  OBVIOUS
<1>4. new \in Handler /\ new.sock = s /\ new.conds = conds
  BY <1>3 DEF Handler
<1>5. PICK t : t = AssignHandler(hs, s, conds)
  OBVIOUS
<1>6. CASE \E h \in Range(hs) : h.sock = s
  <2>1. PICK k \in 1..n : hs[k].sock = s
    BY <1>2, <1>6 DEF Range
  <2>2. t = [i \in 1..n |-> IF hs[i].sock = s THEN [hs[i] EXCEPT !.conds = conds] ELSE hs[i]]
    BY <1>2, <1>5, <1>6 DEF AssignHandler
  <2>3. \A i \in 1..n : hs[i] = [sock |-> hs[i].sock, conds |-> hs[i].conds] /\ hs[i] \in Handler
    BY <1>2 DEF Handler
  <2>4. \A i \in 1..n : t[i] = IF i = k THEN new ELSE hs[i]
    BY <1>2, <1>3, <2>1, <2>2, <2>3
  <2>5. t \in [1..n -> Handler]
    BY <1>4, <2>2, <2>3, <2>4
  <2>6. t \in Seq(Handler) /\ Len(t) = n
    BY <1>2, <2>5
  <2>7. \A i, j \in 1..n : t[i].sock = t[j].sock => i = j
    BY <1>2, <1>4, <2>1, <2>4
  <2>8. \A h : h \in {t[i] : i \in 1..n} <=> h \in {g \in H : g.sock # s} \cup {new}
    BY <1>2, <1>4, <2>1, <2>4
  <2> QED BY <1>3, <1>5, <2>6, <2>7, <2>8 DEF Lists
<1>7. CASE ~ \E h \in Range(hs) : h.sock = s
  <2>1. \A i \in 1..n : hs[i].sock # s
    BY <1>2, <1>7 DEF Range
  <2>2. t = <<new>> \o hs
    BY <1>3, <1>5, <1>7 DEF AssignHandler
  <2>3. /\ t \in Seq(Handler) /\ Len(t) = n + 1
        /\ \A i \in 1..(n + 1) : t[i] = IF i = 1 THEN new ELSE hs[i - 1]
    <3>1. <<new>> \in Seq(Handler) /\ Len(<<new>>) = 1 /\ <<new>>[1] = new /\ hs \in Seq(Handler)
      BY <1>2, <1>4
    <3>2. t \in Seq(Handler) /\ Len(t) = Len(<<new>>) + Len(hs)
      BY <2>2, <3>1, ConcatProperties
    <3>3. \A i \in 1..Len(<<new>>) + Len(hs) :
            t[i] = IF i <= Len(<<new>>) THEN <<new>>[i] ELSE hs[i - Len(<<new>>)]
      BY <2>2, <3>1, ConcatProperties
    <3> QED BY <1>1, <1>2, <3>1, <3>2, <3>3
  <2>4. \A i, j \in 1..(n + 1) : t[i].sock = t[j].sock => i = j
    <3> TAKE i, j \in 1..(n + 1)
    <3>1. i # 1 => i - 1 \in 1..n
      BY <1>2
    <3>2. j # 1 => j - 1 \in 1..n
      BY <1>2
    <3> QED BY <1>2, <1>4, <2>1, <2>3, <3>1, <3>2
  <2>5. \A h : h \in {t[i] : i \in 1..(n + 1)} <=> h \in H \cup {new}
    <3>1. \A j \in 1..n : t[j + 1] = hs[j] /\ j + 1 \in 1..(n + 1)
      BY <1>2, <2>3
    <3>2. \A i \in 1..(n + 1) : i # 1 => i - 1 \in 1..n
      BY <1>2
    <3>3. 1 \in 1..(n + 1) /\ t[1] = new
      BY <1>2, <2>3
    <3> QED BY <1>2, <2>3, <3>1, <3>2, <3>3
  <2>6. \A h : h \in {g \in H : g.sock # s} <=> h \in H
    BY <1>2, <2>1
  <2>7. {g \in H : g.sock # s} \cup {new} = {t[i] : i \in 1..(n + 1)}
    BY <2>5, <2>6
  <2> QED BY <1>3, <1>5, <2>3, <2>4, <2>7 DEF Lists
<1> QED BY <1>6, <1>7

LEMMA ClearLists ==
  ASSUME NEW hs, NEW H, Lists(hs, H), NEW s \in Sockets
  PROVE  Lists(ClearHandler(hs, s), {h \in H : h.sock # s})
<1>1. PICK n : n = Len(hs)
  OBVIOUS
<1>2. /\ n \in Nat /\ hs \in [1..n -> Handler] /\ H = {hs[i] : i \in 1..n} /\ DOMAIN hs = 1..n
      /\ \A i, j \in 1..n : hs[i].sock = hs[j].sock => i = j
      /\ hs \in Seq(Handler)
  BY <1>1 DEF Lists
<1>3. PICK t : t = ClearHandler(hs, s)
  OBVIOUS
<1>4. CASE \E i \in 1..n : hs[i].sock = s
  <2>1. PICK k : k = SelectInSeq(hs, LAMBDA h : h.sock = s)
    OBVIOUS
  <2>2. k \in 1..n /\ hs[k].sock = s
    <3>1. PICK T : T = {i \in 1..n : hs[i].sock = s}
      OBVIOUS
    <3>2. T # {} /\ T \in SUBSET (1..n)
      BY <1>4, <3>1
    <3>3. k = CHOOSE x \in T : \A y \in T : x <= y
      BY <1>1, <2>1, <3>1, <3>2 DEF SelectInSeq, Min
    <3> QED BY <1>2, <3>1, <3>2, <3>3, FirstIndex
  <2>3. t = RemoveAt(hs, k)
    BY <1>1, <1>3, <1>4, <2>1 DEF ClearHandler, RemoveFirstMatch
  <2>4. PICK s1, s2 : s1 = SubSeq(hs, 1, k - 1) /\ s2 = SubSeq(hs, k + 1, n)
    OBVIOUS
  <2>5. s1 \in Seq(Handler) /\ Len(s1) = k - 1 /\ \A i \in 1..(k - 1) : s1[i] = hs[i]
    BY <1>2, <2>2, <2>4
  <2>6. s2 \in Seq(Handler) /\ Len(s2) = n - k /\ \A i \in 1..(n - k) : s2[i] = hs[i + k]
    BY <1>2, <2>2, <2>4
  <2>7. t = s1 \o s2
    BY <1>1, <2>3, <2>4 DEF RemoveAt
  <2>8. /\ t \in Seq(Handler) /\ Len(t) = n - 1
        /\ \A i \in 1..(n - 1) : t[i] = IF i < k THEN hs[i] ELSE hs[i + 1]
    BY <1>2, <2>2, <2>5, <2>6, <2>7, ConcatProperties
  <2>9. \A i, j \in 1..(n - 1) : t[i].sock = t[j].sock => i = j
    BY <1>2, <2>2, <2>8
  <2>10. \A h : h \in {t[i] : i \in 1..(n - 1)} <=> h \in {g \in H : g.sock # s}
    <3>1. ASSUME NEW i \in 1..(n - 1)
          PROVE  \E j \in 1..n : j # k /\ t[i] = hs[j]
      <4>1. i \in 1..n /\ i + 1 \in 1..n /\ (i < k => i # k) /\ (~(i < k) => i + 1 # k)
        BY ONLY <1>2, <2>2, i \in 1..(n - 1)
      <4>2. t[i] = IF i < k THEN hs[i] ELSE hs[i + 1]
        BY <2>8
      <4> QED BY ONLY <4>1, <4>2
    <3>2. ASSUME NEW j \in 1..n, j # k
          PROVE  \E i \in 1..(n - 1) : t[i] = hs[j]
      <4>1. CASE j < k
        BY <1>2, <2>2, <2>8, <4>1
      <4>2. CASE j > k
        <5>1. j - 1 \in 1..(n - 1) /\ ~(j - 1 < k) /\ (j - 1) + 1 = j
          BY <1>2, <2>2, <4>2
        <5> QED BY <2>8, <5>1
      <4>3. j < k \/ j > k
        BY ONLY <1>2, <2>2, j \in 1..n, j # k
      <4> QED BY ONLY <4>1, <4>2, <4>3
    <3>3. \A j \in 1..n : hs[j].sock # s <=> j # k
      BY <1>2, <2>2
    <3>4. ASSUME NEW i \in 1..(n - 1) PROVE t[i] \in H /\ t[i].sock # s
      BY <1>2, <3>1, <3>3
    <3>5. ASSUME NEW h \in H, h.sock # s PROVE \E i \in 1..(n - 1) : t[i] = h
      BY <1>2, <3>2, <3>3, <3>5
    <3> QED BY <3>4, <3>5
  <2> QED BY <1>3, <2>8, <2>9, <2>10 DEF Lists
<1>5. CASE ~ \E i \in 1..n : hs[i].sock = s
  <2>1. t = hs
    BY <1>1, <1>3, <1>5 DEF ClearHandler, RemoveFirstMatch
  <2>2. {h \in H : h.sock # s} = H
    BY <1>2, <1>5
  <2> QED BY <1>3, <2>1, <2>2
<1> QED BY <1>4, <1>5

(* What moveHandler makes of a handler. *)
Moved(h, old, new) == IF h.sock = old THEN [sock |-> new, conds |-> h.conds] ELSE h

LEMMA MovedFields ==
  ASSUME NEW h \in Handler, NEW old \in Sockets, NEW new \in Sockets
  PROVE  /\ Moved(h, old, new) \in Handler
         /\ Moved(h, old, new).sock = IF h.sock = old THEN new ELSE h.sock
         /\ Moved(h, old, new).conds = h.conds
         /\ (IF h.sock = old THEN [h EXCEPT !.sock = new] ELSE h) = Moved(h, old, new)
<1>1. CASE h.sock = old
  BY <1>1 DEF Handler, Moved
<1>2. CASE h.sock # old
  BY <1>2 DEF Handler, Moved
<1> QED BY <1>1, <1>2

LEMMA MoveLists ==
  ASSUME NEW hs, NEW H, Lists(hs, H), NEW old \in Sockets, NEW new \in Sockets,
         \A h \in H : h.sock # new
  PROVE  Lists(MoveHandler(hs, old, new), {Moved(h, old, new) : h \in H})
<1>1. PICK n : n = Len(hs)
  OBVIOUS
<1>2. /\ n \in Nat /\ hs \in [1..n -> Handler] /\ H = {hs[i] : i \in 1..n} /\ DOMAIN hs = 1..n
      /\ \A i, j \in 1..n : hs[i].sock = hs[j].sock => i = j
  BY <1>1 DEF Lists
<1>3. PICK t : t = MoveHandler(hs, old, new)
  OBVIOUS
<1>4. \A i \in 1..n : hs[i] \in Handler /\ hs[i] \in H
  BY <1>2
<1>5. t = [i \in 1..n |-> IF hs[i].sock = old THEN [hs[i] EXCEPT !.sock = new] ELSE hs[i]]
  BY <1>2, <1>3 DEF MoveHandler
<1>6. DOMAIN t = 1..n /\ \A i \in 1..n : t[i] = Moved(hs[i], old, new)
  BY <1>4, <1>5, MovedFields
<1>7. \A i \in 1..n : t[i] \in Handler
  BY <1>4, <1>6, MovedFields
<1>8. t \in Seq(Handler) /\ Len(t) = n
  BY <1>2, <1>5, <1>7
<1>9. \A i, j \in 1..n : t[i].sock = t[j].sock => i = j
  <2> TAKE i, j \in 1..n
  <2>1. hs[i].sock # new /\ hs[j].sock # new
    BY <1>4
  <2>2. t[i].sock = (IF hs[i].sock = old THEN new ELSE hs[i].sock)
    BY <1>4, <1>6, MovedFields
  <2>3. t[j].sock = (IF hs[j].sock = old THEN new ELSE hs[j].sock)
    BY <1>4, <1>6, MovedFields
  <2> QED BY <1>2, <2>1, <2>2, <2>3
<1>10. {t[i] : i \in 1..n} = {Moved(h, old, new) : h \in H}
  <2>1. ASSUME NEW i \in 1..n PROVE t[i] \in {Moved(h, old, new) : h \in H}
    BY ONLY <1>4, <1>6, i \in 1..n
  <2>2. ASSUME NEW h \in H PROVE Moved(h, old, new) \in {t[i] : i \in 1..n}
    <3>1. PICK i \in 1..n : h = hs[i]
      BY <1>2
    <3>2. t[i] = Moved(h, old, new)
      BY <1>6, <3>1
    <3> QED BY ONLY <3>2, i \in 1..n
  <2> QED BY <2>1, <2>2
<1>11. PICK G : G = {Moved(h, old, new) : h \in H}
  OBVIOUS
<1>12. Lists(t, G)
  BY ONLY <1>8, <1>9, <1>10, <1>11 DEF Lists
<1> QED BY ONLY <1>3, <1>11, <1>12

-----------------------------------------------------------------------------
(* The handlers, the sets for select() and fMaxNumSockets.                 *)

(* What a list lists is its range. *)
LEMMA ListsRange ==
  ASSUME NEW hs, NEW H, Lists(hs, H)
  PROVE  Range(hs) = H
  BY DEF Lists, Range

LEMMA ListsType ==
  ASSUME NEW hs, NEW H, Lists(hs, H)
  PROVE  H \subseteq Handler /\ \A h \in H : h.sock \in Sockets
<1>1. \A i \in 1..Len(hs) : hs[i] \in Handler
  BY DEF Lists
<1>2. H \subseteq Handler
  BY <1>1 DEF Lists
<1> QED BY <1>2 DEF Handler

LEMMA TogetherMeans ==
  ASSUME NEW hs, NEW H, NEW F, NEW m, Lists(hs, H),
         \A p : p \in F <=> p \in AskedFor(H),
         \A p \in F : p[1] < m,
         m \in 0..NumSockets
  PROVE  Together([handlers |-> hs, fdSets |-> F, max |-> m])
<1>1. Range(hs) = H
  BY ListsRange
<1>2. F = AskedFor(H)
  OBVIOUS
<1> QED BY <1>1, <1>2 DEF Together

(* The limit is right when it is raised and when it is lowered. *)
LEMMA Limits ==
  ASSUME NEW m \in 0..NumSockets, NEW s \in Sockets
  PROVE  /\ MaxWith(m, s) \in 0..NumSockets /\ m <= MaxWith(m, s) /\ s < MaxWith(m, s)
         /\ MaxWithout(m, s) \in 0..NumSockets
         /\ \A o \in Sockets : o < m /\ o # s => o < MaxWithout(m, s)
  BY NumbersAssumption DEF Sockets, MaxWith, MaxWithout

LEMMA SetBackgroundHandlingTogether ==
  ASSUME NEW k, Together(k), NEW s \in Sockets, NEW conds \in SUBSET Conditions
  PROVE  Together(SetBackgroundHandling(k, s, conds))
<1>1. PICK H : H = Range(k.handlers)
  OBVIOUS
<1>2. Lists(k.handlers, H) /\ k.fdSets = AskedFor(H) /\ k.max \in 0..NumSockets
      /\ \A p \in k.fdSets : p[1] < k.max
  BY <1>1 DEF Together
<1>3. \A h \in H : h.sock \in Sockets
  BY <1>2, ListsType
<1>4. PICK others : others = {p \in k.fdSets : p[1] # s}
  OBVIOUS
<1>5. PICK rest : rest = {h \in H : h.sock # s}
  OBVIOUS
<1>6. \A p : p \in others <=> p \in AskedFor(rest)
  BY <1>2, <1>4, <1>5 DEF AskedFor
<1>7. \A p \in others : p[1] \in Sockets /\ p[1] < k.max /\ p[1] # s
  BY <1>2, <1>3, <1>4 DEF AskedFor
<1>8. CASE conds = {}
  <2>1. SetBackgroundHandling(k, s, conds)
          = [handlers |-> ClearHandler(k.handlers, s), fdSets |-> others,
             max |-> MaxWithout(k.max, s)]
    BY <1>4, <1>8 DEF SetBackgroundHandling
  <2>2. Lists(ClearHandler(k.handlers, s), rest)
    BY <1>2, <1>5, ClearLists
  <2>3. MaxWithout(k.max, s) \in 0..NumSockets /\ \A p \in others : p[1] < MaxWithout(k.max, s)
    BY <1>2, <1>7, Limits
  <2> QED BY <1>6, <2>1, <2>2, <2>3, TogetherMeans
<1>9. CASE conds # {}
  <2>1. SetBackgroundHandling(k, s, conds)
          = [handlers |-> AssignHandler(k.handlers, s, conds),
             fdSets |-> others \cup ({s} \X conds), max |-> MaxWith(k.max, s)]
    BY <1>4, <1>9 DEF SetBackgroundHandling
  <2>2. PICK new : new = [sock |-> s, conds |-> conds]
    OBVIOUS
  <2>3. Lists(AssignHandler(k.handlers, s, conds), rest \cup {new})
    BY <1>2, <1>5, <1>9, <2>2, AssignLists
  <2>4. \A p : p \in others \cup ({s} \X conds) <=> p \in AskedFor(rest \cup {new})
    <3>1. new.sock = s /\ new.conds = conds
      BY <2>2
    <3>2. \A p : p \in AskedFor(rest \cup {new}) <=> p \in AskedFor(rest) \/ p \in {s} \X conds
      BY <3>1 DEF AskedFor
    <3> QED BY <1>6, <3>2
  <2>5. /\ MaxWith(k.max, s) \in 0..NumSockets /\ k.max <= MaxWith(k.max, s)
        /\ s < MaxWith(k.max, s)
    BY <1>2, Limits
  <2>6. \A p \in others \cup ({s} \X conds) : p[1] < MaxWith(k.max, s)
    <3>1. ASSUME NEW p \in others PROVE p[1] < MaxWith(k.max, s)
      <4>1. p[1] \in Int /\ k.max \in Int /\ MaxWith(k.max, s) \in Int
        BY <1>2, <1>7, <2>5, NumbersAssumption DEF Sockets
      <4> QED BY <1>7, <2>5, <4>1
    <3>2. \A p \in {s} \X conds : p[1] = s
      OBVIOUS
    <3> QED BY <2>5, <3>1, <3>2
  <2> QED BY <2>1, <2>3, <2>4, <2>5, <2>6, TogetherMeans
<1> QED BY <1>8, <1>9

LEMMA MoveSocketHandlingTogether ==
  ASSUME NEW k, Together(k), NEW old \in Sockets, NEW new \in Sockets,
         \A h \in Range(k.handlers) : h.sock # new
  PROVE  Together(MoveSocketHandling(k, old, new))
<1>1. PICK H : H = Range(k.handlers)
  OBVIOUS
<1>2. Lists(k.handlers, H) /\ k.fdSets = AskedFor(H) /\ k.max \in 0..NumSockets
      /\ \A p \in k.fdSets : p[1] < k.max
  BY <1>1 DEF Together
<1>3. H \subseteq Handler /\ \A h \in H : h.sock \in Sockets /\ h.sock # new
  BY <1>1, <1>2, ListsType
<1>4. PICK F : F = {IF p[1] = old THEN <<new, p[2]>> ELSE p : p \in k.fdSets}
  OBVIOUS
<1>5. PICK G : G = {Moved(h, old, new) : h \in H}
  OBVIOUS
<1>6. PICK m : m = MaxWith(MaxWithout(k.max, old), new)
  OBVIOUS
<1>7. MoveSocketHandling(k, old, new) = [handlers |-> MoveHandler(k.handlers, old, new),
                                         fdSets |-> F, max |-> m]
  BY <1>4, <1>6 DEF MoveSocketHandling
<1>8. Lists(MoveHandler(k.handlers, old, new), G)
  BY <1>1, <1>2, <1>5, MoveLists
<1>9. ASSUME NEW p \in F PROVE p \in AskedFor(G) /\ p[1] < m
  <2>1. PICK q \in k.fdSets : p = IF q[1] = old THEN <<new, q[2]>> ELSE q
    BY <1>4
  <2>2. PICK h \in H : q \in {h.sock} \X h.conds
    BY <1>2 DEF AskedFor
  <2>3. q[1] = h.sock /\ q[2] \in h.conds /\ q = <<q[1], q[2]>>
    BY <2>2
  <2>4. PICK g : g = Moved(h, old, new)
    OBVIOUS
  <2>5. g \in G /\ g.sock = (IF h.sock = old THEN new ELSE h.sock) /\ g.conds = h.conds
    BY <1>3, <1>5, <2>4, MovedFields
  <2>6. p = <<g.sock, q[2]>> /\ p[1] = g.sock
    BY <2>1, <2>3, <2>5
  <2>7. p \in AskedFor(G)
    BY <2>3, <2>5, <2>6 DEF AskedFor
  <2>8. p[1] < m
    <3>1. MaxWithout(k.max, old) \in 0..NumSockets
      BY <1>2, Limits
    <3>2. MaxWithout(k.max, old) <= m /\ new < m /\ m \in 0..NumSockets
      BY <1>6, <3>1, Limits
    <3>3. CASE h.sock = old
      BY <2>5, <2>6, <3>2, <3>3
    <3>4. CASE h.sock # old
      <4>1. h.sock \in Sockets /\ h.sock < k.max
        BY <1>2, <1>3, <2>3
      <4>2. h.sock < MaxWithout(k.max, old)
        BY <1>2, <3>4, <4>1, Limits
      <4>3. h.sock \in Int /\ MaxWithout(k.max, old) \in Int /\ m \in Int
        BY <3>1, <3>2, <4>1, NumbersAssumption DEF Sockets
      <4> QED BY <2>5, <2>6, <3>2, <3>4, <4>2, <4>3
    <3> QED BY <3>3, <3>4
  <2> QED BY <2>7, <2>8
<1>10. ASSUME NEW p \in AskedFor(G) PROVE p \in F
  <2>1. PICK g \in G : p \in {g.sock} \X g.conds
    BY DEF AskedFor
  <2>2. PICK h \in H : g = Moved(h, old, new)
    BY <1>5
  <2>3. g.sock = (IF h.sock = old THEN new ELSE h.sock) /\ g.conds = h.conds
    BY <1>3, <2>2, MovedFields
  <2>4. p = <<g.sock, p[2]>> /\ p[2] \in h.conds
    BY <2>1, <2>3
  <2>5. PICK q : q = <<h.sock, p[2]>>
    OBVIOUS
  <2>6. q \in k.fdSets /\ q[1] = h.sock /\ q[2] = p[2]
    BY <1>2, <2>4, <2>5 DEF AskedFor
  <2>7. p = IF q[1] = old THEN <<new, q[2]>> ELSE q
    BY <2>3, <2>4, <2>5, <2>6
  <2> QED BY <1>4, <2>6, <2>7
<1>11. m \in 0..NumSockets
  BY <1>2, <1>6, Limits
<1> QED BY <1>7, <1>8, <1>9, <1>10, <1>11, TogetherMeans

(* Whatever a handler or a task does to the sockets. *)
LEMMA SocketChangesTogether ==
  ASSUME Together(socks), NEW k \in SocketChanges
  PROVE  Together(k)
<1>1. CASE k = socks
  BY <1>1
<1>2. ASSUME NEW s \in Sockets, NEW conds \in SUBSET Conditions,
             k = SetBackgroundHandling(socks, s, conds)
      PROVE  Together(k)
  BY <1>2, SetBackgroundHandlingTogether
<1>3. ASSUME NEW old \in Sockets, NEW new \in Sockets,
             \A h \in Range(socks.handlers) : h.sock # new,
             k = MoveSocketHandling(socks, old, new)
      PROVE  Together(k)
  BY <1>3, MoveSocketHandlingTogether
<1> QED BY <1>1, <1>2, <1>3 DEF SocketChanges

-----------------------------------------------------------------------------
(* The steps of the event loop.                                            *)

(* The walk is over handlers. *)
LEMMA WalkedHandlers ==
  ASSUME Together(socks)
  PROVE  WalkOrder \in Seq(Handler)
<1>1. PICK hs : hs = socks.handlers
  OBVIOUS
<1>2. hs \in Seq(Handler)
  BY <1>1 DEF Together, Lists
<1> QED
  <2>1. PICK past : past = {k \in DOMAIN hs : hs[k].sock = lastSock}
    OBVIOUS
  <2>2. CASE past = {}
    BY <1>1, <1>2, <2>1, <2>2 DEF WalkOrder
  <2>3. CASE past # {}
    <3>1. PICK k : k = CHOOSE j \in past : TRUE
      OBVIOUS
    <3>2. k \in 1..Len(hs)
      BY <1>2, <2>1, <2>3, <3>1
    <3>3. SubSeq(hs, k + 1, Len(hs)) \in Seq(Handler)
      BY <1>2, <3>2
    <3>4. WalkOrder = SubSeq(hs, k + 1, Len(hs)) \o hs
      BY <1>1, <2>1, <2>3, <3>1 DEF WalkOrder
    <3> QED BY <1>2, <3>3, <3>4
  <2> QED BY <2>2, <2>3

(* A search of the triggers finds one that it looks for. *)
LEMMA FirstOfFinds ==
  ASSUME lastTrigger \in Triggers, NEW T \in SUBSET Triggers, T # {}
  PROVE  FirstOf(T) \in T
<1>1. PICK N : N = NumTriggers
  OBVIOUS
<1>2. N \in Nat \ {0} /\ Triggers = 0..(N - 1) /\ lastTrigger \in 0..(N - 1)
  BY <1>1, NumbersAssumption DEF Triggers
<1>3. PICK rr : rr = RoundRobin
  OBVIOUS
<1>4. rr = [k \in 1..N |-> (lastTrigger + k) % N] /\ Len(rr) = N
  BY <1>1, <1>2, <1>3 DEF RoundRobin
<1>5. PICK found : found = {i \in 1..N : rr[i] \in T}
  OBVIOUS
<1>6. found # {}
  <2>1. PICK e \in T : e \in 0..(N - 1)
    BY <1>2
  <2>2. PICK last : last = lastTrigger
    OBVIOUS
  <2>3. PICK k : k = IF e > last THEN e - last ELSE e - last + N
    OBVIOUS
  <2>4. k \in 1..N
    BY <1>2, <2>1, <2>2, <2>3
  <2>5. (last + k) % N = e
    <3>1. \A a \in 0..(N - 1) : a % N = a /\ (a + N) % N = a
      BY <1>2
    <3>2. last + k = e \/ last + k = e + N
      BY <1>2, <2>1, <2>2, <2>3
    <3> QED BY <2>1, <3>1, <3>2
  <2> QED BY <1>4, <1>5, <2>1, <2>2, <2>4, <2>5
<1>7. PICK first : first = CHOOSE x \in found : \A y \in found : x <= y
  OBVIOUS
<1>8. first \in found
  <2>1. N \in Nat /\ found \in SUBSET (1..N)
    BY <1>2, <1>5
  <2> QED BY <1>6, <1>7, <2>1, FirstIndex
<1>9. SelectInSeq(rr, LAMBDA e : e \in T) = first
  BY <1>4, <1>5, <1>6, <1>7 DEF SelectInSeq, Min
<1> QED BY <1>3, <1>5, <1>8, <1>9 DEF FirstOf

(* Where no write of the mask is under way, nothing is said about one. *)
LEMMA AtRests ==
  ASSUME NEW place \in {"sockets", "triggers", "alarm", "idle"}
  PROVE  At(place) \in Steps /\ At(place).clear = {} /\ At(place).set = {}
  BY DEF At, Steps

(* Writes of the mask that are begun as they should. *)
LEMMA LoopWrites ==
  ASSUME NEW step \in Steps, NEW next \in Places, loop' = [step |-> step, next |-> next],
         step.clear \subseteq Triggers, step.set \subseteq used', step.clear \cap step.set = {}
  PROVE  loop' \in [step : Steps, next : Places] /\ LoopGood'
  BY DEF LoopGood

LEMMA LoopRests ==
  ASSUME NEW place \in {"sockets", "triggers", "alarm", "idle"}, NEW next \in Places,
         loop' = [step |-> At(place), next |-> next]
  PROVE  loop' \in [step : Steps, next : Places] /\ LoopGood'
  BY AtRests, LoopWrites

(* The invariant at the start. *)
LEMMA InitIInv ==
  ASSUME Init
  PROVE  IInv
<1>1. Together([handlers |-> <<>>, fdSets |-> {}, max |-> 0])
  <2>1. Lists(<<>>, {})
    BY DEF Lists
  <2> QED BY <2>1, TogetherMeans, NumbersAssumption DEF AskedFor
<1>2. NumTriggers - 1 \in Triggers
  BY NumbersAssumption DEF Triggers
<1>3. At("sockets") \in Steps /\ At("idle") \in Steps
  BY DEF At, Steps
<1>4. LoopGood
  BY DEF Init, LoopGood, At
<1> QED BY <1>1, <1>2, <1>3, <1>4 DEF Init, IInv, SocketsGood, TriggersGood, Places

LEMMA HandleSocketKeeps ==
  ASSUME IInv, HandleSocket
  PROVE  IInv'
<1>1. SocketsGood'
  <2>0. PICK reported \in Reports :
          LET found == SelectInSeq(WalkOrder, LAMBDA h : ResultConditionSet(h, reported) # {})
          IN IF found = 0 THEN lastSock' = -1 /\ UNCHANGED <<socks, ready>>
             ELSE LET h == WalkOrder[found]
                      taken == {h.sock} \X ResultConditionSet(h, reported)
                  IN /\ lastSock' = h.sock
                     /\ socks' \in SocketChanges
                     /\ ready' = (ready \ taken) \cap socks'.fdSets
    BY DEF HandleSocket
  <2>1. PICK found : found = SelectInSeq(WalkOrder, LAMBDA h : ResultConditionSet(h, reported) # {})
    OBVIOUS
  <2>2. CASE found = 0
    <3>1. lastSock' = -1 /\ UNCHANGED <<socks, ready>>
      BY <2>0, <2>1, <2>2
    <3> QED BY <3>1 DEF IInv, SocketsGood
  <2>3. CASE found # 0
    <3>1. PICK walk : walk = WalkOrder
      OBVIOUS
    <3>2. walk \in Seq(Handler)
      BY <3>1, WalkedHandlers DEF IInv, SocketsGood
    <3>3. PICK T : T = {i \in 1..Len(walk) : ResultConditionSet(walk[i], reported) # {}}
      OBVIOUS
    <3>4. found = IF T # {} THEN CHOOSE x \in T : \A y \in T : x <= y ELSE 0
      BY <2>1, <3>1, <3>3 DEF SelectInSeq, Min
    <3>5. found \in T
      <4>1. T # {}
        BY ONLY <2>3, <3>4
      <4>2. Len(walk) \in Nat
        BY <3>2
      <4>3. T \in SUBSET (1..Len(walk))
        BY <3>3
      <4> QED BY <3>4, <4>1, <4>2, <4>3, FirstIndex
    <3>6. walk[found] \in Handler
      BY <3>2, <3>3, <3>5
    <3>7. walk[found].sock \in Sockets
      BY <3>6 DEF Handler
    <3>8. lastSock' = walk[found].sock /\ socks' \in SocketChanges /\ ready' \subseteq socks'.fdSets
      BY <2>0, <2>1, <2>3, <3>1
    <3>9. Together(socks')
      BY <3>8, SocketChangesTogether DEF IInv, SocketsGood
    <3> QED BY <3>7, <3>8, <3>9 DEF SocketsGood
  <2> QED BY <2>2, <2>3
<1>2. loop' = [loop EXCEPT !.step = At("triggers")] /\ UNCHANGED <<used, awaiting, lastTrigger, owed, thread>>
  BY DEF HandleSocket, triggerVars
<1>3. TriggersGood'
  <2>1. loop' = [step |-> At("triggers"), next |-> loop.next] /\ loop.next \in Places
    BY <1>2 DEF IInv, TriggersGood, Places
  <2> QED BY <1>2, <2>1, LoopRests DEF IInv, TriggersGood
<1> QED BY <1>1, <1>3 DEF IInv

(* The calls that a handler or a task makes. *)
LEMMA DoNothingKeeps ==
  ASSUME NEW next \in {"sockets", "alarm"}, DoNothing(next)
  PROVE  loop' \in [step : Steps, next : Places] /\ LoopGood' /\ used' = used
  BY LoopRests DEF DoNothing, Places

LEMMA ChangeMaskKeeps ==
  ASSUME TriggersGood, NEW next \in {"sockets", "alarm"}, NEW mask \in SUBSET Triggers,
         ChangeMask(mask, next)
  PROVE  loop' \in [step : Steps, next : Places] /\ LoopGood' /\ used' = used
<1>1. used' = used /\ used \subseteq Triggers
  BY DEF ChangeMask, TriggersGood
<1>2. PICK e \in used :
        \/ loop' = [step |-> [At("storing") EXCEPT !.seen = mask, !.clear = {e}], next |-> next]
        \/ loop' = [step |-> [At("storing") EXCEPT !.seen = mask, !.set = {e}], next |-> next]
  BY DEF ChangeMask
<1>3. PICK c, s : /\ c = [At("storing") EXCEPT !.seen = mask, !.clear = {e}]
                  /\ s = [At("storing") EXCEPT !.seen = mask, !.set = {e}]
  OBVIOUS
<1>4. loop' = [step |-> c, next |-> next] \/ loop' = [step |-> s, next |-> next]
  BY <1>2, <1>3
<1>5. /\ c \in Steps /\ c.clear = {e} /\ c.set = {}
      /\ s \in Steps /\ s.clear = {} /\ s.set = {e}
  BY <1>1, <1>3 DEF At, Steps
<1>6. next \in Places
  BY DEF Places
<1> QED BY <1>1, <1>4, <1>5, <1>6, LoopWrites

LEMMA CreateKeeps ==
  ASSUME TriggersGood, NEW next \in {"sockets", "alarm"}, Create(next)
  PROVE  /\ loop' \in [step : Steps, next : Places] /\ LoopGood'
         /\ used \subseteq used' /\ used' \subseteq Triggers
<1>1. FirstOf(Triggers \ used) \in Triggers
  BY FirstOfFinds DEF Create, TriggersGood
<1> QED BY <1>1, LoopRests DEF Create, TriggersGood, Places

LEMMA FindTriggerKeeps ==
  ASSUME IInv, FindTrigger
  PROVE  IInv'
<1>1. UNCHANGED <<socks, lastSock, ready, used, awaiting, lastTrigger, owed, thread>>
  BY DEF FindTrigger, socketVars, triggerVars
<1>2. SocketsGood'
  BY <1>1 DEF IInv, SocketsGood
<1>3. loop' \in [step : Steps, next : Places] /\ LoopGood'
  <2>1. CASE awaiting = {}
    <3>1. loop' = [step |-> At("alarm"), next |-> loop.next] /\ loop.next \in Places
      BY <2>1 DEF FindTrigger, IInv, TriggersGood, Places
    <3> QED BY <3>1, LoopRests
  <2>2. CASE awaiting # {}
    <3>1. FirstOf(awaiting) \in Triggers
      BY <2>2, FirstOfFinds DEF IInv, TriggersGood
    <3>2. loop' = [step |-> Loaded({FirstOf(awaiting)}, {}), next |-> "call"]
      BY <2>2 DEF FindTrigger
    <3>3. PICK step : step = Loaded({FirstOf(awaiting)}, {})
      OBVIOUS
    <3>4. step \in Steps /\ step.clear = {FirstOf(awaiting)} /\ step.set = {}
      BY <3>1, <3>3 DEF Loaded, Steps, IInv, TriggersGood
    <3> QED BY <3>1, <3>2, <3>3, <3>4, LoopWrites DEF Places
  <2> QED BY <2>1, <2>2
<1> QED BY <1>1, <1>2, <1>3 DEF IInv, TriggersGood

(* What a write of the mask makes of it. *)
LEMMA StoredType ==
  ASSUME NEW step \in Steps
  PROVE  Stored(step) \subseteq Triggers
  BY DEF Stored, Steps

LEMMA CallTriggerKeeps ==
  ASSUME IInv, CallTrigger
  PROVE  IInv'
<1>1. UNCHANGED <<socks, lastSock, ready, thread>>
  BY DEF CallTrigger, socketVars
<1>2. SocketsGood'
  BY <1>1 DEF IInv, SocketsGood
<1>3. loop.step \in Steps /\ loop.step.clear \subseteq Triggers
  BY DEF IInv, TriggersGood, LoopGood
<1>4. awaiting' \subseteq Triggers
  BY <1>3, StoredType DEF CallTrigger
<1>5. owed' \subseteq owed
  BY DEF CallTrigger
<1>6. /\ loop' \in [step : Steps, next : Places] /\ LoopGood'
      /\ used \subseteq used' /\ used' \subseteq Triggers /\ lastTrigger' \in Triggers
  <2>1. PICK e \in loop.step.clear :
          \/ lastTrigger' = e /\ DoNothing("alarm")
          \/ lastTrigger' = e /\ ChangeMask(awaiting', "alarm")
          \/ /\ Create("alarm")
             /\ lastTrigger' \in {e} \cup (IF e = lastTrigger THEN used' \ used ELSE {})
    BY DEF CallTrigger
  <2>2. e \in Triggers
    BY <1>3
  <2>3. CASE lastTrigger' = e /\ DoNothing("alarm")
    BY <2>2, <2>3, DoNothingKeeps DEF IInv, TriggersGood
  <2>4. CASE lastTrigger' = e /\ ChangeMask(awaiting', "alarm")
    <3>1. PICK mask \in SUBSET Triggers : mask = awaiting'
      BY <1>4
    <3>2. ChangeMask(mask, "alarm")
      BY <2>4, <3>1
    <3> QED BY <2>2, <2>4, <3>2, ChangeMaskKeeps DEF IInv, TriggersGood
  <2>5. CASE /\ Create("alarm")
             /\ lastTrigger' \in {e} \cup (IF e = lastTrigger THEN used' \ used ELSE {})
    <3>1. lastTrigger' = e \/ lastTrigger' \in used'
      BY <2>5
    <3> QED BY <2>2, <2>5, <3>1, CreateKeeps DEF IInv
  <2> QED BY <2>1, <2>3, <2>4, <2>5
<1> QED BY <1>1, <1>2, <1>4, <1>5, <1>6 DEF IInv, TriggersGood

LEMMA StoreKeeps ==
  ASSUME IInv, Store
  PROVE  IInv'
<1>1. UNCHANGED <<socks, lastSock, ready, thread, lastTrigger>>
  BY DEF Store, socketVars
<1>2. SocketsGood'
  BY <1>1 DEF IInv, SocketsGood
<1>3. loop.step \in Steps /\ LoopGood
  BY DEF IInv, TriggersGood
<1>4. awaiting' \subseteq Triggers
  BY <1>3, StoredType DEF Store
<1>5. used' \subseteq Triggers /\ owed' \subseteq used'
  BY <1>3 DEF Store, IInv, TriggersGood, LoopGood
<1>6. loop' \in [step : Steps, next : Places] /\ LoopGood'
  <2>1. loop' = [step |-> At(loop.next), next |-> loop.next] /\ loop.next \in {"sockets", "alarm"}
    BY DEF Store, IInv, TriggersGood, Places
  <2> QED BY <2>1, LoopRests DEF Places
<1> QED BY <1>1, <1>2, <1>4, <1>5, <1>6 DEF IInv, TriggersGood

LEMMA ThreadTriggersKeeps ==
  ASSUME IInv, ThreadTriggers
  PROVE  IInv'
<1>1. UNCHANGED <<socks, lastSock, ready, used, awaiting, lastTrigger, owed, loop>>
  BY DEF ThreadTriggers, socketVars, triggerVars
<1>2. thread' \in Steps
  BY DEF ThreadTriggers, Loaded, Steps, IInv, TriggersGood
<1> QED BY <1>1, <1>2 DEF IInv, SocketsGood, TriggersGood, LoopGood

LEMMA ThreadStoresKeeps ==
  ASSUME IInv, ThreadStores
  PROVE  IInv'
<1>1. UNCHANGED <<socks, lastSock, ready, used, lastTrigger, loop>>
  BY DEF ThreadStores, socketVars
<1>2. awaiting' \subseteq Triggers
  BY StoredType DEF ThreadStores, IInv, TriggersGood
<1>3. owed' \subseteq used /\ thread' \in Steps
  BY AtRests DEF ThreadStores, IInv, TriggersGood
<1> QED BY <1>1, <1>2, <1>3 DEF IInv, SocketsGood, TriggersGood, LoopGood

LEMMA HandleAlarmKeeps ==
  ASSUME IInv, HandleAlarm
  PROVE  IInv'
<1>1. CASE DoNothing("sockets") /\ UNCHANGED <<socketVars, triggerVars>>
  BY <1>1, DoNothingKeeps
     DEF HandleAlarm, socketVars, triggerVars, IInv, SocketsGood, TriggersGood
<1>2. CASE /\ socks' \in SocketChanges
           /\ ready' = ready \cap socks'.fdSets
           /\ DoNothing("sockets")
           /\ UNCHANGED <<lastSock, awaiting, lastTrigger, owed>>
  <2>1. SocketsGood'
    BY <1>2, SocketChangesTogether DEF IInv, SocketsGood
  <2> QED BY <1>2, <2>1, DoNothingKeeps DEF HandleAlarm, IInv, TriggersGood
<1>3. CASE /\ \/ Create("sockets") /\ lastTrigger' \in used' \ used
              \/ ChangeMask(awaiting, "sockets") /\ UNCHANGED lastTrigger
           /\ UNCHANGED <<socketVars, awaiting, owed>>
  <2>1. CASE Create("sockets") /\ lastTrigger' \in used' \ used
    BY <1>3, <2>1, CreateKeeps DEF HandleAlarm, socketVars, IInv, SocketsGood, TriggersGood
  <2>2. CASE ChangeMask(awaiting, "sockets") /\ UNCHANGED lastTrigger
    <3>1. PICK mask \in SUBSET Triggers : mask = awaiting
      BY DEF IInv, TriggersGood
    <3>2. ChangeMask(mask, "sockets")
      BY <2>2, <3>1
    <3>3. loop' \in [step : Steps, next : Places] /\ LoopGood' /\ used' = used
      BY <3>2, ChangeMaskKeeps DEF IInv
    <3> QED BY <1>3, <2>2, <3>3 DEF HandleAlarm, socketVars, IInv, SocketsGood, TriggersGood
  <2> QED BY <1>3, <2>1, <2>2
<1> QED BY <1>1, <1>2, <1>3 DEF HandleAlarm

LEMMA BecomesReadyKeeps ==
  ASSUME IInv, BecomesReady
  PROVE  IInv'
  BY DEF BecomesReady, triggerVars, IInv, SocketsGood, TriggersGood, LoopGood

-----------------------------------------------------------------------------
(* Of every behaviour.                                                     *)

(* The invariant holds throughout. *)
THEOREM Invariance == Spec => []IInv
<1>1. Init => IInv
  BY InitIInv
<1>2. ASSUME IInv, [Next]_vars PROVE IInv'
  <2>1. CASE HandleSocket
    BY <1>2, <2>1, HandleSocketKeeps
  <2>2. CASE FindTrigger
    BY <1>2, <2>2, FindTriggerKeeps
  <2>3. CASE CallTrigger
    BY <1>2, <2>3, CallTriggerKeeps
  <2>4. CASE Store
    BY <1>2, <2>4, StoreKeeps
  <2>5. CASE HandleAlarm
    BY <1>2, <2>5, HandleAlarmKeeps
  <2>6. CASE BecomesReady
    BY <1>2, <2>6, BecomesReadyKeeps
  <2>7. CASE ThreadTriggers
    BY <1>2, <2>7, ThreadTriggersKeeps
  <2>8. CASE ThreadStores
    BY <1>2, <2>8, ThreadStoresKeeps
  <2>9. CASE UNCHANGED vars
    BY <1>2, <2>9
       DEF vars, socketVars, triggerVars, IInv, SocketsGood, TriggersGood, LoopGood
  <2> QED BY <1>2, <2>1, <2>2, <2>3, <2>4, <2>5, <2>6, <2>7, <2>8, <2>9 DEF Next, LoopStep
<1> QED BY <1>1, <1>2, PTL DEF Spec

LEMMA TogetherTypes ==
  ASSUME Together(socks)
  PROVE  /\ socks.handlers \in BoundedSeq(Handler, NumSockets)
         /\ IsInjective([i \in DOMAIN socks.handlers |-> socks.handlers[i].sock])
<1>1. PICK hs : hs = socks.handlers
  OBVIOUS
<1>2. Lists(hs, Range(hs))
  BY <1>1 DEF Together
<1>3. PICK n : n = Len(hs)
  OBVIOUS
<1>4. n \in 0..NumSockets
  <2>1. n <= NumSockets
    BY <1>2, <1>3, ListsBounded
  <2>2. n \in Nat
    BY <1>2, <1>3 DEF Lists
  <2> QED BY <2>1, <2>2, NumbersAssumption
<1>5. hs \in [1..n -> Handler] /\ \A i, j \in 1..n : hs[i].sock = hs[j].sock => i = j
  BY <1>2, <1>3 DEF Lists
<1>6. hs \in BoundedSeq(Handler, NumSockets)
  <2>1. hs \in [1..n -> Handler]
    BY <1>5
  <2> QED BY ONLY <1>4, <2>1 DEF BoundedSeq, SeqOf
<1>7. IsInjective([i \in DOMAIN hs |-> hs[i].sock])
  <2>1. DOMAIN hs = 1..n
    BY <1>5
  <2> QED BY <1>5, <2>1 DEF IsInjective
<1> QED BY <1>1, <1>6, <1>7

(* A socket has one handler, select() is asked for what the handlers are for,
   and about no socket beyond fMaxNumSockets, whatever the handlers that are
   called turn on, off and over. *)
THEOREM TypeCorrect == Spec => []TypeOK
<1>1. IInv => TypeOK
  <2> SUFFICES ASSUME IInv PROVE TypeOK
    OBVIOUS
  <2>1. socks.handlers \in BoundedSeq(Handler, NumSockets)
        /\ IsInjective([i \in DOMAIN socks.handlers |-> socks.handlers[i].sock])
    BY TogetherTypes DEF IInv, SocketsGood
  <2>2. /\ socks.fdSets = UNION {{h.sock} \X h.conds : h \in Range(socks.handlers)}
        /\ \A p \in socks.fdSets : p[1] < socks.max
        /\ socks.max \in 0..NumSockets
    BY DEF IInv, SocketsGood, Together, AskedFor
  <2> QED BY <2>1, <2>2 DEF IInv, SocketsGood, TriggersGood, TypeOK, Handler, Places
<1> QED BY <1>1, Invariance, PTL
=============================================================================
