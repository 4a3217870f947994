---------------------- MODULE MultiFramedRTPSourceProofs ----------------------
(***************************************************************************)
(* Proofs that the reordering buffer keeps its packets in order and that   *)
(* the reader of MultiFramedRTPSource gets whole frames in order, for any  *)
(* number of packets, size of the number space and behaviour of the        *)
(* network.                                                                *)
(*                                                                         *)
(* The plan: the number expected next is that of some packet x of the      *)
(* stream, and no packet in the list is before x (Placed).  Packets of a   *)
(* stream are never half the number space apart, so that sequence numbers  *)
(* compare as the packets do (SeqLTIsLess).  What is at fSavedTo is then   *)
(* what the frame of x has before x, unless the code has marked a loss     *)
(* (InSync), and frames that were given are behind it (Delivered).  One    *)
(* turn of the loop in doGetNextFrame1 keeps that, and so do any number of *)
(* them, after which no packet is left that could be used (Stable).        *)
(***************************************************************************)
EXTENDS MultiFramedRTPSource, TLAPS, FiniteSetTheorems, SequenceTheorems, WellFoundedInduction

BufferType ==
  [seen : BOOLEAN, expected : 0..SeqModulus - 1, list : Seq(StoredPacket),
   saved : {"none", "free", "used"}]

Partly == [packet : Packet, saved : BOOLEAN]

SourceType ==
  [reading : BOOLEAN, awaiting : BOOLEAN, need : BOOLEAN, afterGetting : BOOLEAN,
   lossInFrame : BOOLEAN, frame : Seq(Piece), partly : {NoPacket} \cup Partly,
   ssrc : {0, 1, 2}, buffer : BufferType]

WorldType == [src : SourceType, given : Seq(Seq(Piece)), doubt : BOOLEAN]

(* No packet in the list has been used up. *)
Usable(list) == \A i \in 1..Len(list) : list[i].uses < FramesIn(list[i].n)

(* What SavedPacketOnce says, when hand tells whether the packet being read
   into is fSavedPacket. *)
SavedOnce(list, saved, hand) ==
  /\ \A i, j \in 1..Len(list) : list[i].saved /\ list[j].saved => i = j
  /\ hand => \A i \in 1..Len(list) : ~list[i].saved
  /\ (saved = "used") <=> (hand \/ \E i \in 1..Len(list) : list[i].saved)

InHand(s) == IF s.partly = NoPacket THEN FALSE ELSE s.partly.saved

(* The packets of the stream whose packet 0 would have the number base. *)
Number(base, n) == (base + n) % SeqModulus

(* The number expected is that of packet x.  The packets in the list are in
   order, from x on and before last; only x itself can have been used in part
   or be the first of the stream. *)
Placed(list, expected, base, x, last) ==
  /\ x \in 1..last /\ last \in 1..(MaxPackets + 1)
  /\ expected = Number(base, x)
  /\ \A i \in 1..Len(list) :
       /\ x <= list[i].n /\ list[i].n < last
       /\ list[i].seq = Number(base, list[i].n)
       /\ list[i].uses = 1 \/ list[i].first => list[i].n = x
  /\ \A i, j \in 1..Len(list) : i < j => list[i].n < list[j].n

(* What a frame has before packet x, which is one of its packets or the first
   of the next frame. *)
Before(x) ==
  CASE x % 4 = 3 -> <<<<x - 1, 1>>>>
    [] x % 4 = 0 -> <<<<x - 2, 1>>, <<x - 1, 1>>>>
    [] OTHER -> <<>>

(* Packet x is the first of the stream, and nothing was received before it. *)
Begins(list, x) == list # <<>> /\ Head(list).n = x /\ Head(list).first

(* What is at fSavedTo goes with x, or the code knows that it does not. *)
InSync(s, frames, x) ==
  \/ Begins(s.buffer.list, x)
  \/ s.lossInFrame
  \/ /\ s.need => /\ s.frame = Before(x)
                  /\ s.frame # <<>> /\ frames # <<>> => Comes(frames[Len(frames)], s.frame)
     /\ ~s.need => BeginsFrame(x)

(* The frame began with a packet before x, or is the first of two in x. *)
Passed(frame, list, x) ==
  \/ frame[1][1] < x
  \/ frame[1] = <<x, 1>> /\ list # <<>> /\ Head(list).n = x /\ Head(list).uses = 1

(* Whole frames have been given, in order and before x. *)
Delivered(frames, list, x) ==
  /\ \A i \in 1..Len(frames) : IsWhole(frames[i])
  /\ \A i \in 1..Len(frames) - 1 : Comes(frames[i], frames[i + 1])
  /\ frames # <<>> => Passed(frames[Len(frames)], list, x)

(* The same of the frame that is to be given by a task. *)
OnItsWay(s, frames, x) ==
  s.afterGetting =>
    /\ IsWhole(s.frame) /\ Passed(s.frame, s.buffer.list, x)
    /\ frames # <<>> => Comes(frames[Len(frames)], s.frame)

Followed(s, frames, base, x, last) ==
  /\ Placed(s.buffer.list, s.buffer.expected, base, x, last)
  /\ InSync(s, frames, x)
  /\ Delivered(frames, s.buffer.list, x)
  /\ OnItsWay(s, frames, x)

(* What holds between two turns of the loop. *)
LoopGood(w, hand, base, last) ==
  /\ w \in WorldType
  /\ Usable(w.src.buffer.list)
  /\ SavedOnce(w.src.buffer.list, w.src.buffer.saved, hand)
  /\ w.src.awaiting <=> w.src.need \/ w.src.afterGetting
  /\ ~(w.src.need /\ w.src.afterGetting)
  /\ ~w.src.buffer.seen => w.src.buffer.list = <<>> /\ w.given = <<>> /\ ~w.src.afterGetting
  /\ ~w.doubt /\ w.src.buffer.seen =>
       \E x \in 1..last : Followed(w.src, w.given, base, x, last)

-----------------------------------------------------------------------------
(* The network.                                                            *)

(* The number of a stream's packet 0. *)
Base(snd, ssrc) == IF ssrc = 2 THEN snd.base ELSE SeqModulus - 3

(* Packets on their way are of the sender's stream. *)
NetGood(snd, packets) ==
  /\ snd \in [sent : 0..MaxPackets + 4, ssrc : {1, 2}, base : 0..SeqModulus - 1]
  /\ snd.ssrc = 1 => snd.base = SeqModulus - 3 /\ snd.sent <= MaxPackets
  /\ packets \subseteq Packet
  /\ \A p \in packets : /\ p.ssrc = snd.ssrc /\ p.n <= snd.sent
                        /\ p.seq = Number(Base(snd, p.ssrc), p.n)

(* The one that has been read in part may be of the stream before it. *)
PartlyGood(snd, packets, s) ==
  s.partly # NoPacket =>
    LET p == s.partly.packet
    IN /\ p.n <= snd.sent /\ p.seq = Number(Base(snd, p.ssrc), p.n)
       /\ s.ssrc <= p.ssrc /\ p.ssrc <= snd.ssrc
       /\ p.ssrc # snd.ssrc => \A q \in packets : p.n < q.n

(* Packets that may still come. *)
Coming(packets, s) ==
  packets \cup (IF s.partly = NoPacket THEN {} ELSE {s.partly.packet})

(* The source has got no further than the stream that it received last: what
   comes of another stream is sent from last on. *)
Bounded(snd, packets, s, last) ==
  /\ last <= snd.sent + 1
  /\ \A p \in Coming(packets, s) : p.ssrc # s.ssrc => last <= p.n

World(s, frames, d) == [src |-> s, given |-> frames, doubt |-> d]

(* What holds of the source, given what is on its way. *)
SourceGood(snd, packets, s, frames, d) ==
  /\ PartlyGood(snd, packets, s)
  /\ s.ssrc <= snd.ssrc
  /\ s.buffer.seen => s.ssrc # 0
  /\ \E last \in 1..(MaxPackets + 1) :
       /\ ~d /\ s.buffer.seen => Bounded(snd, packets, s, last)
       /\ LoopGood(World(s, frames, d), InHand(s), Base(snd, s.ssrc), last)

(* No packet that could be used is left. *)
NoneUsable(s) ==
  s.need /\ s.buffer.list # <<>> => Head(s.buffer.list).seq # s.buffer.expected

(* The inductive invariant. *)
IInv ==
  /\ NetGood(sender, net) /\ tcp \in BOOLEAN
  /\ SourceGood(sender, net, source, given, doubt)
  /\ NoneUsable(source)

-----------------------------------------------------------------------------
(* Sequence numbers.                                                       *)

LEMMA Sizes ==
  /\ SeqModulus \in Nat /\ SeqModulus > 2
  /\ SeqModulus \div 2 \in Nat /\ SeqModulus = 2 * (SeqModulus \div 2)
  /\ MaxPackets \in Nat /\ MaxPackets >= 1 /\ MaxPackets < SeqModulus \div 2
<1>1. SeqModulus \in Nat /\ SeqModulus % 2 = 0 /\ MaxPackets \in Nat /\ MaxPackets >= 1
      /\ MaxJump \in Nat /\ 2 * (MaxPackets + MaxJump) < SeqModulus
  BY SeqModulusAssumption, BoundsAssumption
<1>2. SeqModulus \div 2 \in Nat /\ SeqModulus = 2 * (SeqModulus \div 2)
  BY <1>1
<1> QED BY <1>1, <1>2

LEMMA Remainders ==
  ASSUME NEW m \in Nat, m > 0, NEW a \in 0..(m - 1)
  PROVE  a % m = a /\ (a + m) % m = a
  OBVIOUS

LEMMA NumberIs ==
  ASSUME NEW base \in 0..SeqModulus - 1, NEW n \in 0..(MaxPackets + 1)
  PROVE  /\ Number(base, n) \in 0..SeqModulus - 1
         /\ Number(base, n) = IF base + n < SeqModulus THEN base + n ELSE base + n - SeqModulus
<1>1. PICK m : m = SeqModulus
  OBVIOUS
<1>2. m \in Nat /\ m > 0 /\ base \in 0..(m - 1) /\ n \in Nat /\ n < m
  BY <1>1, Sizes
<1>3. CASE base + n < m
  <2>1. base + n \in 0..(m - 1)
    BY <1>2, <1>3
  <2>2. (base + n) % m = base + n
    BY <1>2, <2>1, Remainders
  <2> QED BY <1>1, <1>3, <2>1, <2>2 DEF Number
<1>4. CASE ~(base + n < m)
  <2>1. base + n - m \in 0..(m - 1) /\ base + n = (base + n - m) + m
    BY <1>2, <1>4
  <2>2. (base + n) % m = base + n - m
    BY <1>2, <2>1, Remainders
  <2> QED BY <1>1, <1>4, <2>1, <2>2 DEF Number
<1> QED BY <1>3, <1>4

(* Different packets of a stream have different numbers. *)
LEMMA NumberSame ==
  ASSUME NEW base \in 0..SeqModulus - 1,
         NEW a \in 1..(MaxPackets + 1), NEW b \in 1..(MaxPackets + 1)
  PROVE  Number(base, a) = Number(base, b) <=> a = b
<1>1. Number(base, a) = IF base + a < SeqModulus THEN base + a ELSE base + a - SeqModulus
  BY NumberIs, Sizes
<1>2. Number(base, b) = IF base + b < SeqModulus THEN base + b ELSE base + b - SeqModulus
  BY NumberIs, Sizes
<1> QED BY <1>1, <1>2, Sizes

(* The number after that of packet a. *)
LEMMA NumberNext ==
  ASSUME NEW base \in 0..SeqModulus - 1, NEW a \in 1..MaxPackets
  PROVE  (Number(base, a) + 1) % SeqModulus = Number(base, a + 1)
<1>1. PICK m : m = SeqModulus
  OBVIOUS
<1>2. m \in Nat /\ m > 0 /\ MaxPackets \in Nat /\ MaxPackets + 1 < m
  BY <1>1, Sizes
<1>3. a \in 0..(MaxPackets + 1) /\ a + 1 \in 0..(MaxPackets + 1)
  BY <1>2
<1>4. PICK k : k = Number(base, a)
  OBVIOUS
<1>5. k \in 0..(m - 1) /\ k = IF base + a < m THEN base + a ELSE base + a - m
  BY <1>1, <1>3, <1>4, NumberIs
<1>6. Number(base, a + 1) = IF base + (a + 1) < m THEN base + (a + 1) ELSE base + (a + 1) - m
  BY <1>1, <1>3, NumberIs
<1>7. CASE k + 1 < m
  <2>1. (k + 1) % m = k + 1
    BY <1>2, <1>5, <1>7, Remainders
  <2>2. k + 1 = IF base + (a + 1) < m THEN base + (a + 1) ELSE base + (a + 1) - m
    BY <1>1, <1>2, <1>5, <1>7
  <2> QED BY <1>1, <1>4, <1>6, <2>1, <2>2
<1>8. CASE ~(k + 1 < m)
  <2>1. k + 1 = 0 + m /\ 0 \in 0..(m - 1)
    BY <1>2, <1>5, <1>8
  <2>2. (k + 1) % m = 0
    BY <1>2, <2>1, Remainders
  <2>3. 0 = IF base + (a + 1) < m THEN base + (a + 1) ELSE base + (a + 1) - m
    BY <1>1, <1>2, <1>5, <1>8
  <2> QED BY <1>1, <1>4, <1>6, <2>2, <2>3
<1> QED BY <1>7, <1>8

(* seqNumLT compares packets of a stream as they were sent. *)
LEMMA SeqLTIsLess ==
  ASSUME NEW base \in 0..SeqModulus - 1,
         NEW a \in 1..(MaxPackets + 1), NEW b \in 1..(MaxPackets + 1)
  PROVE  SeqLT(Number(base, a), Number(base, b)) <=> a < b
<1>1. PICK m, half : m = SeqModulus /\ half = SeqModulus \div 2
  OBVIOUS
<1>2. /\ m \in Nat /\ half \in Nat /\ m = 2 * half /\ MaxPackets \in Nat /\ MaxPackets < half
      /\ base \in 0..(m - 1)
  BY <1>1, Sizes
<1>3. a \in 0..(MaxPackets + 1) /\ b \in 0..(MaxPackets + 1)
  BY <1>2
<1>4. PICK s, t : s = Number(base, a) /\ t = Number(base, b)
  OBVIOUS
<1>5. /\ s = IF base + a < m THEN base + a ELSE base + a - m
      /\ t = IF base + b < m THEN base + b ELSE base + b - m
  BY <1>1, <1>3, <1>4, NumberIs
<1>6. a - b < half /\ b - a < half /\ a \in Int /\ b \in Int
  BY ONLY <1>2, a \in 1..(MaxPackets + 1), b \in 1..(MaxPackets + 1)
<1>7. SeqLT(s, t) <=> IF t - s > 0 THEN t - s < half ELSE t - s < -half
  BY <1>1 DEF SeqLT
<1>8. (IF t - s > 0 THEN t - s < half ELSE t - s < -half) <=> a < b
  BY ONLY <1>2, <1>5, <1>6
<1> QED BY <1>4, <1>7, <1>8

-----------------------------------------------------------------------------
(* The reordering buffer.                                                  *)

LEMMA PacketFields ==
  ASSUME NEW p \in StoredPacket
  PROVE  /\ p.n \in 1..MaxPackets /\ p.n \in Int /\ p.n >= 1 /\ p.n <= MaxPackets
         /\ p.seq \in 0..SeqModulus - 1 /\ p.first \in BOOLEAN /\ p.uses \in {0, 1}
         /\ p.saved \in BOOLEAN
BY Sizes DEF StoredPacket

LEMMA EntryPacket ==
  ASSUME NEW list \in Seq(StoredPacket), NEW i \in 1..Len(list)
  PROVE  list[i] \in StoredPacket
OBVIOUS

LEMMA NotEmpty ==
  ASSUME NEW S, NEW list \in Seq(S), Len(list) # 0
  PROVE  list # <<>>
<1>1. list = <<>> => Len(list) = Len(<<>>)
  OBVIOUS
<1>2. Len(<<>>) = 0
  OBVIOUS
<1> QED BY ONLY <1>1, <1>2, Len(list) # 0

LEMMA HeadFields ==
  ASSUME NEW list \in Seq(StoredPacket), list # <<>>
  PROVE  /\ Head(list) = list[1] /\ 1 \in 1..Len(list) /\ Head(list) \in StoredPacket
         /\ Tail(list) \in Seq(StoredPacket) /\ Len(Tail(list)) = Len(list) - 1
         /\ \A i \in 1..Len(Tail(list)) : Tail(list)[i] = list[i + 1] /\ i + 1 \in 1..Len(list)
<1>1. Len(list) \in Nat /\ Len(list) # 0 /\ Head(list) = list[1]
  BY EmptySeq
<1>2. /\ Head(list) \in StoredPacket /\ Tail(list) \in Seq(StoredPacket)
      /\ Len(Tail(list)) = Len(list) - 1
      /\ \A i \in 1..Len(Tail(list)) : Tail(list)[i] = list[i + 1]
  BY HeadTailProperties
<1>3. 1 \in 1..Len(list) /\ \A i \in 1..(Len(list) - 1) : i + 1 \in 1..Len(list)
  BY ONLY <1>1
<1> QED BY ONLY <1>1, <1>2, <1>3

(* The list t is list with p put in behind its first k packets. *)
Inserted(list, t, k, p) ==
  /\ t \in Seq(StoredPacket) /\ Len(t) = Len(list) + 1
  /\ \A i \in 1..(Len(list) + 1) :
       t[i] = IF i <= k THEN list[i] ELSE IF i = k + 1 THEN p ELSE list[i - 1]

LEMMA InsertAtInserts ==
  ASSUME NEW list \in Seq(StoredPacket), NEW k \in 0..Len(list), NEW p \in StoredPacket
  PROVE  Inserted(list, InsertAt(list, k + 1, p), k, p)
<1>1. PICK n : n = Len(list)
  OBVIOUS
<1>2. n \in Nat /\ k \in 0..n /\ \A i \in 1..n : list[i] \in StoredPacket
  BY <1>1
<1>3. PICK s1, s2, s3 : s1 = SubSeq(list, 1, k) /\ s2 = <<p>> /\ s3 = SubSeq(list, k + 1, n)
  OBVIOUS
<1>4. PICK t : t = InsertAt(list, k + 1, p)
  OBVIOUS
<1>5. t = (s1 \o s2) \o s3
  <2>1. t = (SubSeq(list, 1, (k + 1) - 1) \o <<p>>) \o SubSeq(list, k + 1, Len(list))
    BY <1>4, Zenon DEF InsertAt
  <2>2. (k + 1) - 1 = k
    BY ONLY <1>2
  <2> QED BY ONLY <1>1, <1>3, <2>1, <2>2, Zenon
<1>6. s1 \in Seq(StoredPacket) /\ Len(s1) = k /\ \A i \in 1..k : s1[i] = list[i]
  BY <1>1, <1>2, <1>3
<1>7. s2 \in Seq(StoredPacket) /\ Len(s2) = 1 /\ s2[1] = p
  BY <1>3
<1>8. s3 \in Seq(StoredPacket) /\ Len(s3) = n - k /\ \A i \in 1..(n - k) : s3[i] = list[k + i]
  <2>1. \A i \in (k + 1)..n : list[i] \in StoredPacket
    BY <1>2
  <2>2. /\ s3 \in Seq(StoredPacket)
        /\ Len(s3) = IF k + 1 <= n THEN n - (k + 1) + 1 ELSE 0
        /\ \A i \in 1..(n - (k + 1) + 1) : s3[i] = list[(k + 1) + i - 1]
    BY <1>2, <1>3, <2>1, SubSeqProperties
  <2>3. n - (k + 1) + 1 = n - k /\ (k + 1 <= n \/ n - k = 0)
    BY ONLY <1>2
  <2>4. ASSUME NEW i \in 1..(n - k)
        PROVE  s3[i] = list[k + i]
    <3>1. (k + 1) + i - 1 = k + i
      BY ONLY <1>2, i \in 1..(n - k)
    <3> QED BY ONLY <2>2, <2>3, <3>1, i \in 1..(n - k)
  <2> QED BY ONLY <1>2, <2>2, <2>3, <2>4
<1>9. PICK s : s = s1 \o s2
  OBVIOUS
<1>10. /\ s \in Seq(StoredPacket) /\ Len(s) = k + 1
       /\ \A i \in 1..(k + 1) : s[i] = IF i <= k THEN list[i] ELSE p
  <2>1. /\ s \in Seq(StoredPacket) /\ Len(s) = Len(s1) + Len(s2)
        /\ \A i \in 1..Len(s1) + Len(s2) :
             s[i] = IF i <= Len(s1) THEN s1[i] ELSE s2[i - Len(s1)]
    BY <1>6, <1>7, <1>9, ConcatProperties
  <2>2. ASSUME NEW i \in 1..(k + 1)
        PROVE  s[i] = IF i <= k THEN list[i] ELSE p
    <3>1. i <= k => i \in 1..k
      BY ONLY <1>2, i \in 1..(k + 1)
    <3>2. ~(i <= k) => i - k = 1
      BY ONLY <1>2, i \in 1..(k + 1)
    <3>3. i \in 1..Len(s1) + Len(s2)
      BY ONLY <1>2, <1>6, <1>7, i \in 1..(k + 1)
    <3> QED BY ONLY <1>6, <1>7, <2>1, <3>1, <3>2, <3>3
  <2> QED BY ONLY <1>6, <1>7, <2>1, <2>2
<1>11. /\ t \in Seq(StoredPacket) /\ Len(t) = n + 1
       /\ \A i \in 1..(n + 1) : t[i] = IF i <= k + 1 THEN s[i] ELSE s3[i - (k + 1)]
  <2>1. /\ t \in Seq(StoredPacket) /\ Len(t) = Len(s) + Len(s3)
        /\ \A i \in 1..Len(s) + Len(s3) :
             t[i] = IF i <= Len(s) THEN s[i] ELSE s3[i - Len(s)]
    <3>1. t = s \o s3
      BY <1>5, <1>9
    <3> QED BY <1>8, <1>10, <3>1, ConcatProperties
  <2>2. (k + 1) + (n - k) = n + 1
    BY ONLY <1>2
  <2> QED BY ONLY <1>8, <1>10, <2>1, <2>2
<1>12. ASSUME NEW i \in 1..(n + 1)
       PROVE  t[i] = IF i <= k THEN list[i] ELSE IF i = k + 1 THEN p ELSE list[i - 1]
  <2>1. CASE i <= k + 1
    <3>1. i \in 1..(k + 1) /\ (~(i <= k) => i = k + 1)
      BY ONLY <1>2, <2>1, i \in 1..(n + 1)
    <3> QED BY ONLY <1>10, <1>11, <2>1, <3>1, i \in 1..(n + 1)
  <2>2. CASE ~(i <= k + 1)
    <3>1. /\ ~(i <= k) /\ i # k + 1 /\ i - (k + 1) \in 1..(n - k)
          /\ k + (i - (k + 1)) = i - 1
      BY ONLY <1>2, <2>2, i \in 1..(n + 1)
    <3> QED BY ONLY <1>8, <1>11, <2>2, <3>1, i \in 1..(n + 1)
  <2> QED BY <2>1, <2>2
<1> QED BY <1>1, <1>4, <1>11, <1>12 DEF Inserted

(* The packet is found at its place, and the others before and behind it. *)
InPlaces(list, t, k, p) ==
  /\ k + 1 \in 1..Len(t) /\ t[k + 1] = p
  /\ \A i \in 1..Len(t) : i # k + 1 =>
       \E j \in 1..Len(list) : t[i] = list[j] /\ j = IF i <= k THEN i ELSE i - 1
  /\ \A j \in 1..Len(list) : \E i \in 1..Len(t) : i # k + 1 /\ t[i] = list[j]

LEMMA InsertedPlaces ==
  ASSUME NEW list \in Seq(StoredPacket), NEW k \in 0..Len(list), NEW p \in StoredPacket,
         NEW t, Inserted(list, t, k, p)
  PROVE  InPlaces(list, t, k, p)
<1>1. PICK n : n = Len(list)
  OBVIOUS
<1>2. /\ n \in Nat /\ k \in 0..n /\ Len(t) = n + 1
      /\ \A i \in 1..(n + 1) :
           t[i] = IF i <= k THEN list[i] ELSE IF i = k + 1 THEN p ELSE list[i - 1]
  BY <1>1 DEF Inserted
<1>3. k + 1 \in 1..Len(t) /\ t[k + 1] = p
  <2>1. k + 1 \in 1..(n + 1) /\ ~(k + 1 <= k)
    BY ONLY <1>2
  <2> QED BY ONLY <1>2, <2>1
<1>4. ASSUME NEW i \in 1..Len(t), i # k + 1
      PROVE  \E j \in 1..n : t[i] = list[j] /\ j = IF i <= k THEN i ELSE i - 1
  <2>1. PICK j : j = IF i <= k THEN i ELSE i - 1
    OBVIOUS
  <2>2. j \in 1..n /\ i \in 1..(n + 1)
    BY ONLY <1>2, <1>4, <2>1, i \in 1..Len(t)
  <2> QED BY ONLY <1>2, <1>4, <2>1, <2>2
<1>5. ASSUME NEW j \in 1..n
      PROVE  \E i \in 1..Len(t) : i # k + 1 /\ t[i] = list[j]
  <2>1. PICK i : i = IF j <= k THEN j ELSE j + 1
    OBVIOUS
  <2>2. i \in 1..(n + 1) /\ i # k + 1 /\ (i <= k <=> j <= k) /\ (~(j <= k) => i - 1 = j)
    BY ONLY <1>2, <2>1, j \in 1..n
  <2> QED BY ONLY <1>2, <2>1, <2>2
<1> QED BY <1>1, <1>3, <1>4, <1>5 DEF InPlaces

(* The packets that are before packet p. *)
Earlier(list, p) == {i \in 1..Len(list) : SeqLT(list[i].seq, p.seq)}

LEMMA EarlierCount ==
  ASSUME NEW list \in Seq(StoredPacket), NEW p
  PROVE  Cardinality(Earlier(list, p)) \in 0..Len(list)
<1>1. PICK n : n = Len(list)
  OBVIOUS
<1>2. n \in Nat
  BY <1>1
<1>3. IsFiniteSet(1..n) /\ Cardinality(1..n) = n
  <2>1. IsFiniteSet(1..n) /\ Cardinality(1..n) = IF 1 <= n THEN n - 1 + 1 ELSE 0
    BY <1>2, FS_Interval
  <2> QED BY <1>2, <2>1
<1>4. Earlier(list, p) \subseteq 1..n
  BY <1>1 DEF Earlier
<1>5. IsFiniteSet(Earlier(list, p)) /\ Cardinality(Earlier(list, p)) <= n
  BY <1>3, <1>4, FS_Subset
<1>6. Cardinality(Earlier(list, p)) \in Nat
  BY <1>5, FS_CardinalityType
<1> QED BY <1>1, <1>2, <1>5, <1>6

(* storePacket refuses what is late or there already. *)
Refuses(b, p) == IsLate(NoteFirst(b, p), p) \/ IsDuplicate(b, p)

(* The packet as it is stored. *)
Marked(b, p) == [p EXCEPT !.first = ~b.seen]

LEMMA StoreFields ==
  ASSUME NEW b \in BufferType, NEW p \in StoredPacket, NEW c, c = StorePacket(b, p)
  PROVE  /\ c \in BufferType /\ c.seen
         /\ b.seen => c.expected = b.expected
         /\ ~b.seen => c.expected = p.seq
         /\ Refuses(b, p) => /\ c.list = b.list
                             /\ p.saved => c.saved = "free"
                             /\ ~p.saved => c.saved = b.saved
         /\ ~Refuses(b, p) => /\ c.saved = b.saved
                              /\ Inserted(b.list, c.list, Cardinality(Earlier(b.list, p)),
                                          Marked(b, p))
<1>1. PICK d : d = NoteFirst(b, p)
  OBVIOUS
<1>2. /\ d \in BufferType /\ d.seen /\ d.expected = (IF b.seen THEN b.expected ELSE p.seq)
      /\ d.list = b.list /\ d.saved = b.saved
  <2>1. CASE b.seen
    BY <1>1, <2>1 DEF NoteFirst, BufferType
  <2>2. CASE ~b.seen
    BY <1>1, <2>2 DEF NoteFirst, BufferType, StoredPacket
  <2> QED BY <2>1, <2>2
<1>3. Refuses(b, p) <=> IsLate(d, p) \/ IsDuplicate(d, p)
  BY <1>1, <1>2 DEF Refuses, IsDuplicate
<1>4. CASE Refuses(b, p)
  <2>1. c = FreePacket(d, p)
    BY <1>1, <1>3, <1>4 DEF StorePacket
  <2>2. CASE p.saved
    BY <1>2, <1>4, <2>1, <2>2 DEF FreePacket, BufferType
  <2>3. CASE ~p.saved
    BY <1>2, <1>4, <2>1, <2>3 DEF FreePacket
  <2> QED BY <2>2, <2>3
<1>5. CASE ~Refuses(b, p)
  <2>1. PICK q : q = Marked(b, p)
    OBVIOUS
  <2>2. q \in StoredPacket /\ q.seq = p.seq
    BY <2>1 DEF Marked, StoredPacket, BufferType
  <2>3. c = InsertPacket(d, q)
    BY <1>1, <1>3, <1>5, <2>1 DEF StorePacket, Marked
  <2>4. PICK k : k = Cardinality(Earlier(b.list, p))
    OBVIOUS
  <2>5. b.list \in Seq(StoredPacket)
    BY DEF BufferType
  <2>6. k \in 0..Len(b.list)
    BY <2>4, <2>5, EarlierCount
  <2>7. DOMAIN b.list = 1..Len(b.list)
    BY <2>5
  <2>8. {i \in DOMAIN d.list : SeqLT(d.list[i].seq, q.seq)} = Earlier(b.list, p)
    BY <1>2, <2>2, <2>7 DEF Earlier
  <2>9. c = [d EXCEPT !.list = InsertAt(b.list, k + 1, q)]
    BY <1>2, <2>3, <2>4, <2>8 DEF InsertPacket
  <2>10. Inserted(b.list, InsertAt(b.list, k + 1, q), k, q)
    BY <2>2, <2>5, <2>6, InsertAtInserts
  <2>11. InsertAt(b.list, k + 1, q) \in Seq(StoredPacket)
    BY <2>10 DEF Inserted
  <2>12. /\ c \in BufferType /\ c.seen = d.seen /\ c.expected = d.expected /\ c.saved = d.saved
         /\ c.list = InsertAt(b.list, k + 1, q)
    BY <1>2, <2>9, <2>11 DEF BufferType
  <2> QED BY <1>2, <1>5, <2>1, <2>4, <2>10, <2>12
<1> QED BY <1>4, <1>5

(* fSavedPacket is in one place. *)
LEMMA StoreSaved ==
  ASSUME NEW b \in BufferType, NEW p \in StoredPacket, NEW c, c = StorePacket(b, p),
         SavedOnce(b.list, b.saved, p.saved)
  PROVE  SavedOnce(c.list, c.saved, FALSE)
<1>1. CASE Refuses(b, p)
  <2>1. c.list = b.list
    BY <1>1, StoreFields
  <2>2. CASE p.saved
    <3>1. c.saved = "free"
      BY <1>1, <2>2, StoreFields
    <3> QED BY <2>1, <2>2, <3>1 DEF SavedOnce
  <2>3. CASE ~p.saved
    <3>1. c.saved = b.saved
      BY <1>1, <2>3, StoreFields
    <3> QED BY <2>1, <2>3, <3>1 DEF SavedOnce
  <2> QED BY <2>2, <2>3
<1>2. CASE ~Refuses(b, p)
  <2>1. PICK q : q = Marked(b, p)
    OBVIOUS
  <2>2. q \in StoredPacket /\ q.saved = p.saved
    BY <2>1 DEF Marked, StoredPacket, BufferType
  <2>3. PICK k : k = Cardinality(Earlier(b.list, p))
    OBVIOUS
  <2>4. b.list \in Seq(StoredPacket) /\ k \in 0..Len(b.list)
    BY <2>3, EarlierCount DEF BufferType
  <2>5. PICK t : t = c.list
    OBVIOUS
  <2>6. c.saved = b.saved /\ Inserted(b.list, t, k, q)
    BY <1>2, <2>1, <2>3, <2>5, StoreFields
  <2>7. InPlaces(b.list, t, k, q)
    BY <2>2, <2>4, <2>6, InsertedPlaces
  <2>8. Len(t) \in Nat /\ k \in Nat
    BY <2>4, <2>6 DEF Inserted
  <2>9. ASSUME NEW i \in 1..Len(t), NEW j \in 1..Len(t), t[i].saved, t[j].saved
        PROVE  i = j
    <3>1. CASE i = k + 1 \/ j = k + 1
      BY <2>2, <2>7, <2>9, <3>1 DEF SavedOnce, InPlaces
    <3>2. CASE i # k + 1 /\ j # k + 1
      <4>1. PICK a \in 1..Len(b.list) : t[i] = b.list[a] /\ a = IF i <= k THEN i ELSE i - 1
        BY <2>7, <3>2 DEF InPlaces
      <4>2. PICK e \in 1..Len(b.list) : t[j] = b.list[e] /\ e = IF j <= k THEN j ELSE j - 1
        BY <2>7, <3>2 DEF InPlaces
      <4>3. a = e
        BY <2>9, <4>1, <4>2 DEF SavedOnce
      <4> QED BY ONLY <2>8, <3>2, <4>1, <4>2, <4>3, i \in 1..Len(t), j \in 1..Len(t)
    <3> QED BY <3>1, <3>2
  <2>10. (b.saved = "used") <=> \E i \in 1..Len(t) : t[i].saved
    <3>1. (\E i \in 1..Len(t) : t[i].saved) <=> (q.saved \/ \E i \in 1..Len(b.list) : b.list[i].saved)
      BY <2>7 DEF InPlaces
    <3> QED BY <2>2, <3>1 DEF SavedOnce
  <2> QED BY <2>5, <2>6, <2>9, <2>10 DEF SavedOnce
<1> QED BY <1>1, <1>2

LEMMA LeastNatural ==
  ASSUME NEW T \in SUBSET Nat, T # {}
  PROVE  \E m \in T : \A n \in T : m <= n
<1> DEFINE R == {p \in Nat \X Nat : p[1] < p[2]}
<1>1. IsWellFoundedOn(R, Nat)
  <2>1. R = OpToRel(<, Nat)
    BY DEF OpToRel
  <2> QED BY <2>1, NatLessThanWellFounded
<1>2. PICK m \in T : \A n \in T : ~(<<n, m>> \in R)
  <2> HIDE DEF R
  <2> QED BY <1>1, WFMin
<1>3. ASSUME NEW n \in T
      PROVE  m <= n
  <2>1. n \in Nat /\ m \in Nat /\ (n < m => <<n, m>> \in R)
    OBVIOUS
  <2> HIDE DEF R
  <2> QED BY <1>2, <2>1
<1> QED BY <1>3

(* In a list in order, the packets before p are the first ones. *)
LEMMA EarlierAreFirst ==
  ASSUME NEW list \in Seq(StoredPacket), NEW p \in StoredPacket,
         \A i, j \in 1..Len(list) : i < j => list[i].n < list[j].n,
         \A i \in 1..Len(list) : SeqLT(list[i].seq, p.seq) <=> list[i].n < p.n
  PROVE  \A i \in 1..Len(list) : i <= Cardinality(Earlier(list, p)) <=> list[i].n < p.n
<1>1. PICK n : n = Len(list)
  OBVIOUS
<1>2. n \in Nat
  BY <1>1
<1>3. PICK E : E = Earlier(list, p)
  OBVIOUS
<1>4. \A i : i \in E <=> i \in 1..n /\ list[i].n < p.n
  BY <1>1, <1>3 DEF Earlier
<1>5. \A i \in 1..n : list[i].n \in Int
  BY <1>1, PacketFields, EntryPacket
<1>6. p.n \in Int
  BY PacketFields
<1>7. PICK T : T = {j \in 1..(n + 1) : j \notin E}
  OBVIOUS
<1>8. T \in SUBSET Nat /\ T # {}
  <2>1. n + 1 \in T
    BY <1>2, <1>4, <1>7
  <2>2. T \subseteq Nat
    BY <1>2, <1>7
  <2> QED BY <2>1, <2>2
<1>9. PICK m \in T : \A j \in T : m <= j
  BY <1>8, LeastNatural
<1>10. m \in 1..(n + 1) /\ m \notin E
  BY <1>7
<1>11. ASSUME NEW i \in 1..n
       PROVE  i \in E <=> i <= m - 1
  <2>1. CASE i < m
    <3>1. ~(m <= i) /\ i \in 1..(n + 1) /\ i <= m - 1
      BY ONLY <1>2, <1>10, <2>1, i \in 1..n
    <3> QED BY <1>7, <1>9, <3>1
  <2>2. CASE i = m
    <3>1. ~(i <= m - 1)
      BY ONLY <1>2, <1>10, <2>2
    <3> QED BY <1>10, <2>2, <3>1
  <2>3. CASE i > m
    <3>1. m \in 1..n /\ ~(i <= m - 1)
      BY ONLY <1>2, <1>10, <2>3, i \in 1..n
    <3>2. ~(list[m].n < p.n)
      BY <1>4, <1>10, <3>1
    <3>3. list[m].n < list[i].n
      BY <1>1, <1>11, <2>3, <3>1
    <3>4. ~(list[i].n < p.n)
      BY ONLY <1>5, <1>6, <3>1, <3>2, <3>3, i \in 1..n
    <3> QED BY <1>4, <3>1, <3>4
  <2> QED BY ONLY <1>2, <1>10, <2>1, <2>2, <2>3, i \in 1..n
<1>12. E = 1..(m - 1)
  <2>1. \A i : i \in E => i \in 1..n
    BY <1>4
  <2>2. \A i \in 1..(m - 1) : i \in 1..n /\ i <= m - 1
    BY ONLY <1>2, <1>10
  <2>3. \A i \in 1..n : i <= m - 1 <=> i \in 1..(m - 1)
    BY ONLY <1>2, <1>10
  <2> QED BY ONLY <1>11, <2>1, <2>2, <2>3
<1>13. Cardinality(E) = m - 1
  <2>1. Cardinality(1..(m - 1)) = IF 1 <= m - 1 THEN (m - 1) - 1 + 1 ELSE 0
    BY <1>2, <1>10, FS_Interval
  <2>2. (IF 1 <= m - 1 THEN (m - 1) - 1 + 1 ELSE 0) = m - 1
    BY ONLY <1>2, <1>10
  <2> QED BY ONLY <1>12, <2>1, <2>2
<1> QED BY <1>1, <1>3, <1>4, <1>11, <1>13

LEMMA InsertedInOrder ==
  ASSUME NEW list \in Seq(StoredPacket), NEW k \in 0..Len(list), NEW q \in StoredPacket,
         NEW t, Inserted(list, t, k, q),
         \A i, j \in 1..Len(list) : i < j => list[i].n < list[j].n,
         \A i \in 1..Len(list) : (i <= k <=> list[i].n < q.n) /\ list[i].n # q.n
  PROVE  \A i, j \in 1..Len(t) : i < j => t[i].n < t[j].n
<1>1. InPlaces(list, t, k, q)
  BY InsertedPlaces
<1>2. Len(list) \in Nat /\ Len(t) \in Nat /\ k \in Nat
  BY DEF Inserted
<1>3. q.n \in Int /\ \A i \in 1..Len(list) : list[i].n \in Int
  BY PacketFields, EntryPacket
<1>4. ASSUME NEW i \in 1..Len(t), NEW j \in 1..Len(t), i < j
      PROVE  t[i].n < t[j].n
  <2>1. CASE i = k + 1
    <3>1. j # k + 1
      BY ONLY <1>2, <1>4, <2>1, j \in 1..Len(t)
    <3>2. PICK e \in 1..Len(list) : t[j] = list[e] /\ e = IF j <= k THEN j ELSE j - 1
      BY <1>1, <3>1 DEF InPlaces
    <3>3. ~(e <= k)
      BY ONLY <1>2, <1>4, <2>1, <3>2, j \in 1..Len(t)
    <3>4. ~(list[e].n < q.n) /\ list[e].n # q.n
      BY <3>3
    <3>5. q.n < list[e].n
      BY ONLY <1>3, <3>4, e \in 1..Len(list)
    <3>6. t[i] = q
      BY <1>1, <2>1 DEF InPlaces
    <3> QED BY ONLY <3>2, <3>5, <3>6
  <2>2. CASE j = k + 1
    <3>1. i # k + 1
      BY ONLY <1>2, <1>4, <2>2, i \in 1..Len(t)
    <3>2. PICK a \in 1..Len(list) : t[i] = list[a] /\ a = IF i <= k THEN i ELSE i - 1
      BY <1>1, <3>1 DEF InPlaces
    <3>3. a <= k
      BY ONLY <1>2, <1>4, <2>2, <3>2, i \in 1..Len(t)
    <3>4. list[a].n < q.n
      BY <3>3
    <3>5. t[j] = q
      BY <1>1, <2>2 DEF InPlaces
    <3> QED BY ONLY <3>2, <3>4, <3>5
  <2>3. CASE i # k + 1 /\ j # k + 1
    <3>1. PICK a \in 1..Len(list) : t[i] = list[a] /\ a = IF i <= k THEN i ELSE i - 1
      BY <1>1, <2>3 DEF InPlaces
    <3>2. PICK e \in 1..Len(list) : t[j] = list[e] /\ e = IF j <= k THEN j ELSE j - 1
      BY <1>1, <2>3 DEF InPlaces
    <3>3. a < e
      BY ONLY <1>2, <1>4, <2>3, <3>1, <3>2, i \in 1..Len(t), j \in 1..Len(t)
    <3> QED BY <3>1, <3>2, <3>3
  <2> QED BY <2>1, <2>2, <2>3
<1> QED BY <1>4

(* The packets that were sent before last, or p. *)
Reach(last, p) == IF p.n < last THEN last ELSE p.n + 1

(* A packet that is stored goes to its place, and not before a head that is
   expected. *)
LEMMA StorePlaced ==
  ASSUME NEW b \in BufferType, NEW p \in StoredPacket, NEW c, c = StorePacket(b, p),
         b.seen, p.uses = 0, NEW base \in 0..SeqModulus - 1, NEW x, NEW last,
         Placed(b.list, b.expected, base, x, last), p.seq = Number(base, p.n)
  PROVE  /\ Placed(c.list, c.expected, base, x, Reach(last, p))
         /\ b.list # <<>> /\ Head(b.list).n = x => c.list # <<>> /\ Head(c.list) = Head(b.list)
<1>1. PICK list : list = b.list
  OBVIOUS
<1>2. list \in Seq(StoredPacket) /\ Len(list) \in Nat
  BY <1>1 DEF BufferType
<1>3. MaxPackets \in Nat /\ p.n \in 1..MaxPackets
  BY PacketFields, Sizes
<1>4. /\ x \in 1..last /\ last \in 1..(MaxPackets + 1) /\ b.expected = Number(base, x)
      /\ \A i \in 1..Len(list) :
           /\ x <= list[i].n /\ list[i].n < last
           /\ list[i].seq = Number(base, list[i].n)
           /\ list[i].uses = 1 \/ list[i].first => list[i].n = x
      /\ \A i, j \in 1..Len(list) : i < j => list[i].n < list[j].n
  BY <1>1 DEF Placed
<1>5. PICK new : new = Reach(last, p)
  OBVIOUS
<1>6. new \in 1..(MaxPackets + 1) /\ x \in 1..new /\ last <= new /\ p.n < new
  <2>1. new = IF p.n < last THEN last ELSE p.n + 1
    BY <1>5 DEF Reach
  <2> QED BY ONLY <1>3, <1>4, <2>1
<1>7. \A i \in 1..Len(list) : list[i].n \in 1..MaxPackets
  BY <1>2, PacketFields, EntryPacket
<1>8. x \in 1..(MaxPackets + 1) /\ p.n \in 1..(MaxPackets + 1)
      /\ \A i \in 1..Len(list) : list[i].n \in 1..(MaxPackets + 1)
  BY ONLY <1>3, <1>4, <1>7
<1>9. c.expected = Number(base, x)
  <2>1. c.expected = b.expected
    BY StoreFields
  <2> QED BY <1>4, <2>1
<1>10. CASE Refuses(b, p)
  <2>1. c.list = list
    BY <1>1, <1>10, StoreFields
  <2>2. \A i \in 1..Len(list) : x <= list[i].n /\ list[i].n < new
    BY ONLY <1>3, <1>4, <1>6, <1>7
  <2> QED BY <1>1, <1>4, <1>5, <1>6, <1>9, <2>1, <2>2 DEF Placed
<1>11. CASE ~Refuses(b, p)
  <2>1. PICK q : q = Marked(b, p)
    OBVIOUS
  <2>2. q \in StoredPacket /\ q.n = p.n /\ q.seq = p.seq /\ q.uses = 0 /\ q.first = FALSE
    BY <2>1 DEF Marked, StoredPacket, BufferType
  <2>3. PICK k : k = Cardinality(Earlier(list, p))
    OBVIOUS
  <2>4. k \in 0..Len(list)
    BY <1>2, <2>3, EarlierCount
  <2>5. PICK t : t = c.list
    OBVIOUS
  <2>6. Inserted(list, t, k, q)
    BY <1>1, <1>11, <2>1, <2>3, <2>5, StoreFields
  <2>7. InPlaces(list, t, k, q)
    BY <1>2, <2>2, <2>4, <2>6, InsertedPlaces
  <2>8. x <= p.n
    <3>1. ~SeqLT(p.seq, b.expected)
      BY <1>11 DEF Refuses, IsLate, NoteFirst
    <3>2. ~(p.n < x)
      BY <1>4, <1>8, <3>1, SeqLTIsLess
    <3> QED BY ONLY <1>3, <1>4, <3>2
  <2>9. \A i \in 1..Len(list) : SeqLT(list[i].seq, p.seq) <=> list[i].n < p.n
    BY <1>4, <1>8, SeqLTIsLess
  <2>10. \A i \in 1..Len(list) : list[i].n # p.n
    <3>1. \A i \in 1..Len(list) : list[i].seq # p.seq
      BY <1>1, <1>2, <1>11 DEF Refuses, IsDuplicate
    <3> QED BY <1>4, <1>8, <3>1, NumberSame
  <2>11. \A i \in 1..Len(list) : i <= k <=> list[i].n < p.n
    BY <1>2, <1>4, <2>3, <2>9, EarlierAreFirst
  <2>12. \A i, j \in 1..Len(t) : i < j => t[i].n < t[j].n
    BY <1>2, <1>4, <2>2, <2>4, <2>6, <2>10, <2>11, InsertedInOrder
  <2>13. ASSUME NEW i \in 1..Len(t)
         PROVE  /\ x <= t[i].n /\ t[i].n < new
                /\ t[i].seq = Number(base, t[i].n)
                /\ t[i].uses = 1 \/ t[i].first => t[i].n = x
    <3>1. CASE i = k + 1
      <4>1. t[i] = q
        BY <2>7, <3>1 DEF InPlaces
      <4> QED BY <1>6, <2>2, <2>8, <4>1
    <3>2. CASE i # k + 1
      <4>1. PICK a \in 1..Len(list) : t[i] = list[a]
        BY <2>7, <3>2 DEF InPlaces
      <4>2. list[a].n < new
        BY ONLY <1>3, <1>4, <1>6, <1>7, a \in 1..Len(list)
      <4> QED BY <1>4, <4>1, <4>2
    <3> QED BY <3>1, <3>2
  <2>14. Placed(c.list, c.expected, base, x, new)
    BY <1>6, <1>9, <2>5, <2>12, <2>13 DEF Placed
  <2>15. ASSUME list # <<>>, Head(list).n = x
         PROVE  c.list # <<>> /\ Head(c.list) = Head(list)
    <3>1. 1 \in 1..Len(list) /\ Head(list) = list[1]
      BY <1>2, <2>15
    <3>2. list[1].n < p.n
      <4>1. list[1].n # p.n /\ list[1].n = x
        BY <2>10, <2>15, <3>1
      <4> QED BY ONLY <1>3, <1>4, <2>8, <4>1
    <3>3. 1 <= k
      BY <2>11, <3>1, <3>2
    <3>4. t \in Seq(StoredPacket) /\ Len(t) = Len(list) + 1 /\ t[1] = list[1]
      <4>1. 1 \in 1..(Len(list) + 1)
        BY <1>2
      <4>2. t[1] = IF 1 <= k THEN list[1] ELSE IF 1 = k + 1 THEN q ELSE list[1 - 1]
        BY <2>6, <4>1 DEF Inserted
      <4> QED BY <2>6, <3>3, <4>2 DEF Inserted
    <3> QED BY <1>2, <2>5, <3>1, <3>4
  <2> QED BY <1>1, <1>5, <2>14, <2>15
<1> QED BY <1>10, <1>11

LEMMA StoreUsable ==
  ASSUME NEW b \in BufferType, NEW p \in StoredPacket, NEW c, c = StorePacket(b, p),
         p.uses = 0, Usable(b.list)
  PROVE  Usable(c.list)
<1>1. CASE Refuses(b, p)
  <2>1. c.list = b.list
    BY <1>1, StoreFields
  <2> QED BY <2>1 DEF Usable
<1>2. CASE ~Refuses(b, p)
  <2>1. PICK q : q = Marked(b, p)
    OBVIOUS
  <2>2. q \in StoredPacket /\ q.uses = 0
    BY <2>1 DEF Marked, StoredPacket, BufferType
  <2>3. PICK k, t : k = Cardinality(Earlier(b.list, p)) /\ t = c.list
    OBVIOUS
  <2>4. b.list \in Seq(StoredPacket) /\ k \in 0..Len(b.list)
    BY <2>3, EarlierCount DEF BufferType
  <2>5. Inserted(b.list, t, k, q)
    BY <1>2, <2>1, <2>3, StoreFields
  <2>6. InPlaces(b.list, t, k, q)
    BY <2>2, <2>4, <2>5, InsertedPlaces
  <2>7. ASSUME NEW i \in 1..Len(t)
        PROVE  t[i].uses < FramesIn(t[i].n)
    <3>1. CASE i = k + 1
      BY <2>2, <2>6, <3>1 DEF InPlaces, FramesIn
    <3>2. CASE i # k + 1
      BY <2>6, <3>2 DEF InPlaces, Usable
    <3> QED BY <3>1, <3>2
  <2> QED BY <2>3, <2>7 DEF Usable
<1> QED BY <1>1, <1>2

(* The first packet of a stream is where the stream begins. *)
LEMMA StoreFirst ==
  ASSUME NEW b \in BufferType, NEW p \in StoredPacket, NEW c, c = StorePacket(b, p),
         ~b.seen, b.list = <<>>, p.uses = 0, NEW base \in 0..SeqModulus - 1,
         p.seq = Number(base, p.n)
  PROVE  /\ Placed(c.list, c.expected, base, p.n, p.n + 1)
         /\ Begins(c.list, p.n)
<1>1. p.n \in 1..MaxPackets /\ p.seq \in Int /\ MaxPackets \in Nat /\ SeqModulus \div 2 \in Nat
  BY PacketFields, Sizes
<1>2. Len(b.list) = 0 /\ b.list \in Seq(StoredPacket)
  BY DEF BufferType
<1>3. ~Refuses(b, p)
  <2>1. NoteFirst(b, p) = [b EXCEPT !.expected = p.seq, !.seen = TRUE]
    BY DEF NoteFirst
  <2>2. NoteFirst(b, p).expected = p.seq
    BY <2>1 DEF BufferType
  <2>3. ~SeqLT(p.seq, p.seq)
    BY <1>1 DEF SeqLT
  <2>4. ~IsDuplicate(b, p)
    BY DEF IsDuplicate
  <2> QED BY <2>2, <2>3, <2>4 DEF Refuses, IsLate
<1>4. PICK q, k, t : q = Marked(b, p) /\ k = Cardinality(Earlier(b.list, p)) /\ t = c.list
  OBVIOUS
<1>5. q \in StoredPacket /\ q.n = p.n /\ q.seq = p.seq /\ q.first
  BY <1>4 DEF Marked, StoredPacket, BufferType
<1>6. k = 0
  <2>1. k \in 0..Len(b.list)
    BY <1>2, <1>4, EarlierCount
  <2> QED BY ONLY <1>2, <2>1
<1>7. Inserted(b.list, t, k, q)
  <2>1. Inserted(b.list, c.list, Cardinality(Earlier(b.list, p)), Marked(b, p))
    BY <1>3, StoreFields
  <2> QED BY <1>4, <2>1
<1>8. t \in Seq(StoredPacket) /\ Len(t) = 1 /\ t[1] = q
  <2>1. t \in Seq(StoredPacket) /\ Len(t) = Len(b.list) + 1
    BY <1>7 DEF Inserted
  <2>2. InPlaces(b.list, t, k, q)
    <3>1. k \in 0..Len(b.list)
      BY <1>2, <1>6
    <3> QED BY <1>2, <1>5, <1>7, <3>1, InsertedPlaces
  <2> QED BY <1>2, <1>6, <2>1, <2>2 DEF InPlaces
<1>9. t # <<>> /\ Head(t) = q
  <2>1. t # <<>>
    BY ONLY <1>8, NotEmpty
  <2> QED BY <1>8, <2>1, HeadFields
<1>10. c.expected = p.seq
  BY StoreFields
<1>11. p.n \in 1..(p.n + 1) /\ p.n + 1 \in 1..(MaxPackets + 1) /\ p.n <= p.n /\ p.n < p.n + 1
  BY ONLY <1>1
<1>12. \A i \in 1..Len(t) : i = 1
  BY <1>8
<1>13. Placed(t, p.seq, base, p.n, p.n + 1)
  BY <1>5, <1>8, <1>11, <1>12 DEF Placed
<1> QED BY <1>4, <1>5, <1>9, <1>10, <1>13 DEF Begins

-----------------------------------------------------------------------------
(* A packet is used.                                                       *)

(* What fSavedPacket is when a packet has been freed. *)
AfterFree(saved, p) == IF p.saved THEN "free" ELSE saved

LEMMA ReleaseFields ==
  ASSUME NEW b \in BufferType, b.list # <<>>, NEW c, c = ReleaseUsedPacket(GiveUpEarlier(b))
  PROVE  /\ c \in BufferType /\ c.seen = b.seen /\ c.list = Tail(b.list)
         /\ c.expected = (Head(b.list).seq + 1) % SeqModulus
         /\ c.saved = AfterFree(b.saved, Head(b.list))
<1>1. b.list \in Seq(StoredPacket)
  BY DEF BufferType
<1>2. PICK p : p = Head(b.list)
  OBVIOUS
<1>3. p \in StoredPacket /\ Tail(b.list) \in Seq(StoredPacket)
  BY <1>1, <1>2, HeadFields
<1>4. PICK d : d = GiveUpEarlier(b)
  OBVIOUS
<1>5. d = [b EXCEPT !.expected = p.seq]
  BY <1>2, <1>4 DEF GiveUpEarlier
<1>6. d.list = b.list /\ d.expected = p.seq /\ d.seen = b.seen /\ d.saved = b.saved /\ d \in BufferType
  BY <1>3, <1>5, PacketFields DEF BufferType
<1>7. PICK e : e = [d EXCEPT !.expected = (@ + 1) % SeqModulus, !.list = Tail(@)]
  OBVIOUS
<1>8. (p.seq + 1) % SeqModulus \in 0..SeqModulus - 1
  BY <1>3, PacketFields, Sizes
<1>9. /\ e.list = Tail(b.list) /\ e.expected = (p.seq + 1) % SeqModulus /\ e.seen = b.seen
      /\ e.saved = b.saved /\ e \in BufferType
  BY <1>3, <1>6, <1>7, <1>8 DEF BufferType
<1>10. c = FreePacket(e, p)
  BY <1>2, <1>4, <1>6, <1>7 DEF ReleaseUsedPacket
<1>11. CASE p.saved
  BY <1>2, <1>9, <1>10, <1>11 DEF FreePacket, AfterFree, BufferType
<1>12. CASE ~p.saved
  BY <1>2, <1>9, <1>10, <1>12 DEF FreePacket, AfterFree
<1> QED BY <1>11, <1>12

LEMMA ReleaseSaved ==
  ASSUME NEW list \in Seq(StoredPacket), list # <<>>, NEW saved, NEW hand \in BOOLEAN,
         SavedOnce(list, saved, hand)
  PROVE  SavedOnce(Tail(list), AfterFree(saved, Head(list)), hand)
<1>1. PICK t, p : t = Tail(list) /\ p = Head(list)
  OBVIOUS
<1>2. /\ p = list[1] /\ 1 \in 1..Len(list) /\ t \in Seq(StoredPacket) /\ Len(t) = Len(list) - 1
      /\ \A i \in 1..Len(t) : t[i] = list[i + 1] /\ i + 1 \in 1..Len(list)
  BY <1>1, HeadFields
<1>3. Len(list) \in Nat /\ Len(t) \in Nat
  BY <1>2
<1>4. ASSUME NEW i \in 1..Len(t), NEW j \in 1..Len(t), t[i].saved, t[j].saved
      PROVE  i = j
  <2>1. i + 1 = j + 1
    BY <1>2, <1>4 DEF SavedOnce
  <2> QED BY ONLY <1>3, <2>1, i \in 1..Len(t), j \in 1..Len(t)
<1>5. ASSUME hand, NEW i \in 1..Len(t)
      PROVE  ~t[i].saved
  BY <1>2, <1>5 DEF SavedOnce
<1>6. CASE p.saved
  <2>1. AfterFree(saved, p) = "free"
    BY <1>6 DEF AfterFree
  <2>2. ~hand
    BY <1>2, <1>6 DEF SavedOnce
  <2>3. ASSUME NEW i \in 1..Len(t)
        PROVE  ~t[i].saved
    <3>1. i + 1 # 1
      BY ONLY <1>3, i \in 1..Len(t)
    <3> QED BY <1>2, <1>6, <3>1 DEF SavedOnce
  <2> QED BY <1>1, <1>4, <2>1, <2>2, <2>3 DEF SavedOnce
<1>7. CASE ~p.saved
  <2>1. AfterFree(saved, p) = saved
    BY <1>7 DEF AfterFree
  <2>2. ASSUME NEW i \in 1..Len(list), list[i].saved
        PROVE  \E j \in 1..Len(t) : t[j].saved
    <3>1. i # 1
      BY <1>2, <1>7, <2>2
    <3>2. i - 1 \in 1..Len(t) /\ (i - 1) + 1 = i
      BY ONLY <1>2, <1>3, <3>1, i \in 1..Len(list)
    <3> QED BY <1>2, <2>2, <3>2
  <2>3. (\E i \in 1..Len(list) : list[i].saved) <=> \E j \in 1..Len(t) : t[j].saved
    BY <1>2, <2>2
  <2> QED BY <1>1, <1>4, <1>5, <2>1, <2>3 DEF SavedOnce
<1> QED BY <1>6, <1>7

LEMMA ReleaseUsable ==
  ASSUME NEW list \in Seq(StoredPacket), list # <<>>, Usable(list)
  PROVE  Usable(Tail(list))
BY HeadFields DEF Usable

(* Where the head of the list is. *)
LEMMA HeadPlaced ==
  ASSUME NEW list \in Seq(StoredPacket), list # <<>>, NEW expected, NEW base, NEW x, NEW last,
         Placed(list, expected, base, x, last), NEW n, n = Head(list).n
  PROVE  /\ n \in 1..MaxPackets /\ x \in 1..n /\ n < last /\ last \in 1..(MaxPackets + 1)
         /\ n \in 1..last /\ n + 1 \in 1..last /\ x \in 1..(MaxPackets + 1)
         /\ Head(list).seq = Number(base, n)
         /\ Head(list).uses = 1 \/ Head(list).first => n = x
<1>1. Head(list) = list[1] /\ 1 \in 1..Len(list) /\ Head(list) \in StoredPacket
  BY HeadFields
<1>2. /\ x <= n /\ n < last /\ x \in 1..last /\ last \in 1..(MaxPackets + 1)
      /\ Head(list).seq = Number(base, n)
      /\ Head(list).uses = 1 \/ Head(list).first => n = x
  BY <1>1 DEF Placed
<1>3. MaxPackets \in Nat /\ n \in 1..MaxPackets
  BY <1>1, PacketFields, Sizes
<1>4. /\ x \in 1..n /\ n \in 1..last /\ n + 1 \in 1..last /\ x \in 1..(MaxPackets + 1)
  BY ONLY <1>2, <1>3
<1> QED BY <1>2, <1>3, <1>4

(* Behind the head the list goes on. *)
LEMMA ReleasePlaced ==
  ASSUME NEW list \in Seq(StoredPacket), list # <<>>, NEW expected,
         NEW base \in 0..SeqModulus - 1, NEW x, NEW last,
         Placed(list, expected, base, x, last), NEW n, n = Head(list).n
  PROVE  Placed(Tail(list), (Head(list).seq + 1) % SeqModulus, base, n + 1, last)
<1>1. PICK t : t = Tail(list)
  OBVIOUS
<1>2. /\ Head(list) = list[1] /\ 1 \in 1..Len(list)
      /\ Len(t) = Len(list) - 1 /\ Len(list) \in Nat
      /\ \A i \in 1..Len(t) : t[i] = list[i + 1] /\ i + 1 \in 1..Len(list)
  BY <1>1, HeadFields
<1>3. /\ n \in 1..MaxPackets /\ n + 1 \in 1..last /\ last \in 1..(MaxPackets + 1)
      /\ Head(list).seq = Number(base, n) /\ x \in 1..n
  BY HeadPlaced
<1>4. (Head(list).seq + 1) % SeqModulus = Number(base, n + 1)
  BY <1>3, NumberNext
<1>5. ASSUME NEW i \in 1..Len(t)
      PROVE  /\ n + 1 <= t[i].n /\ t[i].n < last
             /\ t[i].seq = Number(base, t[i].n)
             /\ t[i].uses = 1 \/ t[i].first => t[i].n = n + 1
  <2>1. PICK j \in 1..Len(list) : j = i + 1 /\ t[i] = list[j] /\ 1 < j
    <3>1. 1 < i + 1
      BY ONLY i \in 1..Len(t)
    <3> QED BY <1>2, <3>1
  <2>2. /\ list[1].n < list[j].n /\ list[j].n < last
        /\ list[j].seq = Number(base, list[j].n)
        /\ list[j].uses = 1 \/ list[j].first => list[j].n = x
    BY <1>2, <2>1 DEF Placed
  <2>3. list[j].n \in 1..MaxPackets /\ MaxPackets \in Nat /\ n = list[1].n
    BY <1>2, PacketFields, EntryPacket, Sizes
  <2>4. n + 1 <= list[j].n /\ list[j].n # x
    BY ONLY <1>3, <2>2, <2>3
  <2> QED BY <2>1, <2>2, <2>4
<1>6. ASSUME NEW i \in 1..Len(t), NEW j \in 1..Len(t), i < j
      PROVE  t[i].n < t[j].n
  <2>1. i + 1 < j + 1
    BY ONLY <1>6, i \in 1..Len(t), j \in 1..Len(t)
  <2> QED BY <1>2, <2>1 DEF Placed
<1> QED BY <1>1, <1>3, <1>4, <1>5, <1>6 DEF Placed

(* The head of a list has been used once more. *)
UsedOnce(list) == [list EXCEPT ![1].uses = @ + 1]

Wide == [n : 1..MaxPackets, seq : 0..SeqModulus - 1, first : BOOLEAN, uses : {0, 1, 2},
         saved : BOOLEAN]

LEMMA UsedOnceFields ==
  ASSUME NEW list \in Seq(StoredPacket), list # <<>>, NEW h, h = Head(list),
         NEW u, u = UsedOnce(list), NEW g, g = Head(u)
  PROVE  /\ u # <<>> /\ g = u[1] /\ Len(u) = Len(list)
         /\ g.n = h.n /\ g.seq = h.seq /\ g.first = h.first /\ g.saved = h.saved
         /\ g.uses = h.uses + 1
         /\ \A i \in 1..Len(list) : i # 1 => u[i] = list[i]
         /\ Tail(u) = Tail(list)
         /\ h.uses = 0 => u \in Seq(StoredPacket)
<1>1. /\ h = list[1] /\ 1 \in 1..Len(list) /\ h \in StoredPacket
      /\ Tail(list) \in Seq(StoredPacket) /\ Len(Tail(list)) = Len(list) - 1
      /\ \A i \in 1..Len(Tail(list)) : Tail(list)[i] = list[i + 1] /\ i + 1 \in 1..Len(list)
      /\ Len(list) \in Nat
  BY HeadFields
<1>2. PICK e : e = [h EXCEPT !.uses = @ + 1]
  OBVIOUS
<1>3. /\ e \in Wide /\ e.n = h.n /\ e.seq = h.seq /\ e.first = h.first /\ e.saved = h.saved
      /\ e.uses = h.uses + 1
      /\ h.uses = 0 => e \in StoredPacket
  BY <1>1, <1>2 DEF StoredPacket, Wide
<1>4. StoredPacket \subseteq Wide
  BY DEF StoredPacket, Wide
<1>5. list \in Seq(Wide)
  BY <1>4
<1>6. u = [list EXCEPT ![1] = e]
  BY <1>1, <1>2 DEF UsedOnce
<1>7. /\ u \in Seq(Wide) /\ Len(u) = Len(list)
      /\ \A i \in 1..Len(list) : u[i] = IF i = 1 THEN e ELSE list[i]
  BY <1>1, <1>3, <1>5, <1>6, ExceptSeq
<1>8. u # <<>>
  BY <1>1, <1>7, NotEmpty
<1>9. g = u[1]
  BY <1>7, <1>8
<1>10. u[1] = e /\ \A i \in 1..Len(list) : i # 1 => u[i] = list[i]
  BY <1>1, <1>7
<1>11. /\ Tail(u) \in Seq(Wide) /\ Len(Tail(u)) = Len(list) - 1
       /\ \A i \in 1..Len(Tail(u)) : Tail(u)[i] = u[i + 1]
  BY <1>7, <1>8, HeadTailProperties
<1>12. Tail(u) = Tail(list)
  <2>1. Tail(list) \in Seq(Wide)
    BY <1>1, <1>4
  <2>2. ASSUME NEW i \in 1..Len(Tail(u))
        PROVE  Tail(u)[i] = Tail(list)[i]
    <3>1. i + 1 # 1
      BY ONLY i \in 1..Len(Tail(u))
    <3> QED BY <1>1, <1>10, <1>11, <3>1
  <2> QED BY <1>1, <1>11, <2>1, <2>2, SeqEqual
<1>13. h.uses = 0 => u \in Seq(StoredPacket)
  BY <1>1, <1>3, <1>6, ExceptSeq
<1> QED BY <1>3, <1>7, <1>8, <1>9, <1>10, <1>12, <1>13

LEMMA UseFields ==
  ASSUME NEW b \in BufferType, b.list # <<>>, NEW h, h = Head(b.list),
         h.uses < FramesIn(h.n), NEW c, c = UsePacket(GiveUpEarlier(b))
  PROVE  /\ c \in BufferType /\ c.seen = b.seen
         /\ h.uses + 1 = FramesIn(h.n) =>
              /\ c.list = Tail(b.list) /\ c.expected = (h.seq + 1) % SeqModulus
              /\ c.saved = AfterFree(b.saved, h)
         /\ h.uses + 1 # FramesIn(h.n) =>
              /\ h.uses = 0 /\ h.n % 4 = 1
              /\ c.list = UsedOnce(b.list) /\ c.expected = h.seq /\ c.saved = b.saved
<1>1. b.list \in Seq(StoredPacket)
  BY DEF BufferType
<1>2. h \in StoredPacket /\ Tail(b.list) \in Seq(StoredPacket)
  BY <1>1, HeadFields
<1>3. PICK d : d = GiveUpEarlier(b)
  OBVIOUS
<1>4. d = [b EXCEPT !.expected = h.seq]
  BY <1>3 DEF GiveUpEarlier
<1>5. /\ d.list = b.list /\ d.expected = h.seq /\ d.seen = b.seen /\ d.saved = b.saved
      /\ d \in BufferType
  BY <1>2, <1>4, PacketFields DEF BufferType
<1>6. PICK u, e, g : u = UsedOnce(b.list) /\ e = [d EXCEPT !.list[1].uses = @ + 1] /\ g = Head(u)
  OBVIOUS
<1>7. /\ g.n = h.n /\ g.seq = h.seq /\ g.saved = h.saved /\ g.uses = h.uses + 1
      /\ Tail(u) = Tail(b.list)
      /\ h.uses = 0 => u \in Seq(StoredPacket)
  BY <1>1, <1>6, UsedOnceFields
<1>8. e = [d EXCEPT !.list = u]
  BY <1>5, <1>6 DEF UsedOnce
<1>9. e.list = u /\ e.expected = h.seq /\ e.seen = b.seen /\ e.saved = b.saved
  BY <1>5, <1>8 DEF BufferType
<1>10. c = IF g.uses = FramesIn(g.n) THEN ReleaseUsedPacket(e) ELSE e
  BY <1>3, <1>6, <1>9 DEF UsePacket
<1>11. CASE h.uses + 1 = FramesIn(h.n)
  <2>1. c = ReleaseUsedPacket(e)
    BY <1>7, <1>10, <1>11
  <2>2. PICK r : r = [e EXCEPT !.expected = (@ + 1) % SeqModulus, !.list = Tail(@)]
    OBVIOUS
  <2>3. (h.seq + 1) % SeqModulus \in 0..SeqModulus - 1
    BY <1>2, PacketFields, Sizes
  <2>4. r = [seen |-> b.seen, expected |-> (h.seq + 1) % SeqModulus, list |-> Tail(b.list),
             saved |-> b.saved]
    BY <1>5, <1>7, <1>8, <2>2 DEF BufferType
  <2>5. r \in BufferType
    BY <1>2, <2>3, <2>4 DEF BufferType
  <2>6. c = FreePacket(r, g)
    BY <1>6, <1>9, <2>1, <2>2 DEF ReleaseUsedPacket
  <2>7. CASE h.saved
    <3>1. c = [r EXCEPT !.saved = "free"]
      BY <1>7, <2>6, <2>7 DEF FreePacket
    <3>2. /\ c \in BufferType /\ c.seen = r.seen /\ c.list = r.list
          /\ c.expected = r.expected /\ c.saved = "free"
      BY <2>5, <3>1 DEF BufferType
    <3>3. r.seen = b.seen /\ r.list = Tail(b.list) /\ r.expected = (h.seq + 1) % SeqModulus
      BY <2>4
    <3> QED BY <1>11, <2>7, <3>2, <3>3 DEF AfterFree
  <2>8. CASE ~h.saved
    BY <1>7, <1>11, <2>4, <2>5, <2>6, <2>8 DEF FreePacket, AfterFree
  <2> QED BY <2>7, <2>8
<1>12. CASE h.uses + 1 # FramesIn(h.n)
  <2>1. c = e
    BY <1>7, <1>10, <1>12
  <2>2. h.uses = 0 /\ h.n % 4 = 1
    BY <1>2, <1>12, PacketFields DEF FramesIn
  <2>3. u \in Seq(StoredPacket)
    BY <1>7, <2>2
  <2>4. e \in BufferType
    BY <1>5, <1>8, <2>3 DEF BufferType
  <2> QED BY <1>6, <1>9, <1>12, <2>1, <2>2, <2>4
<1> QED BY <1>11, <1>12

LEMMA UsedPlaced ==
  ASSUME NEW list \in Seq(StoredPacket), list # <<>>, NEW h, h = Head(list), h.uses = 0,
         NEW expected, NEW base \in 0..SeqModulus - 1, NEW x, NEW last,
         Placed(list, expected, base, x, last)
  PROVE  Placed(UsedOnce(list), h.seq, base, h.n, last)
<1>1. PICK u, n : u = UsedOnce(list) /\ n = h.n
  OBVIOUS
<1>2. /\ h = list[1] /\ 1 \in 1..Len(list) /\ Len(list) \in Nat
  BY HeadFields
<1>3. /\ n \in 1..MaxPackets /\ n \in 1..last /\ last \in 1..(MaxPackets + 1) /\ n < last
      /\ h.seq = Number(base, n) /\ x \in 1..n
  BY <1>1, HeadPlaced
<1>4. /\ Len(u) = Len(list) /\ u[1].n = n /\ u[1].seq = h.seq
      /\ \A i \in 1..Len(list) : i # 1 => u[i] = list[i]
  BY <1>1, UsedOnceFields
<1>5. ASSUME NEW i \in 1..Len(list)
      PROVE  /\ n <= u[i].n /\ u[i].n < last
             /\ u[i].seq = Number(base, u[i].n)
             /\ u[i].uses = 1 \/ u[i].first => u[i].n = n
             /\ i # 1 => n < u[i].n
  <2>1. CASE i = 1
    BY <1>3, <1>4, <2>1
  <2>2. CASE i # 1
    <3>1. 1 < i /\ u[i] = list[i]
      BY <1>2, <1>4, <2>2
    <3>2. /\ n < list[i].n /\ list[i].n < last
          /\ list[i].seq = Number(base, list[i].n)
          /\ list[i].uses = 1 \/ list[i].first => list[i].n = x
      BY <1>1, <1>2, <3>1 DEF Placed
    <3>3. list[i].n \in 1..MaxPackets
      BY PacketFields, EntryPacket
    <3>4. n <= list[i].n /\ list[i].n # x
      BY ONLY <1>3, <3>2, <3>3
    <3> QED BY <3>1, <3>2, <3>4
  <2> QED BY <2>1, <2>2
<1>6. ASSUME NEW i \in 1..Len(list), NEW j \in 1..Len(list), i < j
      PROVE  u[i].n < u[j].n
  <2>1. j # 1
    BY ONLY <1>6, i \in 1..Len(list), j \in 1..Len(list)
  <2>2. CASE i = 1
    BY <1>4, <1>5, <2>1, <2>2
  <2>3. CASE i # 1
    BY <1>4, <1>6, <2>1, <2>3 DEF Placed
  <2> QED BY <2>2, <2>3
<1> QED BY <1>1, <1>3, <1>4, <1>5, <1>6 DEF Placed

LEMMA UsedKept ==
  ASSUME NEW list \in Seq(StoredPacket), list # <<>>, NEW h, h = Head(list), h.uses = 0,
         h.n % 4 = 1, Usable(list), NEW saved, NEW hand \in BOOLEAN, SavedOnce(list, saved, hand)
  PROVE  Usable(UsedOnce(list)) /\ SavedOnce(UsedOnce(list), saved, hand)
<1>1. PICK u : u = UsedOnce(list)
  OBVIOUS
<1>2. h = list[1] /\ 1 \in 1..Len(list) /\ h \in StoredPacket
  BY HeadFields
<1>3. /\ Len(u) = Len(list) /\ u[1].n = h.n /\ u[1].saved = h.saved /\ u[1].uses = h.uses + 1
      /\ \A i \in 1..Len(list) : i # 1 => u[i] = list[i]
  BY <1>1, UsedOnceFields
<1>4. \A i \in 1..Len(list) : u[i].saved = list[i].saved
  BY <1>2, <1>3
<1>5. SavedOnce(u, saved, hand)
  BY <1>3, <1>4 DEF SavedOnce
<1>6. ASSUME NEW i \in 1..Len(list)
      PROVE  u[i].uses < FramesIn(u[i].n)
  <2>1. CASE i = 1
    BY <1>3, <2>1 DEF FramesIn
  <2>2. CASE i # 1
    BY <1>3, <2>2 DEF Usable
  <2> QED BY <2>1, <2>2
<1> QED BY <1>1, <1>3, <1>5, <1>6 DEF Usable

-----------------------------------------------------------------------------
(* One turn of the loop.                                                   *)

(* What a turn leaves alone. *)
SameSource(s, t) == t.ssrc = s.ssrc /\ t.partly = s.partly /\ t.reading = s.reading
                    /\ t.buffer.seen = s.buffer.seen

(* What was given before, or came in part, stays behind. *)
LEMMA PassedOn ==
  ASSUME NEW list \in Seq(StoredPacket), NEW f \in Seq(Piece), f # <<>>,
         NEW x \in Int, Passed(f, list, x), NEW y \in Int, x < y, NEW t
  PROVE  Passed(f, t, y)
<1>1. f[1] \in Piece
  BY EmptySeq
<1>2. f[1][1] \in Int
  BY <1>1, Sizes DEF Piece
<1>3. f[1] = <<x, 1>> => f[1][1] = x
  OBVIOUS
<1>4. f[1][1] < x \/ f[1][1] = x
  BY <1>3 DEF Passed
<1>5. f[1][1] < y
  BY ONLY <1>2, <1>4, x \in Int, y \in Int, x < y
<1> QED BY <1>5 DEF Passed

LEMMA WholeIsNotEmpty ==
  ASSUME NEW f, IsWhole(f)
  PROVE  f # <<>>
<1>1. CASE \E n \in 1..MaxPackets, k \in {1, 2} : n % 4 = 1 /\ f = <<<<n, k>>>>
  BY <1>1
<1>2. CASE \E n \in 1..MaxPackets : n % 4 = 2 /\ f = <<<<n, 1>>, <<n + 1, 1>>, <<n + 2, 1>>>>
  BY <1>2
<1> QED BY <1>1, <1>2 DEF IsWhole

LEMMA DeliveredOn ==
  ASSUME NEW list \in Seq(StoredPacket), NEW frames \in Seq(Seq(Piece)),
         NEW x \in Int, Delivered(frames, list, x), NEW y \in Int, x < y, NEW t
  PROVE  Delivered(frames, t, y)
<1>1. frames # <<>> => Passed(frames[Len(frames)], t, y)
  <2>1. HAVE frames # <<>>
  <2>2. Len(frames) \in 1..Len(frames)
    BY <2>1, EmptySeq
  <2>3. PICK f : f = frames[Len(frames)]
    OBVIOUS
  <2>4. f \in Seq(Piece) /\ IsWhole(f) /\ Passed(f, list, x)
    BY <2>1, <2>2, <2>3 DEF Delivered
  <2>5. f # <<>>
    BY <2>4, WholeIsNotEmpty
  <2> QED BY <2>3, <2>4, <2>5, PassedOn
<1> QED BY <1>1 DEF Delivered

(* A turn that only moves on in the list, from head h of packet n. *)
LEMMA FollowedBehind ==
  ASSUME NEW s \in SourceType, NEW t \in SourceType, NEW frames \in Seq(Seq(Piece)),
         s.buffer.list # <<>>, NEW n, n = Head(s.buffer.list).n,
         NEW base \in 0..SeqModulus - 1, NEW x, NEW last, Followed(s, frames, base, x, last),
         t.buffer.list = Tail(s.buffer.list),
         t.buffer.expected = (Head(s.buffer.list).seq + 1) % SeqModulus,
         ~t.afterGetting, InSync(t, frames, n + 1)
  PROVE  n + 1 \in 1..last /\ Followed(t, frames, base, n + 1, last)
<1>1. PICK list : list = s.buffer.list
  OBVIOUS
<1>2. list \in Seq(StoredPacket)
  BY <1>1 DEF SourceType, BufferType
<1>3. Placed(list, s.buffer.expected, base, x, last)
  BY <1>1 DEF Followed
<1>4. n \in 1..MaxPackets /\ x \in 1..n /\ n + 1 \in 1..last
  BY <1>1, <1>2, <1>3, HeadPlaced
<1>5. Placed(t.buffer.list, t.buffer.expected, base, n + 1, last)
  BY <1>1, <1>2, <1>3, ReleasePlaced
<1>6. MaxPackets \in Nat
  BY Sizes
<1>7. x \in Int /\ n + 1 \in Int /\ x < n + 1
  BY ONLY <1>4, <1>6
<1>8. Delivered(frames, t.buffer.list, n + 1)
  BY <1>1, <1>2, <1>7, DeliveredOn DEF Followed
<1>9. OnItsWay(t, frames, n + 1)
  BY DEF OnItsWay
<1> QED BY <1>4, <1>5, <1>8, <1>9 DEF Followed

(* The code has lost nothing that it does not know of: the head is packet x,
   and something was received before it. *)
LEMMA HeadExpected ==
  ASSUME NEW b \in BufferType, b.list # <<>>, NEW base \in 0..SeqModulus - 1, NEW x, NEW last,
         Placed(b.list, b.expected, base, x, last), ~LossPreceded(b)
  PROVE  Head(b.list).n = x /\ ~Head(b.list).first /\ ~Begins(b.list, x)
<1>1. b.list \in Seq(StoredPacket)
  BY DEF BufferType
<1>2. Head(b.list).seq = b.expected /\ ~Head(b.list).first
  BY DEF LossPreceded
<1>3. /\ Head(b.list).n \in 1..MaxPackets /\ x \in 1..(MaxPackets + 1)
      /\ Head(b.list).seq = Number(base, Head(b.list).n)
  BY <1>1, HeadPlaced
<1>4. b.expected = Number(base, x)
  BY DEF Placed
<1>5. Head(b.list).n \in 1..(MaxPackets + 1)
  BY <1>3, Sizes
<1>6. Head(b.list).n = x
  BY <1>2, <1>3, <1>4, <1>5, NumberSame
<1> QED BY <1>2, <1>6 DEF Begins

Refused(w, c) == [w EXCEPT !.src.buffer = c, !.doubt = @ \/ HidesLoss(w.src.buffer)]

LEMMA HeaderFields ==
  ASSUME NEW w \in WorldType, NEW c \in BufferType, NEW v, v = Refused(w, c)
  PROVE  /\ v \in WorldType /\ v.given = w.given /\ v.src \in SourceType
         /\ w.doubt => v.doubt
         /\ HidesLoss(w.src.buffer) => v.doubt
         /\ v.src = [w.src EXCEPT !.buffer = c]
<1>1. PICK l \in BOOLEAN : l <=> HidesLoss(w.src.buffer)
  OBVIOUS
<1>2. w.doubt \in BOOLEAN /\ w.src \in SourceType
  BY DEF WorldType
<1>3. PICK d \in BOOLEAN : d <=> w.doubt \/ l
  BY <1>2
<1>4. v = [w EXCEPT !.src.buffer = c, !.doubt = d]
  BY <1>1, <1>2, <1>3 DEF Refused
<1>5. v.src = [w.src EXCEPT !.buffer = c] /\ v.given = w.given /\ v.doubt = d
  BY <1>4 DEF WorldType
<1>6. v.src \in SourceType
  BY <1>2, <1>5 DEF SourceType
<1>7. v \in WorldType
  BY <1>4, <1>5, <1>6 DEF WorldType
<1> QED BY <1>1, <1>2, <1>3, <1>5, <1>6, <1>7

LEMMA SourceFields ==
  ASSUME NEW s \in SourceType, NEW c, NEW t, t = [s EXCEPT !.buffer = c]
  PROVE  /\ t.buffer = c /\ t.reading = s.reading /\ t.awaiting = s.awaiting
         /\ t.need = s.need /\ t.afterGetting = s.afterGetting
         /\ t.lossInFrame = s.lossInFrame /\ t.frame = s.frame /\ t.partly = s.partly
         /\ t.ssrc = s.ssrc
BY DEF SourceType

(* Packets that are given up keep the rest of LoopGood: what Followed says of
   the source as it is then is enough. *)
LEMMA TurnBehind ==
  ASSUME NEW w, NEW v, NEW hand \in BOOLEAN, NEW base \in 0..SeqModulus - 1, NEW last,
         LoopGood(w, hand, base, last), w.src.need, w.src.buffer.list # <<>>,
         NEW c, c = ReleaseUsedPacket(GiveUpEarlier(w.src.buffer)),
         v \in WorldType, v.given = w.given, v.src.buffer = c,
         v.src.need, v.src.awaiting = w.src.awaiting, v.src.afterGetting = w.src.afterGetting,
         ~v.doubt => ~w.doubt,
         NEW n, n = Head(w.src.buffer.list).n,
         \A x \in 1..last : ~v.doubt /\ Followed(w.src, w.given, base, x, last) =>
                             InSync(v.src, v.given, n + 1)
  PROVE  LoopGood(v, hand, base, last)
<1>1. PICK b : b = w.src.buffer
  OBVIOUS
<1>2. /\ w \in WorldType /\ w.src \in SourceType /\ b \in BufferType /\ b.list \in Seq(StoredPacket)
      /\ v.src \in SourceType /\ w.given \in Seq(Seq(Piece))
  BY <1>1 DEF LoopGood, WorldType, SourceType, BufferType
<1>3. /\ Usable(b.list) /\ SavedOnce(b.list, b.saved, hand)
      /\ w.src.awaiting <=> w.src.need \/ w.src.afterGetting
      /\ ~(w.src.need /\ w.src.afterGetting)
      /\ b.seen
  BY <1>1 DEF LoopGood
<1>4. /\ c.seen = b.seen /\ c.list = Tail(b.list)
      /\ c.expected = (Head(b.list).seq + 1) % SeqModulus
      /\ c.saved = AfterFree(b.saved, Head(b.list))
  BY <1>1, <1>2, ReleaseFields
<1>5. Usable(c.list)
  BY <1>1, <1>2, <1>3, <1>4, ReleaseUsable
<1>6. SavedOnce(c.list, c.saved, hand)
  BY <1>1, <1>2, <1>3, <1>4, ReleaseSaved
<1>7. ASSUME ~v.doubt
      PROVE  \E x \in 1..last : Followed(v.src, v.given, base, x, last)
  <2>1. PICK x \in 1..last : Followed(w.src, w.given, base, x, last)
    BY <1>1, <1>3, <1>7 DEF LoopGood
  <2>2. InSync(v.src, v.given, n + 1)
    BY <1>7, <2>1
  <2>3. n + 1 \in 1..last /\ Followed(v.src, v.given, base, n + 1, last)
    <3>1. PICK s, t, frames : s = w.src /\ t = v.src /\ frames = v.given
      OBVIOUS
    <3>2. /\ s \in SourceType /\ t \in SourceType /\ frames \in Seq(Seq(Piece))
          /\ s.buffer.list # <<>> /\ n = Head(s.buffer.list).n
          /\ Followed(s, frames, base, x, last) /\ InSync(t, frames, n + 1)
      BY <1>2, <2>1, <2>2, <3>1
    <3>3. /\ t.buffer.list = Tail(s.buffer.list)
          /\ t.buffer.expected = (Head(s.buffer.list).seq + 1) % SeqModulus
          /\ ~t.afterGetting
      BY <1>1, <1>3, <1>4, <3>1
    <3>4. n + 1 \in 1..last /\ Followed(t, frames, base, n + 1, last)
      BY ONLY base \in 0..SeqModulus - 1, <3>2, <3>3, FollowedBehind
    <3> QED BY <3>1, <3>4
  <2> QED BY <2>3
<1> QED BY <1>3, <1>4, <1>5, <1>6, <1>7 DEF LoopGood

(* A packet that the header check refuses. *)
LEMMA HeaderTurn ==
  ASSUME NEW w, NEW v, v = RejectedByHeader(w), NEW hand \in BOOLEAN,
         NEW base \in 0..SeqModulus - 1, NEW last,
         LoopGood(w, hand, base, last), w.src.need, w.src.buffer.list # <<>>,
         Head(w.src.buffer.list).uses = 0
  PROVE  /\ LoopGood(v, hand, base, last) /\ SameSource(w.src, v.src)
         /\ v.src.need /\ v.src.buffer.list = Tail(w.src.buffer.list)
         /\ w.doubt => v.doubt
<1>1. PICK b, c, n : b = w.src.buffer /\ c = ReleaseUsedPacket(GiveUpEarlier(b)) /\ n = Head(b.list).n
  OBVIOUS
<1>2. /\ w \in WorldType /\ w.src \in SourceType /\ b \in BufferType /\ b.list \in Seq(StoredPacket)
  BY <1>1 DEF LoopGood, WorldType, SourceType, BufferType
<1>3. c \in BufferType /\ c.seen = b.seen /\ c.list = Tail(b.list)
  BY <1>1, <1>2, ReleaseFields
<1>4. v = Refused(w, c)
  BY <1>1 DEF RejectedByHeader, Refused, WorldType, LoopGood, SourceType
<1>5. /\ v \in WorldType /\ v.given = w.given /\ v.src \in SourceType
      /\ ~v.doubt => ~w.doubt /\ ~HidesLoss(b)
      /\ v.src = [w.src EXCEPT !.buffer = c]
  <2>1. w \in WorldType /\ c \in BufferType
    BY <1>2, <1>3
  <2>2. v \in WorldType
    BY ONLY <1>4, <2>1, HeaderFields
  <2>3. v.given = w.given
    BY ONLY <1>4, <2>1, HeaderFields
  <2>4. w.doubt => v.doubt
    BY ONLY <1>4, <2>1, HeaderFields
  <2>5. HidesLoss(w.src.buffer) => v.doubt
    BY ONLY <1>4, <2>1, HeaderFields
  <2>6. v.src = [w.src EXCEPT !.buffer = c]
    BY ONLY <1>4, <2>1, HeaderFields
  <2> QED BY <1>1, <2>2, <2>3, <2>4, <2>5, <2>6 DEF WorldType
<1>6. /\ v.src.buffer = c /\ v.src.need = w.src.need /\ v.src.awaiting = w.src.awaiting
      /\ v.src.afterGetting = w.src.afterGetting /\ v.src.frame = w.src.frame
      /\ v.src.lossInFrame = w.src.lossInFrame
      /\ v.src.ssrc = w.src.ssrc /\ v.src.partly = w.src.partly /\ v.src.reading = w.src.reading
  BY ONLY <1>2, <1>5, SourceFields
<1>7. ASSUME NEW x \in 1..last, ~v.doubt, Followed(w.src, w.given, base, x, last)
      PROVE  InSync(v.src, v.given, n + 1)
  <2>1. ~LossPreceded(b) /\ n % 4 = 1
    BY <1>1, <1>5, <1>7 DEF HidesLoss, BeginsFrame, CompletesFrame
  <2>2. Placed(b.list, b.expected, base, x, last) /\ InSync(w.src, w.given, x)
    BY <1>1, <1>7 DEF Followed
  <2>3. n = x /\ ~Begins(b.list, x)
    BY <1>1, <1>2, <2>1, <2>2, HeadExpected
  <2>4. n \in 1..MaxPackets /\ MaxPackets \in Nat
    BY <1>1, <1>2, <2>2, HeadPlaced, Sizes
  <2>5. (n + 1) % 4 = 2
    BY ONLY <2>1, <2>4
  <2>6. Before(n) = <<>> /\ Before(n + 1) = <<>>
    BY <2>1, <2>5 DEF Before
  <2>7. CASE w.src.lossInFrame
    BY <1>6, <2>7 DEF InSync
  <2>8. CASE ~w.src.lossInFrame
    BY <1>1, <1>5, <1>6, <2>2, <2>3, <2>6, <2>8 DEF InSync
  <2> QED BY <2>7, <2>8
<1>8. LoopGood(v, hand, base, last)
  <2>1. /\ v.src.need /\ v.src.awaiting = w.src.awaiting
        /\ v.src.afterGetting = w.src.afterGetting /\ v.src.buffer = c
    BY <1>6
  <2>2. v \in WorldType /\ v.given = w.given /\ (~v.doubt => ~w.doubt)
    BY <1>5
  <2>3. \A x \in 1..last : ~v.doubt /\ Followed(w.src, w.given, base, x, last) =>
                            InSync(v.src, v.given, n + 1)
    BY <1>7
  <2> QED BY <1>1, <2>1, <2>2, <2>3, TurnBehind
<1> QED BY <1>1, <1>3, <1>5, <1>6, <1>8 DEF SameSource

(* A fragment of a frame that was not received whole. *)
LEMMA LossTurn ==
  ASSUME NEW w, NEW v, v = RejectedForLoss(w), NEW hand \in BOOLEAN,
         NEW base \in 0..SeqModulus - 1, NEW last,
         LoopGood(w, hand, base, last), w.src.need, w.src.buffer.list # <<>>
  PROVE  /\ LoopGood(v, hand, base, last) /\ SameSource(w.src, v.src)
         /\ v.src.need /\ v.src.buffer.list = Tail(w.src.buffer.list)
         /\ w.doubt => v.doubt
<1>1. PICK b, c, n : b = w.src.buffer /\ c = ReleaseUsedPacket(GiveUpEarlier(b)) /\ n = Head(b.list).n
  OBVIOUS
<1>2. /\ w \in WorldType /\ w.src \in SourceType /\ b \in BufferType /\ b.list \in Seq(StoredPacket)
  BY <1>1 DEF LoopGood, WorldType, SourceType, BufferType
<1>3. c \in BufferType /\ c.seen = b.seen /\ c.list = Tail(b.list)
  BY <1>1, <1>2, ReleaseFields
<1>4. PICK s : s = [w.src EXCEPT !.buffer = c, !.lossInFrame = TRUE]
  OBVIOUS
<1>5. v = [w EXCEPT !.src = s]
  BY <1>1, <1>2, <1>4 DEF RejectedForLoss, WorldType, SourceType
<1>6. /\ s \in SourceType
      /\ s.buffer = c /\ s.need = w.src.need /\ s.awaiting = w.src.awaiting
      /\ s.afterGetting = w.src.afterGetting /\ s.lossInFrame = TRUE
      /\ s.ssrc = w.src.ssrc /\ s.partly = w.src.partly /\ s.reading = w.src.reading
  BY <1>2, <1>3, <1>4 DEF SourceType
<1>7. v.src = s /\ v.given = w.given /\ v.doubt = w.doubt /\ v \in WorldType
  BY <1>2, <1>5, <1>6 DEF WorldType
<1>8. InSync(v.src, v.given, n + 1)
  BY <1>6, <1>7 DEF InSync
<1>9. LoopGood(v, hand, base, last)
  BY <1>1, <1>6, <1>7, <1>8, TurnBehind
<1> QED BY <1>1, <1>3, <1>6, <1>7, <1>9 DEF SameSource

(* What the frame has when the head of the list is usable. *)
LEMMA KeptIsBefore ==
  ASSUME NEW s \in SourceType, s.need, s.buffer.list # <<>>, NEW n, n = Head(s.buffer.list).n,
         NEW frames, NEW base \in 0..SeqModulus - 1, NEW x, NEW last,
         Followed(s, frames, base, x, last), ~LossInFrame(s)
  PROVE  /\ KeptData(s) = Before(n)
         /\ ~BeginsFrame(n) => /\ KeptData(s) = s.frame
                               /\ s.frame # <<>> /\ frames # <<>> =>
                                    Comes(frames[Len(frames)], s.frame)
<1>1. PICK b : b = s.buffer
  OBVIOUS
<1>2. b \in BufferType
  BY <1>1 DEF SourceType
<1>3. Placed(b.list, b.expected, base, x, last) /\ InSync(s, frames, x)
  BY <1>1 DEF Followed
<1>4. BeginsFrame(n) => Before(n) = <<>>
  <2>1. n \in 1..MaxPackets /\ MaxPackets \in Nat
    BY <1>1, <1>2, <1>3, HeadPlaced, Sizes DEF BufferType
  <2> QED BY <2>1 DEF BeginsFrame, Before
<1>5. CASE BeginsFrame(n) /\ (LossPreceded(b) \/ s.lossInFrame)
  BY <1>1, <1>4, <1>5 DEF KeptData
<1>6. CASE ~(BeginsFrame(n) /\ (LossPreceded(b) \/ s.lossInFrame))
  <2>1. ~LossPreceded(b) /\ ~s.lossInFrame
    BY <1>1, <1>6 DEF LossInFrame
  <2>2. n = x /\ ~Begins(b.list, x)
    BY <1>1, <1>2, <1>3, <2>1, HeadExpected
  <2>3. /\ s.frame = Before(x)
        /\ s.frame # <<>> /\ frames # <<>> => Comes(frames[Len(frames)], s.frame)
    BY <1>1, <1>3, <2>1, <2>2 DEF InSync
  <2>4. KeptData(s) = s.frame
    BY <1>1, <1>6 DEF KeptData
  <2> QED BY <2>2, <2>3, <2>4
<1> QED BY <1>5, <1>6

LEMMA AppendSecond ==
  ASSUME NEW S, NEW a \in S, NEW b \in S
  PROVE  Append(<<a>>, b) = <<a, b>> /\ <<a, b>> \in Seq(S)
<1>1. <<a>> \in Seq(S) /\ Len(<<a>>) = 1 /\ <<a>>[1] = a
  OBVIOUS
<1>2. PICK s, t : s = Append(<<a>>, b) /\ t = <<a, b>>
  OBVIOUS
<1>3. s \in Seq(S) /\ Len(s) = 2 /\ s[1] = a /\ s[2] = b
  BY <1>1, <1>2, AppendProperties
<1>4. t \in Seq(S) /\ Len(t) = 2 /\ t[1] = a /\ t[2] = b
  BY <1>2
<1>5. \A i \in 1..2 : i = 1 \/ i = 2
  OBVIOUS
<1>6. s = t
  BY ONLY <1>3, <1>4, <1>5, SeqEqual
<1> QED BY <1>2, <1>4, <1>6

LEMMA AppendThird ==
  ASSUME NEW S, NEW a \in S, NEW b \in S, NEW c \in S
  PROVE  Append(<<a, b>>, c) = <<a, b, c>> /\ <<a, b, c>> \in Seq(S)
<1>1. <<a, b>> \in Seq(S) /\ Len(<<a, b>>) = 2 /\ <<a, b>>[1] = a /\ <<a, b>>[2] = b
  OBVIOUS
<1>2. PICK s, t : s = Append(<<a, b>>, c) /\ t = <<a, b, c>>
  OBVIOUS
<1>3. s \in Seq(S) /\ Len(s) = 3 /\ s[1] = a /\ s[2] = b /\ s[3] = c
  BY <1>1, <1>2, AppendProperties
<1>4. t \in Seq(S) /\ Len(t) = 3 /\ t[1] = a /\ t[2] = b /\ t[3] = c
  BY <1>2
<1>5. \A i \in 1..3 : i = 1 \/ i = 2 \/ i = 3
  OBVIOUS
<1>6. s = t
  BY ONLY <1>3, <1>4, <1>5, SeqEqual
<1> QED BY <1>2, <1>4, <1>6

(* The frame with the next piece of the head. *)
NextFrame(s) == LET head == Head(s.buffer.list) IN Append(KeptData(s), <<head.n, head.uses + 1>>)

LEMMA NextFrameIs ==
  ASSUME NEW s \in SourceType, s.need, s.buffer.list # <<>>, NEW h, h = Head(s.buffer.list),
         h.uses < FramesIn(h.n), NEW frames, NEW base \in 0..SeqModulus - 1, NEW x, NEW last,
         Followed(s, frames, base, x, last), ~LossInFrame(s), NEW f, f = NextFrame(s)
  PROVE  /\ f \in Seq(Piece) /\ f # <<>>
         /\ CompletesFrame(h.n) => IsWhole(f)
         /\ ~CompletesFrame(h.n) => f = Before(h.n + 1) /\ h.uses = 0
         /\ BeginsFrame(h.n) => f = <<<<h.n, h.uses + 1>>>>
         /\ ~BeginsFrame(h.n) => f[1][1] < h.n
<1>1. PICK n, u, list : n = h.n /\ u = h.uses /\ list = s.buffer.list
  OBVIOUS
<1>2. list \in Seq(StoredPacket) /\ h \in StoredPacket
  BY <1>1, HeadFields DEF SourceType, BufferType
<1>3. n \in 1..MaxPackets /\ u \in {0, 1} /\ MaxPackets \in Nat
  BY <1>1, <1>2, PacketFields, Sizes
<1>4. u < IF n % 4 = 1 THEN 2 ELSE 1
  BY <1>1 DEF FramesIn
<1>5. KeptData(s) = Before(n)
  BY <1>1, KeptIsBefore
<1>6. f = Append(Before(n), <<n, u + 1>>)
  BY <1>1, <1>5 DEF NextFrame
<1>7. n % 4 \in {0, 1, 2, 3}
  BY ONLY <1>3
<1>8. CASE n % 4 = 1
  <2>1. Before(n) = <<>>
    BY <1>8 DEF Before
  <2>2. f = <<<<n, u + 1>>>>
    BY <1>6, <2>1
  <2>3. u + 1 \in {1, 2}
    BY ONLY <1>3
  <2>4. f \in Seq(Piece) /\ f # <<>>
    BY <1>3, <2>2, <2>3 DEF Piece
  <2>5. IsWhole(f)
    BY <1>3, <1>8, <2>2, <2>3 DEF IsWhole
  <2> QED BY <1>1, <1>8, <2>2, <2>4, <2>5 DEF CompletesFrame, BeginsFrame
<1>9. CASE n % 4 = 2
  <2>1. Before(n) = <<>> /\ u = 0
    BY <1>3, <1>4, <1>9 DEF Before
  <2>2. f = <<<<n, 1>>>>
    BY <1>6, <2>1
  <2>3. (n + 1) % 4 = 3 /\ (n + 1) - 1 = n
    BY ONLY <1>3, <1>9
  <2>4. f = Before(n + 1)
    BY <2>2, <2>3 DEF Before
  <2>5. f \in Seq(Piece) /\ f # <<>>
    BY <1>3, <2>2 DEF Piece
  <2> QED BY <1>1, <1>9, <2>1, <2>2, <2>4, <2>5 DEF CompletesFrame, BeginsFrame
<1>10. CASE n % 4 = 3
  <2>1. Before(n) = <<<<n - 1, 1>>>> /\ u = 0
    BY <1>3, <1>4, <1>10 DEF Before
  <2>2. /\ (n + 1) % 4 = 0 /\ (n + 1) - 1 = n /\ (n + 1) - 2 = n - 1
        /\ n - 1 \in 1..MaxPackets /\ n - 1 < n
    BY ONLY <1>3, <1>10
  <2>3. <<n - 1, 1>> \in Piece /\ <<n, 1>> \in Piece
    BY <1>3, <2>2 DEF Piece
  <2>4. f = <<<<n - 1, 1>>, <<n, 1>>>> /\ f \in Seq(Piece)
    <3>1. f = Append(<<<<n - 1, 1>>>>, <<n, 1>>)
      BY <1>6, <2>1
    <3> QED BY <2>3, <3>1, AppendSecond
  <2>5. f = Before(n + 1)
    BY <2>2, <2>4 DEF Before
  <2>6. f # <<>> /\ f[1][1] < n
    BY <2>2, <2>4
  <2> QED BY <1>1, <1>10, <2>1, <2>4, <2>5, <2>6 DEF CompletesFrame, BeginsFrame
<1>11. CASE n % 4 = 0
  <2>1. Before(n) = <<<<n - 2, 1>>, <<n - 1, 1>>>> /\ u = 0
    BY <1>3, <1>4, <1>11 DEF Before
  <2>2. PICK m \in 1..MaxPackets : m = n - 2 /\ m % 4 = 2 /\ m + 1 = n - 1 /\ m + 2 = n /\ m < n
                                   /\ m + 1 \in 1..MaxPackets
    BY ONLY <1>3, <1>11
  <2>3. <<m, 1>> \in Piece /\ <<m + 1, 1>> \in Piece /\ <<n, 1>> \in Piece
    BY <1>3, <2>2 DEF Piece
  <2>4. f = <<<<m, 1>>, <<m + 1, 1>>, <<n, 1>>>> /\ f \in Seq(Piece)
    <3>1. PICK a, b, c \in Piece : a = <<m, 1>> /\ b = <<m + 1, 1>> /\ c = <<n, 1>>
      BY <2>3
    <3>2. Before(n) = <<a, b>>
      BY <2>1, <2>2, <3>1
    <3>3. f = Append(<<a, b>>, c)
      BY <1>6, <2>1, <3>1, <3>2
    <3>4. f = <<a, b, c>> /\ f \in Seq(Piece)
      BY ONLY a \in Piece, b \in Piece, c \in Piece, <3>3, AppendThird
    <3> QED BY <3>1, <3>4
  <2>5. IsWhole(f)
    BY <2>2, <2>4 DEF IsWhole
  <2>6. f # <<>> /\ f[1][1] < n
    BY <2>2, <2>4
  <2> QED BY <1>1, <1>11, <2>4, <2>5, <2>6 DEF CompletesFrame, BeginsFrame
<1> QED BY <1>7, <1>8, <1>9, <1>10, <1>11

LEMMA NextFrameComes ==
  ASSUME NEW s \in SourceType, s.need, s.buffer.list # <<>>, NEW h, h = Head(s.buffer.list),
         h.uses < FramesIn(h.n), NEW frames \in Seq(Seq(Piece)),
         NEW base \in 0..SeqModulus - 1, NEW x, NEW last,
         Followed(s, frames, base, x, last), ~LossInFrame(s), NEW f, f = NextFrame(s),
         frames # <<>>
  PROVE  Comes(frames[Len(frames)], f)
<1>1. PICK n, list, g : n = h.n /\ list = s.buffer.list /\ g = frames[Len(frames)]
  OBVIOUS
<1>2. list \in Seq(StoredPacket) /\ h \in StoredPacket
  BY <1>1, HeadFields DEF SourceType, BufferType
<1>3. f \in Seq(Piece) /\ f # <<>> /\ (BeginsFrame(n) => f = <<<<n, h.uses + 1>>>>)
  BY <1>1, NextFrameIs
<1>4. CASE BeginsFrame(n)
  <2>1. f = <<<<n, h.uses + 1>>>> /\ Head(f) = <<n, h.uses + 1>>
    BY <1>3, <1>4
  <2>2. Len(frames) \in 1..Len(frames)
    BY EmptySeq
  <2>3. IsWhole(g) /\ Passed(g, list, x) /\ g \in Seq(Piece)
    BY <1>1, <2>2 DEF Followed, Delivered
  <2>4. g # <<>>
    BY <2>3, WholeIsNotEmpty
  <2>5. Head(g) = g[1] /\ g[1] \in Piece
    BY <2>3, <2>4, EmptySeq
  <2>6. x \in 1..n /\ n \in 1..MaxPackets /\ MaxPackets \in Nat
    BY <1>1, <1>2, HeadPlaced, Sizes DEF Followed
  <2>7. CASE g[1][1] < x
    <3>1. g[1][1] \in Int
      BY <2>5, Sizes DEF Piece
    <3>2. g[1][1] < n
      BY ONLY <2>6, <2>7, <3>1
    <3> QED BY <1>1, <2>1, <2>5, <3>2 DEF Comes
  <2>8. CASE g[1] = <<x, 1>> /\ list # <<>> /\ Head(list).n = x /\ Head(list).uses = 1
    <3>1. n = x /\ h.uses + 1 = 2
      BY <1>1, <2>8
    <3>2. Head(f) = <<n, 2>> /\ Head(g) = <<n, 1>>
      BY <2>1, <2>5, <2>8, <3>1
    <3> QED BY <1>1, <3>2 DEF Comes
  <2> QED BY <2>3, <2>7, <2>8 DEF Passed
<1>5. CASE ~BeginsFrame(n)
  <2>1. /\ KeptData(s) = s.frame /\ KeptData(s) = Before(n)
        /\ s.frame # <<>> /\ frames # <<>> => Comes(g, s.frame)
    BY <1>1, <1>5, KeptIsBefore
  <2>2. s.frame \in Seq(Piece)
    BY DEF SourceType
  <2>3. s.frame # <<>>
    <3>1. n % 4 \in {0, 3}
      <4>1. n \in Nat
        BY <1>1, <1>2, PacketFields
      <4> QED BY ONLY <1>5, <4>1 DEF BeginsFrame
    <3>2. CASE n % 4 = 0
      BY <2>1, <3>2 DEF Before
    <3>3. CASE n % 4 = 3
      BY <2>1, <3>3 DEF Before
    <3> QED BY <3>1, <3>2, <3>3
  <2>4. Head(f) = Head(s.frame)
    <3>1. f = Append(s.frame, <<n, h.uses + 1>>)
      BY <1>1, <2>1 DEF NextFrame
    <3> QED BY <2>2, <2>3, <3>1, HeadTailAppend
  <2> QED BY <1>1, <2>1, <2>3, <2>4 DEF Comes
<1> QED BY <1>4, <1>5

(* A frame that comes after those given is given. *)
LEMMA DeliveredMore ==
  ASSUME NEW frames \in Seq(Seq(Piece)), NEW f \in Seq(Piece), NEW list, NEW x, NEW t, NEW y,
         Delivered(frames, list, x), IsWhole(f), Passed(f, t, y),
         frames # <<>> => Comes(frames[Len(frames)], f)
  PROVE  Delivered(Append(frames, f), t, y)
<1>1. PICK more, m : more = Append(frames, f) /\ m = Len(frames)
  OBVIOUS
<1>2. /\ more \in Seq(Seq(Piece)) /\ more # <<>> /\ Len(more) = m + 1 /\ m \in Nat
      /\ \A i \in 1..m : more[i] = frames[i]
      /\ more[m + 1] = f
  BY <1>1, AppendProperties
<1>3. /\ \A i \in 1..m : IsWhole(frames[i])
      /\ \A i \in 1..m - 1 : Comes(frames[i], frames[i + 1])
  BY <1>1 DEF Delivered
<1>4. ASSUME NEW i \in 1..(m + 1)
      PROVE  IsWhole(more[i])
  <2>1. i \in 1..m \/ i = m + 1
    BY <1>2
  <2> QED BY <1>2, <1>3, <2>1
<1>5. ASSUME NEW i \in 1..m
      PROVE  Comes(more[i], more[i + 1])
  <2>1. CASE i = m
    <3>1. frames # <<>>
      <4>1. Len(frames) # 0
        BY ONLY <1>1, <1>2, <2>1, i \in 1..m
      <4> QED BY <4>1, NotEmpty
    <3> QED BY <1>1, <1>2, <2>1, <3>1
  <2>2. CASE i # m
    <3>1. i \in 1..m - 1 /\ i + 1 \in 1..m
      BY ONLY <1>2, <2>2, i \in 1..m
    <3> QED BY <1>2, <1>3, <3>1
  <2> QED BY <2>1, <2>2
<1>6. (m + 1) - 1 = m
  BY ONLY <1>2
<1> QED BY <1>1, <1>2, <1>4, <1>5, <1>6 DEF Delivered

(* Where the source is when it has used the head: at packet y, behind the
   pieces of frame f. *)
After(b, f, frames, n, base, y, last) ==
  /\ Placed(b.list, b.expected, base, y, last)
  /\ Delivered(frames, b.list, y)
  /\ frames # <<>> => Comes(frames[Len(frames)], f)
  /\ CompletesFrame(n) => IsWhole(f) /\ Passed(f, b.list, y) /\ BeginsFrame(y)
  /\ ~CompletesFrame(n) => f = Before(y)

LEMMA UsedComesAfter ==
  ASSUME NEW s \in SourceType, s.need, s.buffer.list # <<>>, NEW h, h = Head(s.buffer.list),
         h.uses < FramesIn(h.n), NEW frames \in Seq(Seq(Piece)),
         NEW base \in 0..SeqModulus - 1, NEW x, NEW last,
         Followed(s, frames, base, x, last), ~LossInFrame(s), NEW f, f = NextFrame(s),
         NEW c, c = UsePacket(GiveUpEarlier(s.buffer))
  PROVE  \E y \in 1..last : After(c, f, frames, h.n, base, y, last)
<1>1. PICK n, b, list : n = h.n /\ b = s.buffer /\ list = b.list
  OBVIOUS
<1>2. b \in BufferType /\ list \in Seq(StoredPacket) /\ h \in StoredPacket
  BY <1>1, HeadFields DEF SourceType, BufferType
<1>3. Placed(list, b.expected, base, x, last) /\ Delivered(frames, list, x)
  BY <1>1 DEF Followed
<1>4. /\ n \in 1..MaxPackets /\ x \in 1..n /\ n \in 1..last /\ n + 1 \in 1..last /\ MaxPackets \in Nat
  BY <1>1, <1>2, <1>3, HeadPlaced, Sizes
<1>5. /\ f \in Seq(Piece) /\ f # <<>>
      /\ CompletesFrame(n) => IsWhole(f)
      /\ ~CompletesFrame(n) => f = Before(n + 1) /\ h.uses = 0
      /\ BeginsFrame(n) => f = <<<<n, h.uses + 1>>>>
      /\ ~BeginsFrame(n) => f[1][1] < n
  BY <1>1, NextFrameIs
<1>6. frames # <<>> => Comes(frames[Len(frames)], f)
  BY NextFrameComes
<1>7. x \in Int /\ n \in Int /\ n + 1 \in Int /\ x < n + 1
  BY ONLY <1>4
<1>8. CASE h.uses + 1 = FramesIn(n)
  <2>1. c.list = Tail(list) /\ c.expected = (h.seq + 1) % SeqModulus
    BY <1>1, <1>2, <1>8, UseFields
  <2>2. Placed(c.list, c.expected, base, n + 1, last)
    BY <1>1, <1>2, <1>3, <2>1, ReleasePlaced
  <2>3. Delivered(frames, c.list, n + 1)
    BY <1>2, <1>3, <1>7, DeliveredOn
  <2>4. f[1][1] < n + 1
    <3>1. CASE BeginsFrame(n)
      <4>1. f[1][1] = n
        BY <1>5, <3>1
      <4> QED BY <1>7, <4>1
    <3>2. CASE ~BeginsFrame(n)
      <4>1. f[1] \in Piece
        BY <1>5, EmptySeq
      <4>2. f[1][1] \in Int
        BY <4>1, Sizes DEF Piece
      <4> QED BY ONLY <1>5, <1>7, <3>2, <4>2
    <3> QED BY <3>1, <3>2
  <2>5. CompletesFrame(n) => BeginsFrame(n + 1)
    BY ONLY <1>4 DEF CompletesFrame, BeginsFrame
  <2>6. After(c, f, frames, n, base, n + 1, last)
    BY <1>5, <1>6, <2>2, <2>3, <2>4, <2>5 DEF After, Passed
  <2> QED BY <1>1, <1>4, <2>6
<1>9. CASE h.uses + 1 # FramesIn(n)
  <2>1. h.uses = 0 /\ n % 4 = 1 /\ c.list = UsedOnce(list) /\ c.expected = h.seq
    BY <1>1, <1>2, <1>9, UseFields
  <2>2. Placed(c.list, c.expected, base, n, last)
    BY <1>1, <1>2, <1>3, <2>1, UsedPlaced
  <2>3. Delivered(frames, c.list, n)
    <3>1. CASE x < n
      BY <1>2, <1>3, <1>7, <3>1, DeliveredOn
    <3>2. CASE x = n
      <4>1. frames # <<>> => frames[Len(frames)][1][1] < n
        BY <1>1, <1>3, <2>1, <3>2 DEF Delivered, Passed
      <4> QED BY <1>3, <4>1 DEF Delivered, Passed
    <3> QED BY ONLY <1>4, <3>1, <3>2
  <2>4. BeginsFrame(n) /\ CompletesFrame(n)
    BY <2>1 DEF BeginsFrame, CompletesFrame
  <2>5. f[1] = <<n, 1>>
    BY <1>5, <2>1, <2>4
  <2>6. c.list # <<>> /\ Head(c.list).n = n /\ Head(c.list).uses = 1
    BY <1>1, <1>2, <2>1, UsedOnceFields
  <2>7. Passed(f, c.list, n)
    BY <2>5, <2>6 DEF Passed
  <2>8. After(c, f, frames, n, base, n, last)
    BY <1>5, <1>6, <2>2, <2>3, <2>4, <2>7 DEF After
  <2> QED BY <1>1, <1>4, <2>8
<1> QED BY <1>1, <1>8, <1>9

(* The source with a usable packet used, before the frame is given. *)
UsedSource(s) ==
  [s EXCEPT !.buffer = UsePacket(GiveUpEarlier(@)),
            !.lossInFrame = FALSE,
            !.frame = NextFrame(s),
            !.need = ~CompletesFrame(Head(s.buffer.list).n)]

LEMMA UsedSourceFields ==
  ASSUME NEW s \in SourceType, NEW t, t = UsedSource(s), NextFrame(s) \in Seq(Piece),
         UsePacket(GiveUpEarlier(s.buffer)) \in BufferType
  PROVE  /\ t \in SourceType /\ t.buffer = UsePacket(GiveUpEarlier(s.buffer))
         /\ t.frame = NextFrame(s) /\ t.lossInFrame = FALSE
         /\ t.need <=> ~CompletesFrame(Head(s.buffer.list).n)
         /\ t.reading = s.reading /\ t.awaiting = s.awaiting /\ t.afterGetting = s.afterGetting
         /\ t.partly = s.partly /\ t.ssrc = s.ssrc
<1>1. PICK need \in BOOLEAN : need <=> ~CompletesFrame(Head(s.buffer.list).n)
  OBVIOUS
<1>2. PICK c, f : c = UsePacket(GiveUpEarlier(s.buffer)) /\ f = NextFrame(s)
  OBVIOUS
<1>3. t = [s EXCEPT !.buffer = c, !.lossInFrame = FALSE, !.frame = f, !.need = need]
  BY <1>1, <1>2 DEF UsedSource, CompletesFrame
<1>4. /\ t \in SourceType /\ t.buffer = c /\ t.frame = f /\ t.lossInFrame = FALSE /\ t.need = need
      /\ t.reading = s.reading /\ t.awaiting = s.awaiting /\ t.afterGetting = s.afterGetting
      /\ t.partly = s.partly /\ t.ssrc = s.ssrc
  BY <1>2, <1>3 DEF SourceType
<1> QED BY <1>1, <1>2, <1>4

(* What GiveFrame makes of the world. *)
LEMMA GiveFields ==
  ASSUME NEW w \in WorldType, NEW v, v = GiveFrame(w)
  PROVE  /\ v \in WorldType /\ v.doubt = w.doubt /\ SameSource(w.src, v.src)
         /\ v.src.buffer = w.src.buffer /\ v.src.frame = w.src.frame
         /\ v.src.need = w.src.need /\ v.src.lossInFrame = w.src.lossInFrame
         /\ w.src.buffer.list = <<>> => /\ v.src.awaiting = FALSE
                                        /\ v.src.afterGetting = w.src.afterGetting
                                        /\ v.given = Append(w.given, w.src.frame)
         /\ w.src.buffer.list # <<>> => /\ v.src.awaiting = w.src.awaiting
                                        /\ v.src.afterGetting = TRUE
                                        /\ v.given = w.given
<1>1. w.src \in SourceType /\ w.src.frame \in Seq(Piece) /\ w.given \in Seq(Seq(Piece))
  BY DEF WorldType, SourceType
<1>2. CASE w.src.buffer.list = <<>>
  <2>1. PICK more : more = Append(w.given, w.src.frame)
    OBVIOUS
  <2>2. more \in Seq(Seq(Piece))
    BY <1>1, <2>1, AppendProperties
  <2>3. PICK s : s = [w.src EXCEPT !.awaiting = FALSE]
    OBVIOUS
  <2>4. /\ s \in SourceType /\ s.awaiting = FALSE /\ s.afterGetting = w.src.afterGetting
        /\ s.buffer = w.src.buffer /\ s.frame = w.src.frame /\ s.need = w.src.need
        /\ s.lossInFrame = w.src.lossInFrame /\ s.ssrc = w.src.ssrc
        /\ s.partly = w.src.partly /\ s.reading = w.src.reading
    BY <1>1, <2>3 DEF SourceType
  <2>5. v = [w EXCEPT !.src = s, !.given = more]
    BY <1>1, <1>2, <2>1, <2>3 DEF GiveFrame, WorldType
  <2>6. v \in WorldType /\ v.src = s /\ v.given = more /\ v.doubt = w.doubt
    BY <2>2, <2>4, <2>5 DEF WorldType
  <2> QED BY <1>2, <2>1, <2>4, <2>6 DEF SameSource
<1>3. CASE w.src.buffer.list # <<>>
  <2>1. PICK s : s = [w.src EXCEPT !.afterGetting = TRUE]
    OBVIOUS
  <2>2. /\ s \in SourceType /\ s.awaiting = w.src.awaiting /\ s.afterGetting = TRUE
        /\ s.buffer = w.src.buffer /\ s.frame = w.src.frame /\ s.need = w.src.need
        /\ s.lossInFrame = w.src.lossInFrame /\ s.ssrc = w.src.ssrc
        /\ s.partly = w.src.partly /\ s.reading = w.src.reading
    BY <1>1, <2>1 DEF SourceType
  <2>3. v = [w EXCEPT !.src = s]
    BY <1>1, <1>3, <2>1 DEF GiveFrame, WorldType
  <2>4. v \in WorldType /\ v.src = s /\ v.given = w.given /\ v.doubt = w.doubt
    BY <2>2, <2>3 DEF WorldType
  <2> QED BY <1>3, <2>2, <2>4 DEF SameSource
<1> QED BY <1>2, <1>3

(* What UsePacket keeps of LoopGood. *)
LEMMA UsedBuffer ==
  ASSUME NEW b \in BufferType, b.list # <<>>, NEW h, h = Head(b.list), NEW hand \in BOOLEAN,
         Usable(b.list), SavedOnce(b.list, b.saved, hand),
         NEW c, c = UsePacket(GiveUpEarlier(b))
  PROVE  /\ h.uses < FramesIn(h.n) /\ c \in BufferType /\ c.seen = b.seen
         /\ Usable(c.list) /\ SavedOnce(c.list, c.saved, hand)
         /\ ~CompletesFrame(h.n) => Len(c.list) = Len(b.list) - 1
<1>1. b.list \in Seq(StoredPacket)
  BY DEF BufferType
<1>2. h = b.list[1] /\ 1 \in 1..Len(b.list) /\ h \in StoredPacket /\ Len(Tail(b.list)) = Len(b.list) - 1
  BY <1>1, HeadFields
<1>3. h.uses < FramesIn(h.n)
  BY <1>2 DEF Usable
<1>4. c \in BufferType /\ c.seen = b.seen
  BY <1>3, UseFields
<1>5. CASE h.uses + 1 = FramesIn(h.n)
  <2>1. c.list = Tail(b.list) /\ c.saved = AfterFree(b.saved, h)
    BY <1>3, <1>5, UseFields
  <2>2. Usable(c.list)
    BY <1>1, <2>1, ReleaseUsable
  <2>3. SavedOnce(c.list, c.saved, hand)
    BY <1>1, <2>1, ReleaseSaved
  <2> QED BY <1>2, <1>3, <1>4, <2>1, <2>2, <2>3
<1>6. CASE h.uses + 1 # FramesIn(h.n)
  <2>1. h.uses = 0 /\ h.n % 4 = 1 /\ c.list = UsedOnce(b.list) /\ c.saved = b.saved
    BY <1>3, <1>6, UseFields
  <2>2. Usable(c.list) /\ SavedOnce(c.list, c.saved, hand)
    BY <1>1, <2>1, UsedKept
  <2>3. CompletesFrame(h.n)
    BY <2>1 DEF CompletesFrame
  <2> QED BY <1>3, <1>4, <2>2, <2>3
<1> QED BY <1>5, <1>6

LEMMA NextFrameType ==
  ASSUME NEW s \in SourceType, s.buffer.list # <<>>
  PROVE  NextFrame(s) \in Seq(Piece)
<1>1. PICK h : h = Head(s.buffer.list)
  OBVIOUS
<1>2. h \in StoredPacket
  BY <1>1, HeadFields DEF SourceType, BufferType
<1>3. <<h.n, h.uses + 1>> \in Piece
  BY <1>2, PacketFields DEF Piece
<1>4. KeptData(s) \in Seq(Piece)
  BY DEF KeptData, SourceType
<1> QED BY <1>1, <1>3, <1>4, AppendProperties DEF NextFrame

(* A packet that is used. *)
LEMMA UsedTurn ==
  ASSUME NEW w, NEW v, v = Used(w), NEW hand \in BOOLEAN,
         NEW base \in 0..SeqModulus - 1, NEW last,
         LoopGood(w, hand, base, last), w.src.need, w.src.buffer.list # <<>>,
         ~LossInFrame(w.src)
  PROVE  /\ LoopGood(v, hand, base, last) /\ SameSource(w.src, v.src)
         /\ v.src.need => Len(v.src.buffer.list) = Len(w.src.buffer.list) - 1
         /\ w.doubt => v.doubt
<1>1. PICK s, b, h, f, c, t, u :
        /\ s = w.src /\ b = s.buffer /\ h = Head(b.list) /\ f = NextFrame(s)
        /\ c = UsePacket(GiveUpEarlier(b)) /\ t = UsedSource(s) /\ u = [w EXCEPT !.src = t]
  OBVIOUS
<1>2. /\ w \in WorldType /\ s \in SourceType /\ b \in BufferType /\ b.list \in Seq(StoredPacket)
      /\ w.given \in Seq(Seq(Piece))
  BY <1>1 DEF LoopGood, WorldType, SourceType, BufferType
<1>3. /\ Usable(b.list) /\ SavedOnce(b.list, b.saved, hand)
      /\ s.awaiting /\ ~s.afterGetting /\ b.seen
  BY <1>1 DEF LoopGood
<1>4. /\ h.uses < FramesIn(h.n) /\ c \in BufferType /\ c.seen = b.seen
      /\ Usable(c.list) /\ SavedOnce(c.list, c.saved, hand)
      /\ ~CompletesFrame(h.n) => Len(c.list) = Len(b.list) - 1
  BY <1>1, <1>2, <1>3, UsedBuffer
<1>5. f \in Seq(Piece)
  BY <1>1, <1>2, NextFrameType
<1>6. /\ t \in SourceType /\ t.buffer = c /\ t.frame = f /\ t.lossInFrame = FALSE
      /\ t.need <=> ~CompletesFrame(h.n)
      /\ t.reading = s.reading /\ t.awaiting = s.awaiting /\ t.afterGetting = s.afterGetting
      /\ t.partly = s.partly /\ t.ssrc = s.ssrc
  BY <1>1, <1>2, <1>4, <1>5, UsedSourceFields
<1>7. u \in WorldType /\ u.src = t /\ u.given = w.given /\ u.doubt = w.doubt
  BY <1>1, <1>2, <1>6 DEF WorldType
<1>8. v = IF CompletesFrame(h.n) THEN GiveFrame(u) ELSE u
  BY <1>1 DEF Used, UsedSource, NextFrame
<1>9. SameSource(s, t)
  BY <1>1, <1>4, <1>6 DEF SameSource
<1>10. ASSUME ~w.doubt
       PROVE  \E y \in 1..last : After(c, f, w.given, h.n, base, y, last)
  <2>1. PICK x \in 1..last : Followed(s, w.given, base, x, last)
    BY <1>1, <1>3, <1>10 DEF LoopGood
  <2> QED BY <1>1, <1>2, <1>4, <2>1, UsedComesAfter
<1>11. CASE ~CompletesFrame(h.n)
  <2>1. v = u /\ t.need
    BY <1>6, <1>8, <1>11
  <2>2. ASSUME ~w.doubt
        PROVE  \E y \in 1..last : Followed(t, w.given, base, y, last)
    <3>1. PICK y \in 1..last : After(c, f, w.given, h.n, base, y, last)
      BY <1>10, <2>2
    <3>2. InSync(t, w.given, y)
      BY <1>6, <1>11, <2>1, <3>1 DEF InSync, After
    <3>3. OnItsWay(t, w.given, y)
      BY <1>3, <1>6 DEF OnItsWay
    <3>4. Followed(t, w.given, base, y, last)
      BY <1>6, <3>1, <3>2, <3>3 DEF Followed, After
    <3> QED BY <3>4
  <2>3. LoopGood(v, hand, base, last)
    BY <1>3, <1>4, <1>6, <1>7, <2>1, <2>2 DEF LoopGood
  <2> QED BY <1>1, <1>4, <1>6, <1>7, <1>9, <1>11, <2>1, <2>3
<1>12. CASE CompletesFrame(h.n)
  <2>1. v = GiveFrame(u) /\ ~t.need
    BY <1>6, <1>8, <1>12
  <2>2. /\ v \in WorldType /\ v.doubt = w.doubt /\ SameSource(t, v.src)
        /\ v.src.buffer = c /\ v.src.frame = f /\ ~v.src.need
        /\ v.src.lossInFrame = FALSE
        /\ c.list = <<>> => /\ v.src.awaiting = FALSE /\ ~v.src.afterGetting
                            /\ v.given = Append(w.given, f)
        /\ c.list # <<>> => /\ v.src.awaiting /\ v.src.afterGetting = TRUE
                            /\ v.given = w.given
    <3>1. v \in WorldType /\ v.doubt = u.doubt /\ SameSource(u.src, v.src)
      BY <1>7, <2>1, GiveFields
    <3>2. /\ v.src.buffer = u.src.buffer /\ v.src.frame = u.src.frame
          /\ v.src.need = u.src.need /\ v.src.lossInFrame = u.src.lossInFrame
      BY <1>7, <2>1, GiveFields
    <3>3. CASE c.list = <<>>
      <4>1. u.src.buffer.list = <<>>
        BY <1>6, <1>7, <3>3
      <4>2. /\ v.src.awaiting = FALSE /\ v.src.afterGetting = u.src.afterGetting
            /\ v.given = Append(u.given, u.src.frame)
        BY <1>7, <2>1, <4>1, GiveFields
      <4> QED BY <1>3, <1>6, <1>7, <2>1, <3>1, <3>2, <3>3, <4>2
    <3>4. CASE c.list # <<>>
      <4>1. u.src.buffer.list # <<>>
        BY <1>6, <1>7, <3>4
      <4>2. v.src.awaiting = u.src.awaiting /\ v.src.afterGetting = TRUE /\ v.given = u.given
        BY <1>7, <2>1, <4>1, GiveFields
      <4> QED BY <1>3, <1>6, <1>7, <2>1, <3>1, <3>2, <3>4, <4>2
    <3> QED BY <3>3, <3>4
  <2>3. ASSUME ~w.doubt
        PROVE  \E y \in 1..last : Followed(v.src, v.given, base, y, last)
    <3>1. PICK y \in 1..last : After(c, f, w.given, h.n, base, y, last)
      BY <1>10, <2>3
    <3>2. /\ Placed(c.list, c.expected, base, y, last) /\ Delivered(w.given, c.list, y)
          /\ w.given # <<>> => Comes(w.given[Len(w.given)], f)
          /\ IsWhole(f) /\ Passed(f, c.list, y) /\ BeginsFrame(y)
      BY <1>12, <3>1 DEF After
    <3>3. InSync(v.src, v.given, y)
      BY <2>2, <3>2 DEF InSync
    <3>4. CASE c.list = <<>>
      <4>1. Delivered(v.given, c.list, y)
        <5>1. Delivered(Append(w.given, f), c.list, y)
          BY <1>2, <1>5, <3>2, DeliveredMore
        <5> QED BY <2>2, <3>4, <5>1
      <4>2. OnItsWay(v.src, v.given, y)
        BY <2>2, <3>4 DEF OnItsWay
      <4> QED BY <2>2, <3>2, <3>3, <4>1, <4>2 DEF Followed
    <3>5. CASE c.list # <<>>
      <4>1. OnItsWay(v.src, v.given, y) /\ Delivered(v.given, c.list, y)
        BY <2>2, <3>2, <3>5 DEF OnItsWay
      <4> QED BY <2>2, <3>2, <3>3, <4>1 DEF Followed
    <3> QED BY <3>4, <3>5
  <2>4. v.src.awaiting <=> v.src.afterGetting
    BY <2>2
  <2>5. LoopGood(v, hand, base, last)
    BY <1>3, <1>4, <2>2, <2>3, <2>4 DEF LoopGood
  <2>6. SameSource(s, v.src)
    BY <1>9, <2>2 DEF SameSource
  <2> QED BY <1>1, <2>2, <2>5, <2>6
<1> QED BY <1>11, <1>12

(* Nothing is left to do: the loop has ended. *)
Stable(w, overdue) == ~w.src.need \/ ~HasNext(w.src.buffer, overdue)

LEMMA TurnKeeps ==
  ASSUME NEW w, NEW overdue, NEW refused, NEW v, v = Turn(w, overdue, refused),
         NEW hand \in BOOLEAN, NEW base \in 0..SeqModulus - 1, NEW last,
         LoopGood(w, hand, base, last)
  PROVE  /\ LoopGood(v, hand, base, last) /\ SameSource(w.src, v.src)
         /\ w.doubt => v.doubt
         /\ Stable(w, overdue) => v = w
         /\ ~Stable(w, overdue) /\ v.src.need =>
              Len(v.src.buffer.list) = Len(w.src.buffer.list) - 1
<1>1. CASE Stable(w, overdue)
  <2>1. v = w
    BY <1>1 DEF Turn, Stable
  <2> QED BY <1>1, <2>1 DEF SameSource
<1>2. CASE ~Stable(w, overdue)
  <2>1. PICK h : h = Head(w.src.buffer.list)
    OBVIOUS
  <2>2. w.src.need /\ w.src.buffer.list # <<>>
    BY <1>2 DEF Stable, HasNext
  <2>3. v = IF h.uses = 0 /\ h.n \in refused THEN RejectedByHeader(w)
            ELSE IF LossInFrame(w.src) THEN RejectedForLoss(w)
            ELSE Used(w)
    BY <1>2, <2>1 DEF Turn, Stable
  <2>4. Len(Tail(w.src.buffer.list)) = Len(w.src.buffer.list) - 1
    <3>1. w.src.buffer.list \in Seq(StoredPacket)
      BY DEF LoopGood, WorldType, SourceType, BufferType
    <3> QED BY <2>2, <3>1, HeadFields
  <2>5. CASE h.uses = 0 /\ h.n \in refused
    <3>1. v = RejectedByHeader(w)
      BY <2>3, <2>5
    <3>2. /\ LoopGood(v, hand, base, last) /\ SameSource(w.src, v.src)
          /\ v.src.need /\ v.src.buffer.list = Tail(w.src.buffer.list)
          /\ w.doubt => v.doubt
      BY <2>1, <2>2, <2>5, <3>1, HeaderTurn
    <3> QED BY <1>2, <2>4, <3>2
  <2>6. CASE ~(h.uses = 0 /\ h.n \in refused) /\ LossInFrame(w.src)
    BY <1>2, <2>2, <2>3, <2>4, <2>6, LossTurn
  <2>7. CASE ~(h.uses = 0 /\ h.n \in refused) /\ ~LossInFrame(w.src)
    BY <1>2, <2>2, <2>3, <2>7, UsedTurn
  <2> QED BY <2>5, <2>6, <2>7
<1> QED BY <1>1, <1>2

-----------------------------------------------------------------------------
(* The loop.                                                               *)

(* f holds the world after each of the first n turns. *)
Goes(f, w, overdue, refused, n) ==
  f = [k \in 0..n |-> IF k = 0 THEN w ELSE Turn(f[k - 1], overdue, refused)]

LEMMA GoesOn ==
  ASSUME NEW w, NEW overdue, NEW refused, NEW n \in Nat
  PROVE  \E f : Goes(f, w, overdue, refused, n)
<1> DEFINE T == {m \in 0..n : ~ \E f : Goes(f, w, overdue, refused, m)}
<1>1. SUFFICES ASSUME T # {} PROVE FALSE
  BY n \in 0..n
<1>2. PICK m \in T : \A k \in T : m <= k
  <2>1. T \in SUBSET Nat
    OBVIOUS
  <2> HIDE DEF T
  <2> QED BY <1>1, <2>1, LeastNatural
<1>3. CASE m = 0
  <2> DEFINE z == [k \in 0..0 |-> w]
  <2>1. Goes(z, w, overdue, refused, 0)
    BY DEF Goes
  <2> QED BY <1>2, <1>3, <2>1
<1>4. CASE m > 0
  <2>1. PICK g : Goes(g, w, overdue, refused, m - 1)
    BY <1>2, <1>4
  <2> DEFINE f == [k \in 0..m |-> IF k = m THEN Turn(g[m - 1], overdue, refused) ELSE g[k]]
  <2>2. Goes(f, w, overdue, refused, m)
    BY <1>4, <2>1 DEF Goes
  <2> QED BY <1>2, <2>2
<1> QED BY <1>2, <1>3, <1>4

LEMMA TurnsStep ==
  ASSUME NEW w, NEW overdue, NEW refused, NEW n \in Nat, n = Len(w.src.buffer.list)
  PROVE  /\ Turns(w, overdue, refused)[0] = w
         /\ \A k \in 1..n : Turns(w, overdue, refused)[k] =
                            Turn(Turns(w, overdue, refused)[k - 1], overdue, refused)
<1>1. PICK f : Goes(f, w, overdue, refused, n)
  BY GoesOn
<1>2. Turns(w, overdue, refused)
        = [k \in 0..n |-> IF k = 0 THEN w
                          ELSE Turn(Turns(w, overdue, refused)[k - 1], overdue, refused)]
  BY <1>1 DEF Turns, Goes
<1> QED BY <1>2

(* The loop keeps LoopGood, and ends when nothing is left to do. *)
LEMMA LoopKeeps ==
  ASSUME NEW w, NEW overdue, NEW refused, NEW v, v = DoGetNextFrame1(w, overdue, refused),
         NEW hand \in BOOLEAN, NEW base \in 0..SeqModulus - 1, NEW last,
         LoopGood(w, hand, base, last)
  PROVE  /\ LoopGood(v, hand, base, last) /\ SameSource(w.src, v.src)
         /\ w.doubt => v.doubt
         /\ Stable(v, overdue)
<1>1. PICK n, t : n = Len(w.src.buffer.list) /\ t = Turns(w, overdue, refused)
  OBVIOUS
<1>2. n \in Nat
  BY <1>1 DEF LoopGood, WorldType, SourceType, BufferType
<1>3. t[0] = w /\ \A k \in 1..n : t[k] = Turn(t[k - 1], overdue, refused)
  BY <1>1, <1>2, TurnsStep
<1> DEFINE Kept(k) == /\ LoopGood(t[k], hand, base, last) /\ SameSource(w.src, t[k].src)
                      /\ w.doubt => t[k].doubt
                      /\ Stable(t[k], overdue) \/ Len(t[k].src.buffer.list) <= n - k
<1>4. Kept(0)
  BY <1>1, <1>2, <1>3 DEF SameSource
<1>5. ASSUME NEW k \in 1..n, Kept(k - 1)
      PROVE  Kept(k)
  <2>1. PICK a, b : a = t[k - 1] /\ b = t[k]
    OBVIOUS
  <2>2. /\ LoopGood(a, hand, base, last) /\ SameSource(w.src, a.src)
        /\ w.doubt => a.doubt
        /\ Stable(a, overdue) \/ Len(a.src.buffer.list) <= n - (k - 1)
    BY <1>5, <2>1
  <2>3. b = Turn(a, overdue, refused)
    BY <1>3, <2>1
  <2>4. LoopGood(b, hand, base, last) /\ SameSource(a.src, b.src) /\ (a.doubt => b.doubt)
    BY <2>2, <2>3, TurnKeeps
  <2>5. SameSource(w.src, b.src)
    BY <2>2, <2>4 DEF SameSource
  <2>6. Stable(b, overdue) \/ Len(b.src.buffer.list) <= n - k
    <3>1. CASE Stable(a, overdue)
      <4>1. b = a
        BY <2>2, <2>3, <3>1, TurnKeeps
      <4> QED BY <3>1, <4>1
    <3>2. CASE ~Stable(a, overdue) /\ b.src.need
      <4>1. Len(b.src.buffer.list) = Len(a.src.buffer.list) - 1
        BY <2>2, <2>3, <3>2, TurnKeeps
      <4>2. Len(a.src.buffer.list) \in Nat
        BY <2>2 DEF LoopGood, WorldType, SourceType, BufferType
      <4>3. Len(a.src.buffer.list) <= n - (k - 1)
        BY <2>2, <3>2
      <4> QED BY ONLY <1>2, <4>1, <4>2, <4>3, k \in 1..n
    <3>3. CASE ~b.src.need
      BY <3>3 DEF Stable
    <3> QED BY <3>1, <3>2, <3>3
  <2> QED BY <2>1, <2>2, <2>4, <2>5, <2>6
<1> HIDE DEF Kept
<1>6. ASSUME NEW m \in 0..n
      PROVE  Kept(m)
  <2> DEFINE T == {k \in 0..n : ~Kept(k)}
  <2>1. SUFFICES ASSUME T # {} PROVE FALSE
    OBVIOUS
  <2>2. PICK k \in T : \A j \in T : k <= j
    <3>1. T \in SUBSET Nat
      BY <1>2
    <3> HIDE DEF T
    <3> QED BY <2>1, <3>1, LeastNatural
  <2>3. k \in 0..n /\ ~Kept(k) /\ k # 0
    BY <1>4, <2>2
  <2>4. k \in 1..n /\ k - 1 \in 0..n /\ ~(k <= k - 1)
    BY ONLY <1>2, <2>3
  <2>5. Kept(k - 1)
    BY <2>2, <2>4
  <2> QED BY <1>5, <2>3, <2>4, <2>5
<1>7. v = t[n]
  BY <1>1 DEF DoGetNextFrame1
<1>8. Kept(n)
  BY <1>2, <1>6
<1>9. /\ LoopGood(v, hand, base, last) /\ SameSource(w.src, v.src) /\ (w.doubt => v.doubt)
      /\ Stable(v, overdue) \/ Len(v.src.buffer.list) <= n - n
  BY <1>7, <1>8 DEF Kept
<1>10. ASSUME Len(v.src.buffer.list) <= n - n
       PROVE  Stable(v, overdue)
  <2>1. v.src.buffer.list \in Seq(StoredPacket)
    BY <1>9 DEF LoopGood, WorldType, SourceType, BufferType
  <2>2. Len(v.src.buffer.list) = 0
    <3>1. Len(v.src.buffer.list) \in Nat
      BY <2>1
    <3> QED BY ONLY <1>2, <1>10, <3>1
  <2>3. v.src.buffer.list = <<>>
    BY <2>1, <2>2, EmptySeq
  <2> QED BY <2>3 DEF Stable, HasNext
<1> QED BY <1>9, <1>10

(* doGetNextFrame1, as a handler ends with it. *)
LEMMA DeliverKeeps ==
  ASSUME NEW s, NEW d, Deliver(s, d), NEW snd, NEW packets,
         snd.base \in 0..SeqModulus - 1, SourceGood(snd, packets, s, given, d)
  PROVE  SourceGood(snd, packets, source', given', doubt') /\ NoneUsable(source')
<1>1. PICK last \in 1..(MaxPackets + 1) :
        /\ ~d /\ s.buffer.seen => Bounded(snd, packets, s, last)
        /\ LoopGood(World(s, given, d), InHand(s), Base(snd, s.ssrc), last)
  BY DEF SourceGood
<1>2. PICK w, hand, base : w = World(s, given, d) /\ hand = InHand(s) /\ base = Base(snd, s.ssrc)
  OBVIOUS
<1>3. w.src = s /\ w.given = given /\ w.doubt = d
  BY <1>2 DEF World
<1>4. s \in SourceType
  BY <1>1, <1>2, <1>3 DEF LoopGood, WorldType
<1>5. hand \in BOOLEAN
  BY <1>2, <1>4 DEF InHand, SourceType, Partly
<1>6. base \in 0..SeqModulus - 1
  BY <1>2, Sizes DEF Base
<1>7. PICK overdue, refused, v :
        /\ v = DoGetNextFrame1(w, overdue, refused)
        /\ source' = v.src /\ given' = v.given /\ doubt' = v.doubt
  BY <1>2 DEF Deliver, World
<1>8. LoopGood(w, hand, base, last)
  BY <1>1, <1>2
<1>9. /\ LoopGood(v, hand, base, last) /\ SameSource(w.src, v.src)
      /\ w.doubt => v.doubt
      /\ Stable(v, overdue)
  BY <1>5, <1>6, <1>7, <1>8, LoopKeeps
<1>10. PICK t, frames, e : t = v.src /\ frames = v.given /\ e = v.doubt
  OBVIOUS
<1>11. v = World(t, frames, e)
  BY <1>9, <1>10 DEF LoopGood, WorldType, World
<1>12. /\ t.ssrc = s.ssrc /\ t.partly = s.partly /\ t.buffer.seen = s.buffer.seen
  BY <1>3, <1>9, <1>10 DEF SameSource
<1>13. InHand(t) = hand /\ Base(snd, t.ssrc) = base
  BY <1>2, <1>12 DEF InHand
<1>14. PartlyGood(snd, packets, t)
  BY <1>12 DEF SourceGood, PartlyGood
<1>15. ~e /\ t.buffer.seen => Bounded(snd, packets, t, last)
  BY <1>1, <1>3, <1>9, <1>10, <1>12 DEF Bounded, Coming
<1>16. SourceGood(snd, packets, t, frames, e)
  BY <1>9, <1>11, <1>12, <1>13, <1>14, <1>15 DEF SourceGood
<1>17. NoneUsable(t)
  BY <1>9, <1>10 DEF Stable, HasNext, NoneUsable
<1> QED BY <1>7, <1>10, <1>16, <1>17

-----------------------------------------------------------------------------
(* A packet is stored.                                                     *)

(* A new head, or the old one, leaves what goes with packet x as it is. *)
LEMMA FollowedStored ==
  ASSUME NEW s, NEW t, NEW frames, NEW base, NEW x, NEW last, NEW new,
         Followed(s, frames, base, x, last),
         Placed(t.buffer.list, t.buffer.expected, base, x, new),
         s.buffer.list # <<>> /\ Head(s.buffer.list).n = x =>
           t.buffer.list # <<>> /\ Head(t.buffer.list) = Head(s.buffer.list),
         t.need = s.need, t.afterGetting = s.afterGetting, t.frame = s.frame,
         t.lossInFrame = s.lossInFrame
  PROVE  Followed(t, frames, base, x, new)
<1>1. PICK a, b : a = s.buffer.list /\ b = t.buffer.list
  OBVIOUS
<1>2. \A f : Passed(f, a, x) => Passed(f, b, x)
  BY <1>1 DEF Passed
<1>3. Begins(a, x) => Begins(b, x)
  BY <1>1 DEF Begins
<1>4. InSync(t, frames, x)
  BY <1>1, <1>3 DEF Followed, InSync
<1>5. Delivered(frames, b, x)
  BY <1>1, <1>2 DEF Followed, Delivered
<1>6. OnItsWay(t, frames, x)
  BY <1>1, <1>2 DEF Followed, OnItsWay
<1> QED BY <1>1, <1>4, <1>5, <1>6 DEF Followed

(* What Stored changes. *)
LEMMA StoredFields ==
  ASSUME NEW s \in SourceType, NEW p \in Packet, NEW saved \in BOOLEAN,
         NEW t, t = Stored(s, p, saved), NEW b, b = NoteSSRC(s, p).buffer,
         NEW q, q = [n |-> p.n, seq |-> p.seq, first |-> FALSE, uses |-> 0, saved |-> saved]
  PROVE  /\ q \in StoredPacket /\ b \in BufferType /\ t \in SourceType
         /\ t.buffer = StorePacket(b, q) /\ t.partly = NoPacket /\ t.ssrc = p.ssrc
         /\ t.need = s.need /\ t.awaiting = s.awaiting /\ t.afterGetting = s.afterGetting
         /\ t.frame = s.frame /\ t.lossInFrame = s.lossInFrame
         /\ b.list = s.buffer.list /\ b.saved = s.buffer.saved
         /\ b.expected = s.buffer.expected
         /\ p.ssrc = s.ssrc => b = s.buffer
         /\ p.ssrc # s.ssrc => ~b.seen
<1>1. q \in StoredPacket
  BY DEF Packet, StoredPacket
<1>2. p.ssrc \in {0, 1, 2}
  BY DEF Packet
<1>3. PICK r : r = NoteSSRC(s, p)
  OBVIOUS
<1>4. /\ r \in SourceType /\ b \in BufferType /\ r.buffer = b /\ r.ssrc = p.ssrc
      /\ r.need = s.need /\ r.awaiting = s.awaiting /\ r.afterGetting = s.afterGetting
      /\ r.frame = s.frame /\ r.lossInFrame = s.lossInFrame
      /\ b.list = s.buffer.list /\ b.saved = s.buffer.saved
      /\ b.expected = s.buffer.expected
      /\ p.ssrc = s.ssrc => b = s.buffer
      /\ p.ssrc # s.ssrc => ~b.seen
  <2>1. CASE p.ssrc = s.ssrc
    BY <1>3, <2>1 DEF NoteSSRC, SourceType
  <2>2. CASE p.ssrc # s.ssrc
    <3>1. PICK a : a = [s.buffer EXCEPT !.seen = FALSE]
      OBVIOUS
    <3>2. r = [s EXCEPT !.ssrc = p.ssrc, !.buffer = a]
      BY <1>3, <2>2, <3>1 DEF NoteSSRC, SourceType
    <3>3. /\ a \in BufferType /\ a.seen = FALSE /\ a.list = s.buffer.list
          /\ a.saved = s.buffer.saved /\ a.expected = s.buffer.expected
      BY <3>1 DEF SourceType, BufferType
    <3>4. r \in SourceType /\ r.buffer = a /\ r.ssrc = p.ssrc
      BY <1>2, <3>2, <3>3 DEF SourceType
    <3>5. /\ r.need = s.need /\ r.awaiting = s.awaiting /\ r.afterGetting = s.afterGetting
          /\ r.frame = s.frame /\ r.lossInFrame = s.lossInFrame
      BY <3>2 DEF SourceType
    <3>6. b = a
      BY <1>3, <3>4
    <3> QED BY <2>2, <3>3, <3>4, <3>5, <3>6
  <2> QED BY <2>1, <2>2
<1>5. PICK c : c = StorePacket(b, q)
  OBVIOUS
<1>6. c \in BufferType
  BY <1>1, <1>4, <1>5, StoreFields
<1>7. t = [r EXCEPT !.buffer = c, !.partly = NoPacket]
  BY <1>3, <1>4, <1>5 DEF Stored, SourceType
<1>8. /\ t \in SourceType /\ t.buffer = c /\ t.partly = NoPacket /\ t.ssrc = r.ssrc
      /\ t.need = r.need /\ t.awaiting = r.awaiting /\ t.afterGetting = r.afterGetting
      /\ t.frame = r.frame /\ t.lossInFrame = r.lossInFrame
  BY <1>4, <1>6, <1>7 DEF SourceType
<1> QED BY <1>1, <1>4, <1>5, <1>8

(* With nothing in the list, all that was given began before packet x. *)
LEMMA EmptyBehind ==
  ASSUME NEW s, NEW t, NEW frames \in Seq(Seq(Piece)), s.frame \in Seq(Piece),
         s.buffer.list = <<>>, NEW x \in Int, NEW y \in Int, x <= y,
         Delivered(frames, s.buffer.list, x), OnItsWay(s, frames, x),
         t.afterGetting = s.afterGetting, t.frame = s.frame
  PROVE  Delivered(frames, t.buffer.list, y) /\ OnItsWay(t, frames, y)
<1>1. ASSUME NEW f \in Seq(Piece), IsWhole(f), Passed(f, s.buffer.list, x)
      PROVE  Passed(f, t.buffer.list, y)
  <2>1. f[1][1] < x
    BY <1>1 DEF Passed
  <2>2. f # <<>>
    BY <1>1, WholeIsNotEmpty
  <2>3. f[1] \in Piece
    BY <2>2, EmptySeq
  <2>4. f[1][1] \in 1..MaxPackets
    BY <2>3 DEF Piece
  <2>5. f[1][1] < y
    BY <2>1, <2>4, Sizes
  <2> QED BY <2>5 DEF Passed
<1>2. Delivered(frames, t.buffer.list, y)
  <2>1. ASSUME frames # <<>>
        PROVE  Passed(frames[Len(frames)], t.buffer.list, y)
    <3>1. Len(frames) \in Nat /\ Len(frames) # 0
      BY <2>1, EmptySeq
    <3>2. Len(frames) \in 1..Len(frames)
      BY ONLY <3>1
    <3>3. frames[Len(frames)] \in Seq(Piece)
      BY <3>2, ElementOfSeq
    <3> QED BY <1>1, <2>1, <3>2, <3>3 DEF Delivered
  <2> QED BY <2>1 DEF Delivered
<1>3. OnItsWay(t, frames, y)
  BY <1>1 DEF OnItsWay
<1> QED BY <1>2, <1>3

(* A packet that was read goes to the buffer: what holds of it, and of the
   source before, is enough for what has to hold after. *)
StoredFrom(snd, packets, s, p, saved, frames, d, last) ==
  /\ s \in SourceType /\ p \in Packet /\ saved \in BOOLEAN
  /\ NetGood(snd, packets)
  /\ LoopGood(World(s, frames, d), saved, Base(snd, s.ssrc), last)
  /\ last \in 1..(MaxPackets + 1)
  /\ p.n <= snd.sent /\ p.seq = Number(Base(snd, p.ssrc), p.n)
  /\ p.ssrc <= snd.ssrc
  /\ \A q \in packets : q.ssrc # p.ssrc => p.n < q.n
  /\ ~d /\ s.buffer.seen => /\ last <= snd.sent + 1
                            /\ p.ssrc # s.ssrc => last <= p.n
                            /\ \A q \in packets : q.ssrc # s.ssrc => last <= q.n

(* The stream goes on with packet p, and x stays what is expected. *)
LEMMA StoredNext ==
  ASSUME NEW snd, NEW packets, NEW s, NEW p, NEW saved, NEW frames, NEW d, NEW last,
         StoredFrom(snd, packets, s, p, saved, frames, d, last),
         ~d, p.ssrc = s.ssrc, s.buffer.seen, NEW t, t = Stored(s, p, saved)
  PROVE  \E new \in 1..(MaxPackets + 1) :
           /\ Bounded(snd, packets, t, new)
           /\ \E x \in 1..new : Followed(t, frames, Base(snd, t.ssrc), x, new)
<1>1. PICK b, q : b = NoteSSRC(s, p).buffer
                  /\ q = [n |-> p.n, seq |-> p.seq, first |-> FALSE, uses |-> 0, saved |-> saved]
  OBVIOUS
<1>2. s \in SourceType /\ p \in Packet /\ saved \in BOOLEAN /\ last \in 1..(MaxPackets + 1)
  BY DEF StoredFrom
<1>3. /\ q \in StoredPacket /\ t.buffer = StorePacket(b, q) /\ t.partly = NoPacket
      /\ t.ssrc = p.ssrc /\ t.need = s.need /\ t.afterGetting = s.afterGetting
      /\ t.frame = s.frame /\ t.lossInFrame = s.lossInFrame /\ b = s.buffer
      /\ b \in BufferType
  BY <1>1, <1>2, StoredFields
<1>4. PICK base : base = Base(snd, s.ssrc)
  OBVIOUS
<1>5. snd.base \in 0..SeqModulus - 1 /\ snd.sent \in Nat /\ snd.ssrc \in {1, 2}
  BY Sizes DEF StoredFrom, NetGood
<1>6. base \in 0..SeqModulus - 1
  BY <1>4, <1>5, Sizes DEF Base
<1>7. \E x \in 1..last : Followed(s, frames, base, x, last)
  BY <1>4 DEF StoredFrom, LoopGood, World
<1>8. PICK x \in 1..last : Followed(s, frames, base, x, last)
  BY <1>7
<1>9. Placed(b.list, b.expected, base, x, last)
  BY <1>3, <1>8 DEF Followed
<1>10. q.uses = 0 /\ q.seq = Number(base, q.n) /\ q.n = p.n
  BY <1>1, <1>4 DEF StoredFrom
<1>11. /\ Placed(t.buffer.list, t.buffer.expected, base, x, Reach(last, q))
       /\ b.list # <<>> /\ Head(b.list).n = x =>
            t.buffer.list # <<>> /\ Head(t.buffer.list) = Head(b.list)
  <2>1. b.seen
    BY <1>3
  <2>2. PICK c : c = t.buffer
    OBVIOUS
  <2>3. c = StorePacket(b, q) /\ q \in StoredPacket /\ b \in BufferType
    BY <1>3, <2>2
  <2>4. Placed(c.list, c.expected, base, x, Reach(last, q))
    BY <1>6, <1>9, <1>10, <2>1, <2>3, StorePlaced
  <2>5. b.list # <<>> /\ Head(b.list).n = x => c.list # <<>> /\ Head(c.list) = Head(b.list)
    BY <1>6, <1>9, <1>10, <2>1, <2>3, StorePlaced
  <2> QED BY <2>2, <2>4, <2>5
<1>12. Followed(t, frames, base, x, Reach(last, q))
  <2>1. PICK new : new = Reach(last, q)
    OBVIOUS
  <2>2. Placed(t.buffer.list, t.buffer.expected, base, x, new)
    BY <1>11, <2>1
  <2>3. s.buffer.list # <<>> /\ Head(s.buffer.list).n = x =>
          t.buffer.list # <<>> /\ Head(t.buffer.list) = Head(s.buffer.list)
    BY <1>3, <1>11
  <2>4. t.need = s.need /\ t.afterGetting = s.afterGetting /\ t.frame = s.frame
        /\ t.lossInFrame = s.lossInFrame
    BY <1>3
  <2>5. Followed(t, frames, base, x, new)
    BY ONLY <1>8, <2>2, <2>3, <2>4, FollowedStored
  <2> QED BY <2>1, <2>5
<1>13. Reach(last, q) \in 1..(MaxPackets + 1) /\ x \in 1..Reach(last, q)
  BY <1>11 DEF Placed
<1>14. Bounded(snd, packets, t, Reach(last, q))
  <2>1. last <= snd.sent + 1 /\ p.n <= snd.sent /\ p.n \in 1..MaxPackets
    BY <1>2 DEF StoredFrom, Packet
  <2>2. Reach(last, q) <= snd.sent + 1
    BY <1>2, <1>5, <1>10, <2>1, Sizes DEF Reach
  <2>3. ASSUME NEW r \in Coming(packets, t), r.ssrc # t.ssrc
        PROVE  Reach(last, q) <= r.n
    <3>1. r \in packets
      BY <1>3, <2>3 DEF Coming
    <3>2. last <= r.n /\ p.n < r.n
      BY <1>3, <2>3, <3>1 DEF StoredFrom
    <3>3. r.n \in 1..MaxPackets
      BY <3>1 DEF StoredFrom, NetGood, Packet
    <3> QED BY <1>2, <1>10, <2>1, <3>2, <3>3, Sizes DEF Reach
  <2> QED BY <2>2, <2>3 DEF Bounded
<1>15. Base(snd, t.ssrc) = base
  BY <1>3, <1>4
<1>16. PICK new : new = Reach(last, q)
  OBVIOUS
<1>17. \E y \in 1..new : Followed(t, frames, Base(snd, t.ssrc), y, new)
  BY <1>12, <1>13, <1>15, <1>16
<1> QED BY <1>13, <1>14, <1>16, <1>17

(* Packet p is the first of its stream, or the stream was reset with nothing
   in the list. *)
LEMMA StoredFirst ==
  ASSUME NEW snd, NEW packets, NEW s, NEW p, NEW saved, NEW frames, NEW d, NEW last,
         StoredFrom(snd, packets, s, p, saved, frames, d, last),
         ~d, p.ssrc # s.ssrc => s.buffer.list = <<>>, ~(p.ssrc = s.ssrc /\ s.buffer.seen),
         NEW t, t = Stored(s, p, saved)
  PROVE  \E new \in 1..(MaxPackets + 1) :
           /\ Bounded(snd, packets, t, new)
           /\ \E x \in 1..new : Followed(t, frames, Base(snd, t.ssrc), x, new)
<1>1. PICK b, q : b = NoteSSRC(s, p).buffer
                  /\ q = [n |-> p.n, seq |-> p.seq, first |-> FALSE, uses |-> 0, saved |-> saved]
  OBVIOUS
<1>2. s \in SourceType /\ p \in Packet /\ saved \in BOOLEAN /\ last \in 1..(MaxPackets + 1)
  BY DEF StoredFrom
<1>3. /\ q \in StoredPacket /\ t.buffer = StorePacket(b, q) /\ t.partly = NoPacket
      /\ t.ssrc = p.ssrc /\ t.need = s.need /\ t.afterGetting = s.afterGetting
      /\ t.frame = s.frame /\ t.lossInFrame = s.lossInFrame /\ b.list = s.buffer.list
      /\ b \in BufferType
      /\ p.ssrc = s.ssrc => b = s.buffer
      /\ p.ssrc # s.ssrc => ~b.seen
  BY <1>1, <1>2, StoredFields
<1>4. /\ frames \in Seq(Seq(Piece)) /\ s.frame \in Seq(Piece)
      /\ ~s.buffer.seen => s.buffer.list = <<>> /\ frames = <<>> /\ ~s.afterGetting
  BY DEF StoredFrom, LoopGood, World, WorldType, SourceType
<1>5. s.buffer.list = <<>> /\ ~b.seen
  BY <1>3, <1>4
<1>6. PICK base, n : base = Base(snd, p.ssrc) /\ n = p.n
  OBVIOUS
<1>7. snd.base \in 0..SeqModulus - 1 /\ snd.sent \in Nat /\ n \in 1..MaxPackets /\ n <= snd.sent
  BY <1>2, <1>6, Sizes DEF StoredFrom, NetGood, Packet
<1>8. base \in 0..SeqModulus - 1
  BY <1>6, <1>7, Sizes DEF Base
<1>9. q.uses = 0 /\ q.seq = Number(base, q.n) /\ q.n = n
  BY <1>1, <1>6 DEF StoredFrom
<1>10. Placed(t.buffer.list, t.buffer.expected, base, n, n + 1) /\ Begins(t.buffer.list, n)
  BY <1>3, <1>5, <1>8, <1>9, StoreFirst
<1>11. InSync(t, frames, n)
  BY <1>10 DEF InSync
<1>12. Delivered(frames, t.buffer.list, n) /\ OnItsWay(t, frames, n)
  <2>1. CASE ~s.buffer.seen
    <3>1. frames = <<>> /\ ~t.afterGetting
      BY <1>3, <1>4, <2>1
    <3>2. Len(frames) = 0
      BY <3>1
    <3> QED BY <3>1, <3>2 DEF Delivered, OnItsWay
  <2>2. CASE s.buffer.seen
    <3>1. last <= n
      BY <1>6, <2>2 DEF StoredFrom
    <3>2. PICK x \in 1..last : Followed(s, frames, Base(snd, s.ssrc), x, last)
      BY <2>2 DEF StoredFrom, LoopGood, World
    <3>3. x \in Int /\ n \in Int /\ x <= n
      BY ONLY <1>2, <1>7, <3>1, x \in 1..last, Sizes
    <3>4. Delivered(frames, s.buffer.list, x) /\ OnItsWay(s, frames, x)
      BY <3>2 DEF Followed
    <3> QED BY <1>3, <1>4, <1>5, <3>3, <3>4, EmptyBehind
  <2> QED BY <2>1, <2>2
<1>13. PICK new : new = n + 1
  OBVIOUS
<1>14. new \in 1..(MaxPackets + 1) /\ n \in 1..new /\ new <= snd.sent + 1
  BY ONLY <1>7, <1>13, Sizes
<1>15. \E x \in 1..new : Followed(t, frames, Base(snd, t.ssrc), x, new)
  <2>1. Followed(t, frames, base, n, new)
    BY <1>10, <1>11, <1>12, <1>13 DEF Followed
  <2> QED BY <1>3, <1>6, <1>14, <2>1
<1>16. Bounded(snd, packets, t, new)
  <2>1. ASSUME NEW r \in Coming(packets, t), r.ssrc # t.ssrc
        PROVE  new <= r.n
    <3>1. r \in packets
      BY <1>3, <2>1 DEF Coming
    <3>2. n < r.n
      BY <1>3, <1>6, <2>1, <3>1 DEF StoredFrom
    <3>3. r.n \in 1..MaxPackets
      BY <3>1 DEF StoredFrom, NetGood, Packet
    <3> QED BY <1>7, <1>13, <3>2, <3>3, Sizes
  <2> QED BY <1>14, <2>1 DEF Bounded
<1> QED BY <1>14, <1>15, <1>16

(* Storing a packet keeps what holds between two turns of the loop. *)
LEMMA StoredGood ==
  ASSUME NEW snd, NEW packets, NEW s, NEW p, NEW saved, NEW frames, NEW d, NEW last,
         StoredFrom(snd, packets, s, p, saved, frames, d, last),
         NEW t, t = Stored(s, p, saved), NEW e \in BOOLEAN, e <=> d \/ MixesStreams(s, p)
  PROVE  SourceGood(snd, packets, t, frames, e)
<1>1. PICK b, q : b = NoteSSRC(s, p).buffer
                  /\ q = [n |-> p.n, seq |-> p.seq, first |-> FALSE, uses |-> 0, saved |-> saved]
  OBVIOUS
<1>2. s \in SourceType /\ p \in Packet /\ saved \in BOOLEAN /\ last \in 1..(MaxPackets + 1)
  BY DEF StoredFrom
<1>3. /\ q \in StoredPacket /\ b \in BufferType /\ t \in SourceType
      /\ t.buffer = StorePacket(b, q) /\ t.partly = NoPacket
      /\ t.ssrc = p.ssrc /\ t.need = s.need /\ t.awaiting = s.awaiting
      /\ t.afterGetting = s.afterGetting
      /\ b.list = s.buffer.list /\ b.saved = s.buffer.saved
  BY <1>1, <1>2, StoredFields
<1>4. q.uses = 0 /\ q.saved = saved
  BY <1>1
<1>5. /\ frames \in Seq(Seq(Piece)) /\ Usable(s.buffer.list)
      /\ SavedOnce(s.buffer.list, s.buffer.saved, saved)
      /\ s.awaiting <=> s.need \/ s.afterGetting
      /\ ~(s.need /\ s.afterGetting)
  BY DEF StoredFrom, LoopGood, World, WorldType
<1>6. Usable(t.buffer.list)
  BY <1>3, <1>4, <1>5, StoreUsable
<1>7. SavedOnce(t.buffer.list, t.buffer.saved, FALSE)
  BY <1>3, <1>4, <1>5, StoreSaved
<1>8. t.buffer.seen
  BY <1>3, StoreFields
<1>9. PICK base : base = Base(snd, t.ssrc)
  OBVIOUS
<1>10. ASSUME NEW new \in 1..(MaxPackets + 1),
              ~e => /\ Bounded(snd, packets, t, new)
                    /\ \E x \in 1..new : Followed(t, frames, base, x, new)
       PROVE  SourceGood(snd, packets, t, frames, e)
  <2>1. PICK w : w = World(t, frames, e)
    OBVIOUS
  <2>2. w \in WorldType /\ w.src = t /\ w.given = frames /\ w.doubt = e
    BY <1>3, <1>5, <2>1 DEF World, WorldType
  <2>3. t.awaiting <=> t.need \/ t.afterGetting
    BY <1>3, <1>5
  <2>4. ~(t.need /\ t.afterGetting)
    BY <1>3, <1>5
  <2>5. LoopGood(w, FALSE, base, new)
    BY <1>6, <1>7, <1>8, <1>10, <2>2, <2>3, <2>4 DEF LoopGood
  <2>6. ~InHand(t)
    BY <1>3 DEF InHand
  <2>7. LoopGood(w, InHand(t), base, new)
    BY <1>3, <2>5, <2>6 DEF InHand
  <2>8. PartlyGood(snd, packets, t)
    BY <1>3 DEF PartlyGood
  <2>9. t.ssrc <= snd.ssrc /\ t.ssrc # 0
    BY <1>2, <1>3 DEF StoredFrom, Packet
  <2> QED BY <1>9, <1>10, <2>1, <2>7, <2>8, <2>9 DEF SourceGood
<1>11. CASE e
  BY <1>2, <1>10, <1>11
<1>12. CASE ~e
  <2>1. ~d /\ (p.ssrc # s.ssrc => s.buffer.list = <<>>)
    BY <1>12 DEF MixesStreams
  <2>2. PICK new \in 1..(MaxPackets + 1) :
          /\ Bounded(snd, packets, t, new)
          /\ \E x \in 1..new : Followed(t, frames, Base(snd, t.ssrc), x, new)
    <3>1. CASE p.ssrc = s.ssrc /\ s.buffer.seen
      BY <2>1, <3>1, StoredNext
    <3>2. CASE ~(p.ssrc = s.ssrc /\ s.buffer.seen)
      BY <2>1, <3>2, StoredFirst
    <3> QED BY <3>1, <3>2
  <2> QED BY <1>9, <1>10, <2>2
<1> QED BY <1>11, <1>12

-----------------------------------------------------------------------------
(* The actions.                                                            *)

(* What SourceGood says of the types. *)
LEMMA GoodTypes ==
  ASSUME NEW snd, NEW packets, NEW s, NEW frames, NEW d, SourceGood(snd, packets, s, frames, d)
  PROVE  s \in SourceType /\ frames \in Seq(Seq(Piece)) /\ d \in BOOLEAN
BY DEF SourceGood, LoopGood, World, WorldType

(* Other packets may come, of a stream that is the same for the source. *)
LEMMA GoodElsewhere ==
  ASSUME NEW snd, NEW packets, NEW s, NEW frames, NEW d, SourceGood(snd, packets, s, frames, d),
         NEW other, NEW more, PartlyGood(other, more, s), s.ssrc <= other.ssrc,
         Base(other, s.ssrc) = Base(snd, s.ssrc),
         \A last \in 1..(MaxPackets + 1) :
           Bounded(snd, packets, s, last) => Bounded(other, more, s, last)
  PROVE  SourceGood(other, more, s, frames, d)
BY DEF SourceGood

LEMMA FewerPackets ==
  ASSUME NEW snd, NEW packets, NEW s, NEW frames, NEW d, SourceGood(snd, packets, s, frames, d),
         NetGood(snd, packets), NEW fewer, fewer \subseteq packets
  PROVE  NetGood(snd, fewer) /\ SourceGood(snd, fewer, s, frames, d)
<1>1. NetGood(snd, fewer)
  BY DEF NetGood
<1>2. PartlyGood(snd, fewer, s)
  BY DEF SourceGood, PartlyGood
<1>3. Coming(fewer, s) \subseteq Coming(packets, s)
  BY DEF Coming
<1>4. \A last \in 1..(MaxPackets + 1) :
        Bounded(snd, packets, s, last) => Bounded(snd, fewer, s, last)
  BY <1>3 DEF Bounded
<1>5. s.ssrc <= snd.ssrc
  BY DEF SourceGood
<1> QED BY <1>1, <1>2, <1>4, <1>5, GoodElsewhere

LEMMA LosePacketKeeps ==
  ASSUME IInv, LosePacket
  PROVE  IInv'
<1>1. NetGood(sender', net') /\ SourceGood(sender', net', source', given', doubt')
  BY FewerPackets DEF IInv, LosePacket
<1>2. NoneUsable(source')
  BY DEF IInv, LosePacket
<1> QED BY <1>1, <1>2 DEF IInv, LosePacket

LEMMA SendPacketKeeps ==
  ASSUME IInv, SendPacket
  PROVE  IInv'
<1>1. PICK snd, packets, p, other :
        /\ snd = sender /\ packets = net
        /\ p = [n |-> sender.sent + 1, ssrc |-> sender.ssrc,
                seq |-> (sender.base + sender.sent + 1) % SeqModulus]
        /\ other = [sender EXCEPT !.sent = @ + 1]
  OBVIOUS
<1>2. NetGood(snd, packets) /\ SourceGood(snd, packets, source, given, doubt)
  BY <1>1 DEF IInv
<1>3. PICK m, n, base : m = SeqModulus /\ n = snd.sent + 1 /\ base = snd.base
  OBVIOUS
<1>4. /\ snd.sent \in Nat /\ snd.sent < MaxPackets /\ snd.ssrc \in {1, 2}
      /\ base \in 0..(m - 1) /\ m \in Nat /\ m > 0 /\ MaxPackets \in Nat
      /\ snd.ssrc = 1 => base = m - 3
  BY <1>1, <1>2, <1>3, Sizes DEF NetGood, SendPacket
<1>5. n \in 1..MaxPackets /\ n \in 0..MaxPackets + 4
  BY ONLY <1>3, <1>4
<1>6. other.sent = n /\ other.ssrc = snd.ssrc /\ other.base = base
      /\ other \in [sent : 0..MaxPackets + 4, ssrc : {1, 2}, base : 0..SeqModulus - 1]
  BY <1>1, <1>2, <1>3, <1>4, <1>5 DEF NetGood
<1>7. \A i : Base(other, i) = Base(snd, i)
  BY <1>3, <1>6 DEF Base
<1>8. p.n = n /\ p.ssrc = snd.ssrc /\ p.seq = Number(Base(other, p.ssrc), p.n) /\ p \in Packet
  <2>1. p.n = n /\ p.ssrc = snd.ssrc /\ p.seq = (snd.base + snd.sent + 1) % m
    BY <1>1, <1>3
  <2>2. snd.base + snd.sent + 1 = base + n
    BY <1>3, <1>4
  <2>3. p.seq = Number(base, n)
    BY <1>3, <2>1, <2>2 DEF Number
  <2>4. Base(other, p.ssrc) = base
    BY <1>3, <1>4, <1>7, <2>1 DEF Base
  <2>5. n \in 0..(MaxPackets + 1)
    BY ONLY <1>4, <1>5
  <2>6. p.seq \in 0..SeqModulus - 1
    BY <1>3, <1>4, <2>3, <2>5, NumberIs
  <2>7. p = [n |-> n, ssrc |-> snd.ssrc, seq |-> p.seq]
    BY <1>1, <1>3
  <2> QED BY <1>4, <1>5, <2>1, <2>3, <2>4, <2>6, <2>7 DEF Packet
<1>9. PICK more : more = packets \cup {p}
  OBVIOUS
<1>10. NetGood(other, more)
  <2>1. other.ssrc = 1 => other.base = SeqModulus - 3 /\ other.sent <= MaxPackets
    BY <1>3, <1>4, <1>5, <1>6
  <2>2. more \subseteq Packet
    BY <1>2, <1>8, <1>9 DEF NetGood
  <2>3. ASSUME NEW q \in more
        PROVE  q.ssrc = other.ssrc /\ q.n <= other.sent /\ q.seq = Number(Base(other, q.ssrc), q.n)
    <3>1. CASE q = p
      BY <1>5, <1>6, <1>8, <3>1
    <3>2. CASE q \in packets
      <4>1. q.ssrc = snd.ssrc /\ q.n <= snd.sent /\ q.seq = Number(Base(snd, q.ssrc), q.n)
        BY <1>2, <3>2 DEF NetGood
      <4>2. q.n \in 1..MaxPackets
        BY <2>2 DEF Packet
      <4>3. q.n <= n
        BY ONLY <1>3, <1>4, <4>1, <4>2
      <4> QED BY <1>6, <1>7, <4>1, <4>3
    <3> QED BY <1>9, <3>1, <3>2
  <2> QED BY <1>6, <2>1, <2>2, <2>3 DEF NetGood
<1>11. PICK s : s = source
  OBVIOUS
<1>12. s \in SourceType /\ PartlyGood(snd, packets, s) /\ s.ssrc <= snd.ssrc
  BY <1>2, <1>11, GoodTypes DEF SourceGood
<1>13. PartlyGood(other, more, s)
  <2>1. ASSUME s.partly # NoPacket
        PROVE  LET q == s.partly.packet
               IN /\ q.n <= other.sent /\ q.seq = Number(Base(other, q.ssrc), q.n)
                  /\ s.ssrc <= q.ssrc /\ q.ssrc <= other.ssrc
                  /\ q.ssrc # other.ssrc => \A r \in more : q.n < r.n
    <3>1. PICK q : q = s.partly.packet
      OBVIOUS
    <3>2. q.n \in 1..MaxPackets
      BY <1>12, <2>1, <3>1 DEF SourceType, Partly, Packet
    <3>3. /\ q.n <= snd.sent /\ q.seq = Number(Base(snd, q.ssrc), q.n)
          /\ s.ssrc <= q.ssrc /\ q.ssrc <= snd.ssrc
          /\ q.ssrc # snd.ssrc => \A r \in packets : q.n < r.n
      BY <1>12, <2>1, <3>1 DEF PartlyGood
    <3>4. q.n <= n /\ q.n < n
      BY ONLY <1>3, <1>4, <3>2, <3>3
    <3>5. q.ssrc # other.ssrc => \A r \in more : q.n < r.n
      BY <1>6, <1>8, <1>9, <3>3, <3>4
    <3> QED BY <1>6, <1>7, <3>1, <3>3, <3>4, <3>5
  <2> QED BY <2>1 DEF PartlyGood
<1>14. ASSUME NEW last \in 1..(MaxPackets + 1), Bounded(snd, packets, s, last)
       PROVE  Bounded(other, more, s, last)
  <2>1. last <= snd.sent + 1
    BY <1>14 DEF Bounded
  <2>2. last <= other.sent + 1 /\ last <= p.n
    BY <1>3, <1>4, <1>6, <1>8, <2>1
  <2>3. ASSUME NEW q \in Coming(more, s), q.ssrc # s.ssrc
        PROVE  last <= q.n
    <3>1. q = p \/ q \in Coming(packets, s)
      BY <1>9 DEF Coming
    <3> QED BY <1>14, <2>2, <2>3, <3>1 DEF Bounded
  <2> QED BY <2>2, <2>3 DEF Bounded
<1>15. SourceGood(other, more, s, given, doubt)
  BY <1>2, <1>6, <1>7, <1>11, <1>12, <1>13, <1>14, GoodElsewhere
<1>16. sender' = other /\ net' = more
  BY <1>1, <1>9 DEF SendPacket
<1> QED BY <1>10, <1>11, <1>15, <1>16 DEF IInv, SendPacket

LEMMA RestartSenderKeeps ==
  ASSUME IInv, RestartSender
  PROVE  IInv'
<1>1. PICK snd, s : snd = sender /\ s = source
  OBVIOUS
<1>2. /\ NetGood(snd, {}) /\ SourceGood(snd, {}, s, given, doubt) /\ snd.ssrc = 1
      /\ net' = {} /\ source' = s /\ given' = given /\ doubt' = doubt /\ tcp' = tcp
  BY <1>1 DEF IInv, RestartSender
<1>3. PICK jump \in -MaxJump..MaxJump, skip \in 1..4 :
        sender' = [sent |-> snd.sent + skip, ssrc |-> 2,
                   base |-> (snd.base + SeqModulus + jump) % SeqModulus]
  BY <1>1 DEF RestartSender
<1>4. PICK other : other = sender'
  OBVIOUS
<1>5. snd.sent \in Nat /\ snd.sent <= MaxPackets /\ snd.base \in 0..SeqModulus - 1
  BY <1>2, Sizes DEF NetGood
<1>6. (snd.base + SeqModulus + jump) % SeqModulus \in 0..SeqModulus - 1
  <2>1. PICK m, k : m = SeqModulus /\ k = snd.base + SeqModulus + jump
    OBVIOUS
  <2>2. m \in Nat /\ m > 0 /\ k \in Int
    BY <1>5, <2>1, Sizes, BoundsAssumption
  <2>3. k % m \in 0..m - 1
    BY ONLY <2>2
  <2> QED BY <2>1, <2>3
<1>7. other.sent = snd.sent + skip /\ other.ssrc = 2 /\ other.base \in 0..SeqModulus - 1
  BY <1>3, <1>4, <1>6
<1>8. snd.sent + skip \in 0..MaxPackets + 4
  BY <1>5, Sizes
<1>9. NetGood(other, {})
  BY <1>3, <1>4, <1>6, <1>7, <1>8 DEF NetGood
<1>10. s \in SourceType /\ PartlyGood(snd, {}, s) /\ s.ssrc <= 1
  BY <1>2, GoodTypes DEF SourceGood
<1>11. s.ssrc # 2 /\ s.ssrc <= other.ssrc
  BY <1>7, <1>10 DEF SourceType
<1>12. Base(other, s.ssrc) = Base(snd, s.ssrc)
  BY <1>11 DEF Base
<1>13. PartlyGood(other, {}, s)
  <2>1. ASSUME s.partly # NoPacket
        PROVE  LET q == s.partly.packet
               IN /\ q.n <= other.sent /\ q.seq = Number(Base(other, q.ssrc), q.n)
                  /\ s.ssrc <= q.ssrc /\ q.ssrc <= other.ssrc
                  /\ q.ssrc # other.ssrc => \A r \in {} : q.n < r.n
    <3>1. PICK q : q = s.partly.packet
      OBVIOUS
    <3>2. q.n \in 1..MaxPackets /\ q.ssrc \in {1, 2}
      BY <1>10, <2>1, <3>1 DEF SourceType, Partly, Packet
    <3>3. /\ q.n <= snd.sent /\ q.seq = Number(Base(snd, q.ssrc), q.n)
          /\ s.ssrc <= q.ssrc /\ q.ssrc <= 1
      BY <1>2, <1>10, <2>1, <3>1 DEF PartlyGood
    <3>4. q.ssrc = 1 /\ q.ssrc <= other.ssrc
      BY <1>7, <3>2, <3>3
    <3>5. Base(other, q.ssrc) = Base(snd, q.ssrc)
      BY <3>4 DEF Base
    <3>6. q.n <= other.sent
      BY <1>5, <1>7, <3>2, <3>3, Sizes
    <3> QED BY <3>1, <3>3, <3>4, <3>5, <3>6
  <2> QED BY <2>1 DEF PartlyGood
<1>14. ASSUME NEW last \in 1..(MaxPackets + 1), Bounded(snd, {}, s, last)
       PROVE  Bounded(other, {}, s, last)
  <2>1. last <= other.sent + 1
    BY <1>5, <1>7, <1>14, Sizes DEF Bounded
  <2> QED BY <1>14, <2>1 DEF Bounded
<1>15. SourceGood(other, {}, s, given, doubt)
  BY <1>2, <1>11, <1>12, <1>13, <1>14, GoodElsewhere
<1>16. NoneUsable(s) /\ tcp \in BOOLEAN
  BY <1>1 DEF IInv
<1> QED BY <1>2, <1>4, <1>9, <1>15, <1>16 DEF IInv

(* Other members of the source may change. *)
LEMMA OtherMembers ==
  ASSUME NEW s, NEW frames, NEW d, NEW hand, NEW base, NEW last,
         LoopGood(World(s, frames, d), hand, base, last),
         NEW t \in SourceType, NEW other, SavedOnce(t.buffer.list, t.buffer.saved, other),
         t.buffer.list = s.buffer.list, t.buffer.seen = s.buffer.seen,
         t.buffer.expected = s.buffer.expected,
         t.need = s.need, t.awaiting = s.awaiting, t.afterGetting = s.afterGetting,
         t.frame = s.frame, t.lossInFrame = s.lossInFrame
  PROVE  LoopGood(World(t, frames, d), other, base, last)
<1>1. PICK v, w : v = World(s, frames, d) /\ w = World(t, frames, d)
  OBVIOUS
<1>2. /\ v.src = s /\ v.given = frames /\ v.doubt = d
      /\ w.src = t /\ w.given = frames /\ w.doubt = d
  BY <1>1 DEF World
<1>3. /\ frames \in Seq(Seq(Piece)) /\ d \in BOOLEAN /\ Usable(s.buffer.list)
      /\ ~s.buffer.seen => s.buffer.list = <<>> /\ frames = <<>> /\ ~s.afterGetting
      /\ ~d /\ s.buffer.seen => \E x \in 1..last : Followed(s, frames, base, x, last)
  BY <1>1, <1>2 DEF LoopGood, WorldType
<1>4. (s.awaiting <=> s.need \/ s.afterGetting) /\ ~(s.need /\ s.afterGetting)
  BY <1>1, <1>2 DEF LoopGood
<1>5. w \in WorldType
  BY <1>1, <1>3 DEF World, WorldType
<1>6. Usable(t.buffer.list)
  BY <1>3
<1>7. ~t.buffer.seen => t.buffer.list = <<>> /\ frames = <<>> /\ ~t.afterGetting
  BY <1>3
<1>8. (t.awaiting <=> t.need \/ t.afterGetting) /\ ~(t.need /\ t.afterGetting)
  BY <1>4
<1>9. ASSUME ~d, t.buffer.seen
      PROVE  \E x \in 1..last : Followed(t, frames, base, x, last)
  <2>1. PICK x \in 1..last : Followed(s, frames, base, x, last)
    BY <1>3, <1>9
  <2>2. Placed(t.buffer.list, t.buffer.expected, base, x, last)
    BY <2>1 DEF Followed
  <2>3. Followed(t, frames, base, x, last)
    BY <2>1, <2>2, FollowedStored
  <2> QED BY <2>3
<1>10. LoopGood(w, other, base, last)
  BY <1>2, <1>5, <1>6, <1>7, <1>8, <1>9 DEF LoopGood
<1> QED BY <1>1, <1>10

(* getFreePacket, and the packet being read into. *)
LEMMA GetFreeSaved ==
  ASSUME NEW b \in BufferType, SavedOnce(b.list, b.saved, FALSE), NEW c, c = AfterGetFree(b)
  PROVE  /\ GetsSavedPacket(b) \in BOOLEAN /\ c \in BufferType
         /\ c.list = b.list /\ c.seen = b.seen /\ c.expected = b.expected
         /\ SavedOnce(c.list, c.saved, GetsSavedPacket(b))
<1>1. PICK list, saved, hand : list = b.list /\ saved = b.saved /\ hand = GetsSavedPacket(b)
  OBVIOUS
<1>2. hand \in BOOLEAN /\ (hand <=> saved # "used")
  BY <1>1 DEF GetsSavedPacket
<1>3. c \in BufferType /\ c.list = list /\ c.seen = b.seen /\ c.expected = b.expected
      /\ c.saved = "used"
  BY <1>1 DEF AfterGetFree, BufferType
<1>4. SavedOnce(list, "used", hand)
  <2>1. SavedOnce(list, saved, FALSE)
    BY <1>1
  <2> QED BY <1>2, <2>1 DEF SavedOnce
<1> QED BY <1>1, <1>2, <1>3, <1>4

(* A packet that is read at once. *)
LEMMA ReadFrom ==
  ASSUME NEW snd, NEW packets, NEW s, NEW frames, NEW d, NetGood(snd, packets),
         SourceGood(snd, packets, s, frames, d), s.partly = NoPacket, NEW p \in packets,
         NEW c, c = AfterGetFree(s.buffer), NEW t, t = [s EXCEPT !.buffer = c]
  PROVE  \E last : StoredFrom(snd, packets, t, p, GetsSavedPacket(s.buffer), frames, d, last)
<1>1. PICK last \in 1..(MaxPackets + 1) :
        /\ ~d /\ s.buffer.seen => Bounded(snd, packets, s, last)
        /\ LoopGood(World(s, frames, d), InHand(s), Base(snd, s.ssrc), last)
  BY DEF SourceGood
<1>2. PICK base, hand : base = Base(snd, s.ssrc) /\ hand = GetsSavedPacket(s.buffer)
  OBVIOUS
<1>3. s \in SourceType /\ s.buffer \in BufferType
  BY GoodTypes DEF SourceType
<1>4. SavedOnce(s.buffer.list, s.buffer.saved, FALSE)
  BY <1>1 DEF InHand, LoopGood, World
<1>5. /\ hand \in BOOLEAN /\ c \in BufferType
      /\ c.list = s.buffer.list /\ c.seen = s.buffer.seen /\ c.expected = s.buffer.expected
      /\ SavedOnce(c.list, c.saved, hand)
  BY <1>2, <1>3, <1>4, GetFreeSaved
<1>6. t \in SourceType
  BY <1>3, <1>5 DEF SourceType
<1>7. /\ t.buffer = c /\ t.need = s.need /\ t.awaiting = s.awaiting
      /\ t.afterGetting = s.afterGetting /\ t.frame = s.frame
      /\ t.lossInFrame = s.lossInFrame /\ t.ssrc = s.ssrc
  BY <1>3, SourceFields
<1>8. LoopGood(World(t, frames, d), hand, base, last)
  <2>1. SavedOnce(t.buffer.list, t.buffer.saved, hand)
    BY <1>5, <1>7
  <2>2. t.buffer.list = s.buffer.list /\ t.buffer.seen = s.buffer.seen
        /\ t.buffer.expected = s.buffer.expected
    BY <1>5, <1>7
  <2>3. LoopGood(World(s, frames, d), InHand(s), base, last)
    BY <1>1, <1>2
  <2> QED BY <1>6, <1>7, <2>1, <2>2, <2>3, OtherMembers
<1>9. /\ p \in Packet /\ p.n <= snd.sent /\ p.seq = Number(Base(snd, p.ssrc), p.n)
      /\ p.ssrc = snd.ssrc /\ \A q \in packets : q.ssrc = snd.ssrc
  BY DEF NetGood
<1>10. p.ssrc <= snd.ssrc
  BY <1>9 DEF NetGood
<1>11. ASSUME ~d, t.buffer.seen
       PROVE  /\ last <= snd.sent + 1
              /\ p.ssrc # t.ssrc => last <= p.n
              /\ \A q \in packets : q.ssrc # t.ssrc => last <= q.n
  BY <1>1, <1>5, <1>7, <1>11 DEF Bounded, Coming
<1>12. StoredFrom(snd, packets, t, p, hand, frames, d, last)
  BY <1>2, <1>5, <1>6, <1>7, <1>8, <1>9, <1>10, <1>11 DEF StoredFrom
<1> QED BY <1>2, <1>12

LEMMA ReadPacketKeeps ==
  ASSUME IInv, ReadPacket
  PROVE  IInv'
<1>1. PICK snd, packets, s, d : snd = sender /\ packets = net /\ s = source /\ d = doubt
  OBVIOUS
<1>2. /\ NetGood(snd, packets) /\ SourceGood(snd, packets, s, given, d)
      /\ s.partly = NoPacket
  BY <1>1 DEF IInv, ReadPacket
<1>3. s \in SourceType /\ d \in BOOLEAN
  BY <1>2, GoodTypes
<1>4. PICK p \in packets :
        /\ \E rest \in {packets, packets \ {p}} : net' = rest
        /\ Deliver(Stored([source EXCEPT !.buffer = AfterGetFree(@)], p,
                          GetsSavedPacket(source.buffer)),
                   doubt \/ MixesStreams(source, p))
  BY <1>1 DEF ReadPacket
<1>5. PICK c, t, u, e : /\ c = AfterGetFree(s.buffer) /\ t = [s EXCEPT !.buffer = c]
                        /\ u = Stored(t, p, GetsSavedPacket(s.buffer))
                        /\ e = (doubt \/ MixesStreams(source, p))
  OBVIOUS
<1>6. Deliver(u, e)
  <2>1. [source EXCEPT !.buffer = AfterGetFree(@)] = t
    BY <1>1, <1>3, <1>5 DEF SourceType
  <2> QED BY <1>1, <1>4, <1>5, <2>1, Zenon
<1>7. e \in BOOLEAN /\ (e <=> d \/ MixesStreams(s, p))
  BY <1>1, <1>5, Zenon
<1>8. PICK last : StoredFrom(snd, packets, t, p, GetsSavedPacket(s.buffer), given, d, last)
  BY <1>2, <1>5, ReadFrom
<1>9. MixesStreams(s, p) <=> MixesStreams(t, p)
  <2>1. t.buffer = c /\ t.ssrc = s.ssrc
    BY <1>3, <1>5, SourceFields
  <2>2. c.list = s.buffer.list
    BY <1>3, <1>5 DEF AfterGetFree, SourceType, BufferType
  <2> QED BY <2>1, <2>2 DEF MixesStreams
<1>10. SourceGood(snd, packets, u, given, e)
  <2>1. PICK saved, frames : saved = GetsSavedPacket(s.buffer) /\ frames = given
    OBVIOUS
  <2>2. StoredFrom(snd, packets, t, p, saved, frames, d, last) /\ u = Stored(t, p, saved)
    BY <1>5, <1>8, <2>1
  <2>3. e \in BOOLEAN /\ (e <=> d \/ MixesStreams(t, p))
    BY <1>7, <1>9, Zenon
  <2>4. SourceGood(snd, packets, u, frames, e)
    BY ONLY <2>2, <2>3, StoredGood
  <2> QED BY <2>1, <2>4
<1>11. SourceGood(snd, packets, source', given', doubt') /\ NoneUsable(source')
  <2>1. snd.base \in 0..SeqModulus - 1
    BY <1>2 DEF NetGood
  <2> QED BY <1>6, <1>10, <2>1, DeliverKeeps
<1>12. net' \subseteq packets
  BY <1>4
<1>13. NetGood(snd, net') /\ SourceGood(snd, net', source', given', doubt')
  BY <1>2, <1>11, <1>12, FewerPackets
<1>14. sender' = snd /\ tcp' = tcp /\ tcp \in BOOLEAN
  BY <1>1 DEF ReadPacket, IInv
<1> QED BY <1>11, <1>13, <1>14 DEF IInv

LEMMA ReadPartKeeps ==
  ASSUME IInv, ReadPart
  PROVE  IInv'
<1>1. PICK snd, packets, s, d : snd = sender /\ packets = net /\ s = source /\ d = doubt
  OBVIOUS
<1>2. /\ NetGood(snd, packets) /\ SourceGood(snd, packets, s, given, d)
      /\ s.partly = NoPacket /\ NoneUsable(s)
  BY <1>1 DEF IInv, ReadPart
<1>3. s \in SourceType /\ s.buffer \in BufferType
  BY <1>2, GoodTypes DEF SourceType
<1>4. PICK p \in packets :
        /\ net' = packets \ {p}
        /\ source' = [source EXCEPT
                        !.partly = [packet |-> p, saved |-> GetsSavedPacket(source.buffer)],
                        !.buffer = AfterGetFree(@)]
  BY <1>1 DEF ReadPart
<1>5. PICK hand, c, part, t :
        /\ hand = GetsSavedPacket(s.buffer) /\ c = AfterGetFree(s.buffer)
        /\ part = [packet |-> p, saved |-> hand] /\ t = source'
  OBVIOUS
<1>6. PICK last \in 1..(MaxPackets + 1) :
        /\ ~d /\ s.buffer.seen => Bounded(snd, packets, s, last)
        /\ LoopGood(World(s, given, d), InHand(s), Base(snd, s.ssrc), last)
  BY <1>2 DEF SourceGood
<1>7. /\ p \in Packet /\ p.n <= snd.sent /\ p.seq = Number(Base(snd, p.ssrc), p.n)
      /\ p.ssrc = snd.ssrc /\ snd.ssrc \in {1, 2} /\ s.ssrc <= snd.ssrc
      /\ s.buffer.seen => s.ssrc # 0
  BY <1>2 DEF NetGood, SourceGood
<1>8. SavedOnce(s.buffer.list, s.buffer.saved, FALSE)
  BY <1>2, <1>6 DEF InHand, LoopGood, World
<1>9. /\ hand \in BOOLEAN /\ c \in BufferType
      /\ c.list = s.buffer.list /\ c.seen = s.buffer.seen /\ c.expected = s.buffer.expected
      /\ SavedOnce(c.list, c.saved, hand)
  BY <1>3, <1>5, <1>8, GetFreeSaved
<1>10. part \in Partly /\ part # NoPacket /\ part.packet = p /\ part.saved = hand
  BY <1>5, <1>7, <1>9, NoPacketAssumption DEF Partly
<1>11. t = [s EXCEPT !.partly = part, !.buffer = c]
  BY <1>1, <1>3, <1>4, <1>5 DEF SourceType
<1>12. /\ t \in SourceType /\ t.buffer = c /\ t.partly = part /\ t.ssrc = s.ssrc
       /\ t.need = s.need /\ t.awaiting = s.awaiting /\ t.afterGetting = s.afterGetting
       /\ t.frame = s.frame /\ t.lossInFrame = s.lossInFrame
  BY <1>3, <1>9, <1>10, <1>11 DEF SourceType
<1>13. InHand(t) = hand
  BY <1>10, <1>12 DEF InHand
<1>14. LoopGood(World(t, given, d), InHand(t), Base(snd, t.ssrc), last)
  <2>1. SavedOnce(t.buffer.list, t.buffer.saved, InHand(t))
    BY <1>9, <1>12, <1>13
  <2>2. t.buffer.list = s.buffer.list /\ t.buffer.seen = s.buffer.seen
        /\ t.buffer.expected = s.buffer.expected
    BY <1>9, <1>12
  <2>3. LoopGood(World(s, given, d), InHand(s), Base(snd, t.ssrc), last)
    BY <1>6, <1>12
  <2> QED BY <1>12, <2>1, <2>2, <2>3, OtherMembers
<1>15. PICK rest : rest = net'
  OBVIOUS
<1>16. PartlyGood(snd, rest, t)
  BY <1>7, <1>10, <1>12 DEF PartlyGood
<1>17. Coming(rest, t) \subseteq Coming(packets, s)
  BY <1>4, <1>10, <1>12, <1>15 DEF Coming
<1>18. ~d /\ t.buffer.seen => Bounded(snd, rest, t, last)
  BY <1>6, <1>9, <1>12, <1>17 DEF Bounded
<1>19. SourceGood(snd, rest, t, given, d)
  BY <1>7, <1>9, <1>12, <1>14, <1>16, <1>18 DEF SourceGood
<1>20. NetGood(snd, rest)
  BY <1>2, <1>4, <1>15 DEF NetGood
<1>21. NoneUsable(t)
  BY <1>2, <1>9, <1>12 DEF NoneUsable
<1>22. /\ sender' = snd /\ given' = given /\ doubt' = d /\ tcp' = tcp /\ tcp \in BOOLEAN
       /\ source' = t /\ net' = rest
  BY <1>1, <1>5, <1>15 DEF ReadPart, IInv
<1> QED BY <1>19, <1>20, <1>21, <1>22 DEF IInv

LEMMA ReadRestKeeps ==
  ASSUME IInv, ReadRest
  PROVE  IInv'
<1>1. PICK snd, packets, s, d, frames :
        snd = sender /\ packets = net /\ s = source /\ d = doubt /\ frames = given
  OBVIOUS
<1>2. /\ NetGood(snd, packets) /\ SourceGood(snd, packets, s, frames, d)
      /\ s.partly # NoPacket
  BY <1>1 DEF IInv, ReadRest
<1>3. s \in SourceType /\ d \in BOOLEAN
  BY <1>2, GoodTypes
<1>4. PICK p, saved, e, u :
        /\ p = s.partly.packet /\ saved = s.partly.saved
        /\ e = (doubt \/ MixesStreams(source, source.partly.packet))
        /\ u = Stored(s, p, saved)
  OBVIOUS
<1>5. Deliver(u, e)
  BY <1>1, <1>4, Zenon DEF ReadRest
<1>6. e \in BOOLEAN /\ (e <=> d \/ MixesStreams(s, p))
  BY <1>1, <1>4, Zenon
<1>7. p \in Packet /\ saved \in BOOLEAN
  BY <1>2, <1>3, <1>4 DEF SourceType, Partly
<1>8. PICK last \in 1..(MaxPackets + 1) :
        /\ ~d /\ s.buffer.seen => Bounded(snd, packets, s, last)
        /\ LoopGood(World(s, frames, d), InHand(s), Base(snd, s.ssrc), last)
  BY <1>2 DEF SourceGood
<1>9. InHand(s) = saved
  BY <1>2, <1>4 DEF InHand
<1>10. /\ p.n <= snd.sent /\ p.seq = Number(Base(snd, p.ssrc), p.n)
       /\ p.ssrc <= snd.ssrc
       /\ p.ssrc # snd.ssrc => \A q \in packets : p.n < q.n
  BY <1>2, <1>4 DEF SourceGood, PartlyGood
<1>11. \A q \in packets : q.ssrc # p.ssrc => p.n < q.n
  BY <1>2, <1>10 DEF NetGood
<1>12. ASSUME ~d, s.buffer.seen
       PROVE  /\ last <= snd.sent + 1
              /\ p.ssrc # s.ssrc => last <= p.n
              /\ \A q \in packets : q.ssrc # s.ssrc => last <= q.n
  <2>1. p \in Coming(packets, s) /\ packets \subseteq Coming(packets, s)
    BY <1>2, <1>4 DEF Coming
  <2> QED BY <1>8, <1>12, <2>1 DEF Bounded
<1>13. StoredFrom(snd, packets, s, p, saved, frames, d, last)
  BY <1>2, <1>3, <1>7, <1>8, <1>9, <1>10, <1>11, <1>12 DEF StoredFrom
<1>14. SourceGood(snd, packets, u, frames, e)
  <2>1. u = Stored(s, p, saved)
    BY <1>4
  <2> QED BY ONLY <1>6, <1>13, <2>1, StoredGood
<1>15. SourceGood(snd, packets, source', given', doubt') /\ NoneUsable(source')
  <2>1. snd.base \in 0..SeqModulus - 1
    BY <1>2 DEF NetGood
  <2> QED BY <1>1, <1>5, <1>14, <2>1, DeliverKeeps
<1>16. sender' = snd /\ net' = packets /\ tcp' = tcp /\ tcp \in BOOLEAN
  BY <1>1 DEF ReadRest, IInv
<1> QED BY <1>2, <1>15, <1>16 DEF IInv

LEMMA ReadJunkKeeps ==
  ASSUME IInv, ReadJunk
  PROVE  IInv'
<1>1. PICK snd, packets, s, d, frames :
        snd = sender /\ packets = net /\ s = source /\ d = doubt /\ frames = given
  OBVIOUS
<1>2. /\ NetGood(snd, packets) /\ SourceGood(snd, packets, s, frames, d)
      /\ s.partly = NoPacket
  BY <1>1 DEF IInv, ReadJunk
<1>3. s \in SourceType /\ s.buffer \in BufferType
  BY <1>2, GoodTypes DEF SourceType
<1>4. PICK b, c, t :
        /\ b = s.buffer
        /\ c = FreePacket(AfterGetFree(b), [saved |-> GetsSavedPacket(b)])
        /\ t = [s EXCEPT !.buffer = c]
  OBVIOUS
<1>5. Deliver(t, d)
  <2>1. [source EXCEPT !.buffer = FreePacket(AfterGetFree(@), [saved |-> GetsSavedPacket(@)])] = t
    BY <1>1, <1>3, <1>4 DEF SourceType
  <2> QED BY <1>1, <2>1, Zenon DEF ReadJunk
<1>6. PICK last \in 1..(MaxPackets + 1) :
        /\ ~d /\ s.buffer.seen => Bounded(snd, packets, s, last)
        /\ LoopGood(World(s, frames, d), InHand(s), Base(snd, s.ssrc), last)
  BY <1>2 DEF SourceGood
<1>7. SavedOnce(b.list, b.saved, FALSE)
  BY <1>2, <1>4, <1>6 DEF InHand, LoopGood, World
<1>8. /\ c \in BufferType /\ c.list = b.list /\ c.seen = b.seen /\ c.expected = b.expected
      /\ c.saved = IF b.saved = "used" THEN "used" ELSE "free"
  <2>1. CASE b.saved = "used"
    <3>1. c = [b EXCEPT !.saved = "used"]
      BY <1>4, <2>1 DEF FreePacket, AfterGetFree, GetsSavedPacket
    <3> QED BY <1>3, <1>4, <2>1, <3>1 DEF BufferType
  <2>2. CASE b.saved # "used"
    <3>1. PICK a : a = [b EXCEPT !.saved = "used"]
      OBVIOUS
    <3>2. c = [a EXCEPT !.saved = "free"]
      BY <1>4, <2>2, <3>1 DEF FreePacket, AfterGetFree, GetsSavedPacket
    <3>3. /\ a \in BufferType /\ a.list = b.list /\ a.seen = b.seen
          /\ a.expected = b.expected
      BY <1>3, <1>4, <3>1 DEF BufferType
    <3> QED BY <2>2, <3>2, <3>3 DEF BufferType
  <2> QED BY <2>1, <2>2
<1>9. SavedOnce(c.list, c.saved, FALSE)
  BY <1>7, <1>8 DEF SavedOnce
<1>10. t \in SourceType
  BY <1>3, <1>4, <1>8 DEF SourceType
<1>11. /\ t.buffer = c /\ t.need = s.need /\ t.awaiting = s.awaiting
       /\ t.afterGetting = s.afterGetting /\ t.frame = s.frame
       /\ t.lossInFrame = s.lossInFrame /\ t.ssrc = s.ssrc /\ t.partly = s.partly
  BY <1>3, <1>4, SourceFields
<1>12. LoopGood(World(t, frames, d), InHand(t), Base(snd, t.ssrc), last)
  <2>1. SavedOnce(t.buffer.list, t.buffer.saved, InHand(t))
    BY <1>2, <1>9, <1>11 DEF InHand
  <2>2. t.buffer.list = s.buffer.list /\ t.buffer.seen = s.buffer.seen
        /\ t.buffer.expected = s.buffer.expected
    BY <1>4, <1>8, <1>11
  <2>3. LoopGood(World(s, frames, d), InHand(s), Base(snd, t.ssrc), last)
    BY <1>6, <1>11
  <2> QED BY <1>10, <1>11, <2>1, <2>2, <2>3, OtherMembers
<1>13. SourceGood(snd, packets, t, frames, d)
  <2>1. PartlyGood(snd, packets, t)
    BY <1>2, <1>11 DEF PartlyGood
  <2>2. t.ssrc <= snd.ssrc /\ (t.buffer.seen => t.ssrc # 0)
    BY <1>2, <1>4, <1>8, <1>11 DEF SourceGood
  <2>3. ~d /\ t.buffer.seen => Bounded(snd, packets, t, last)
    BY <1>4, <1>6, <1>8, <1>11 DEF Bounded, Coming
  <2> QED BY <1>12, <2>1, <2>2, <2>3 DEF SourceGood
<1>14. SourceGood(snd, packets, source', given', doubt') /\ NoneUsable(source')
  <2>1. snd.base \in 0..SeqModulus - 1
    BY <1>2 DEF NetGood
  <2> QED BY <1>1, <1>5, <1>13, <2>1, DeliverKeeps
<1>15. sender' = snd /\ net' = packets /\ tcp' = tcp /\ tcp \in BOOLEAN
  BY <1>1 DEF ReadJunk, IInv
<1> QED BY <1>2, <1>14, <1>15 DEF IInv

(* A request begins with nothing at fSavedTo. *)
LEMMA RequestedFollowed ==
  ASSUME NEW s, NEW t, NEW frames, NEW base, NEW x, NEW last,
         Followed(s, frames, base, x, last), ~s.need,
         t.buffer = s.buffer, t.lossInFrame = s.lossInFrame, t.need, t.frame = <<>>,
         ~t.afterGetting
  PROVE  Followed(t, frames, base, x, last)
<1>1. InSync(t, frames, x)
  <2>1. BeginsFrame(x) => Before(x) = <<>>
    <3>1. BeginsFrame(x) => x % 4 # 3 /\ x % 4 # 0
      BY DEF BeginsFrame
    <3> QED BY <3>1 DEF Before
  <2> QED BY <2>1 DEF Followed, InSync
<1> QED BY <1>1 DEF Followed, OnItsWay

LEMMA GetNextFrameKeeps ==
  ASSUME IInv, GetNextFrame
  PROVE  IInv'
<1>1. PICK snd, packets, s, d, frames :
        snd = sender /\ packets = net /\ s = source /\ d = doubt /\ frames = given
  OBVIOUS
<1>2. NetGood(snd, packets) /\ SourceGood(snd, packets, s, frames, d) /\ ~s.awaiting
  BY <1>1 DEF IInv, GetNextFrame
<1>3. s \in SourceType /\ frames \in Seq(Seq(Piece)) /\ d \in BOOLEAN
  BY <1>2, GoodTypes
<1>4. PICK t : t = [s EXCEPT !.awaiting = TRUE, !.reading = TRUE, !.frame = <<>>, !.need = TRUE]
  OBVIOUS
<1>5. Deliver(t, d)
  BY <1>1, <1>4 DEF GetNextFrame
<1>6. PICK last \in 1..(MaxPackets + 1) :
        /\ ~d /\ s.buffer.seen => Bounded(snd, packets, s, last)
        /\ LoopGood(World(s, frames, d), InHand(s), Base(snd, s.ssrc), last)
  BY <1>2 DEF SourceGood
<1>7. PICK v, base, hand :
        v = World(s, frames, d) /\ base = Base(snd, s.ssrc) /\ hand = InHand(s)
  OBVIOUS
<1>8. v.src = s /\ v.given = frames /\ v.doubt = d /\ LoopGood(v, hand, base, last)
  BY <1>6, <1>7 DEF World
<1>9. ~s.need /\ ~s.afterGetting
  BY <1>2, <1>8 DEF LoopGood
<1>10. /\ t \in SourceType /\ t.buffer = s.buffer /\ t.lossInFrame = s.lossInFrame
       /\ t.partly = s.partly /\ t.ssrc = s.ssrc /\ t.frame = <<>>
       /\ t.afterGetting = s.afterGetting
  <2>1. PICK nothing : nothing = <<>> /\ nothing \in Seq(Piece)
    <3>1. <<>> \in Seq(Piece)
      OBVIOUS
    <3> QED BY <3>1, Zenon
  <2>2. t = [s EXCEPT !.awaiting = TRUE, !.reading = TRUE, !.frame = nothing, !.need = TRUE]
    BY <1>4, <2>1
  <2>3. t \in SourceType
    BY <1>3, <2>1, <2>2 DEF SourceType
  <2>4. /\ t.buffer = s.buffer /\ t.lossInFrame = s.lossInFrame
        /\ t.partly = s.partly /\ t.ssrc = s.ssrc /\ t.frame = nothing
        /\ t.afterGetting = s.afterGetting
    BY <1>3, <2>2 DEF SourceType
  <2> QED BY <2>1, <2>3, <2>4
<1>11. t.need = TRUE /\ t.awaiting = TRUE
  BY <1>3, <1>4 DEF SourceType
<1>12. PICK w : w = World(t, frames, d)
  OBVIOUS
<1>13. w.src = t /\ w.given = frames /\ w.doubt = d /\ w \in WorldType
  BY <1>3, <1>10, <1>12 DEF World, WorldType
<1>14. LoopGood(w, hand, base, last)
  <2>1. /\ Usable(s.buffer.list) /\ SavedOnce(s.buffer.list, s.buffer.saved, hand)
        /\ ~s.buffer.seen => s.buffer.list = <<>> /\ frames = <<>>
        /\ ~d /\ s.buffer.seen => \E x \in 1..last : Followed(s, frames, base, x, last)
    BY <1>8 DEF LoopGood
  <2>2. ~t.afterGetting
    BY <1>9, <1>10
  <2>3. ~d /\ s.buffer.seen => \E x \in 1..last : Followed(t, frames, base, x, last)
    BY <1>9, <1>10, <1>11, <2>1, <2>2, RequestedFollowed
  <2>4. w.src.awaiting <=> w.src.need \/ w.src.afterGetting
    BY <1>11, <1>13
  <2> QED BY <1>10, <1>13, <2>1, <2>2, <2>3, <2>4 DEF LoopGood
<1>15. SourceGood(snd, packets, t, frames, d)
  <2>1. PartlyGood(snd, packets, t)
    BY <1>2, <1>10 DEF SourceGood, PartlyGood
  <2>2. t.ssrc <= snd.ssrc /\ (t.buffer.seen => t.ssrc # 0)
    BY <1>2, <1>10 DEF SourceGood
  <2>3. ~d /\ t.buffer.seen => Bounded(snd, packets, t, last)
    BY <1>6, <1>10 DEF Bounded, Coming
  <2>4. InHand(t) = hand /\ Base(snd, t.ssrc) = base
    BY <1>7, <1>10 DEF InHand
  <2> QED BY <1>12, <1>14, <2>1, <2>2, <2>3, <2>4 DEF SourceGood
<1>16. SourceGood(snd, packets, source', given', doubt') /\ NoneUsable(source')
  <2>1. snd.base \in 0..SeqModulus - 1
    BY <1>2 DEF NetGood
  <2> QED BY <1>1, <1>5, <1>15, <2>1, DeliverKeeps
<1>17. sender' = snd /\ net' = packets /\ tcp' = tcp /\ tcp \in BOOLEAN
  BY <1>1 DEF GetNextFrame, IInv
<1> QED BY <1>2, <1>16, <1>17 DEF IInv

(* The frame is given, and nothing is asked for any more. *)
LEMMA GivenFollowed ==
  ASSUME NEW s, s.frame \in Seq(Piece), NEW t, NEW frames \in Seq(Seq(Piece)), NEW base, NEW x,
         NEW last, Followed(s, frames, base, x, last), s.afterGetting, ~s.need,
         t.buffer = s.buffer, t.lossInFrame = s.lossInFrame, ~t.need, ~t.afterGetting
  PROVE  Followed(t, Append(frames, s.frame), base, x, last)
<1>1. PICK more, f, list : more = Append(frames, f) /\ f = s.frame /\ list = s.buffer.list
  OBVIOUS
<1>2. Delivered(frames, list, x) /\ IsWhole(f) /\ Passed(f, list, x)
  BY <1>1 DEF Followed, OnItsWay
<1>3. frames # <<>> => Comes(frames[Len(frames)], f)
  BY <1>1 DEF Followed, OnItsWay
<1>4. f \in Seq(Piece)
  BY <1>1
<1>5. Delivered(more, list, x)
  BY <1>1, <1>2, <1>3, <1>4, DeliveredMore
<1>6. InSync(t, more, x)
  BY DEF Followed, InSync
<1>7. OnItsWay(t, more, x)
  BY DEF OnItsWay
<1> QED BY <1>1, <1>5, <1>6, <1>7 DEF Followed

LEMMA AfterGettingKeeps ==
  ASSUME IInv, AfterGetting
  PROVE  IInv'
<1>1. PICK snd, packets, s, d, frames :
        snd = sender /\ packets = net /\ s = source /\ d = doubt /\ frames = given
  OBVIOUS
<1>2. NetGood(snd, packets) /\ SourceGood(snd, packets, s, frames, d) /\ s.afterGetting
  BY <1>1 DEF IInv, AfterGetting
<1>3. s \in SourceType /\ frames \in Seq(Seq(Piece)) /\ d \in BOOLEAN
  BY <1>2, GoodTypes
<1>4. PICK t, more : t = [s EXCEPT !.afterGetting = FALSE, !.awaiting = FALSE]
                     /\ more = Append(frames, s.frame)
  OBVIOUS
<1>5. PICK last \in 1..(MaxPackets + 1) :
        /\ ~d /\ s.buffer.seen => Bounded(snd, packets, s, last)
        /\ LoopGood(World(s, frames, d), InHand(s), Base(snd, s.ssrc), last)
  BY <1>2 DEF SourceGood
<1>6. PICK v, base, hand :
        v = World(s, frames, d) /\ base = Base(snd, s.ssrc) /\ hand = InHand(s)
  OBVIOUS
<1>7. v.src = s /\ v.given = frames /\ v.doubt = d /\ LoopGood(v, hand, base, last)
  BY <1>5, <1>6 DEF World
<1>8. ~s.need
  BY <1>2, <1>7 DEF LoopGood
<1>9. /\ t \in SourceType /\ t.buffer = s.buffer /\ t.lossInFrame = s.lossInFrame
      /\ t.partly = s.partly /\ t.ssrc = s.ssrc /\ t.frame = s.frame /\ t.need = s.need
  BY <1>3, <1>4 DEF SourceType
<1>10. t.afterGetting = FALSE /\ t.awaiting = FALSE
  BY <1>3, <1>4 DEF SourceType
<1>11. s.frame \in Seq(Piece) /\ more \in Seq(Seq(Piece))
  BY <1>3, <1>4 DEF SourceType
<1>12. PICK w : w = World(t, more, d)
  OBVIOUS
<1>13. w.src = t /\ w.given = more /\ w.doubt = d /\ w \in WorldType
  BY <1>3, <1>9, <1>11, <1>12 DEF World, WorldType
<1>14. LoopGood(w, hand, base, last)
  <2>1. /\ Usable(s.buffer.list) /\ SavedOnce(s.buffer.list, s.buffer.saved, hand)
        /\ s.buffer.seen
        /\ ~d /\ s.buffer.seen => \E x \in 1..last : Followed(s, frames, base, x, last)
    BY <1>2, <1>7 DEF LoopGood
  <2>2. ASSUME ~d
        PROVE  \E x \in 1..last : Followed(t, more, base, x, last)
    <3>1. PICK x \in 1..last : Followed(s, frames, base, x, last)
      BY <2>1, <2>2
    <3>2. ~t.need /\ ~t.afterGetting
      BY <1>8, <1>9, <1>10
    <3>3. Followed(t, more, base, x, last)
      BY <1>2, <1>3, <1>4, <1>8, <1>9, <1>11, <3>1, <3>2, GivenFollowed
    <3> QED BY <3>3
  <2>3. w.src.awaiting <=> w.src.need \/ w.src.afterGetting
    BY <1>8, <1>9, <1>10, <1>13
  <2>4. ~(w.src.need /\ w.src.afterGetting)
    BY <1>10, <1>13
  <2> QED BY <1>9, <1>13, <2>1, <2>2, <2>3, <2>4 DEF LoopGood
<1>15. SourceGood(snd, packets, t, more, d)
  <2>1. PartlyGood(snd, packets, t)
    BY <1>2, <1>9 DEF SourceGood, PartlyGood
  <2>2. t.ssrc <= snd.ssrc /\ (t.buffer.seen => t.ssrc # 0)
    BY <1>2, <1>9 DEF SourceGood
  <2>3. ~d /\ t.buffer.seen => Bounded(snd, packets, t, last)
    BY <1>5, <1>9 DEF Bounded, Coming
  <2>4. InHand(t) = hand /\ Base(snd, t.ssrc) = base
    BY <1>6, <1>9 DEF InHand
  <2> QED BY <1>12, <1>14, <2>1, <2>2, <2>3, <2>4 DEF SourceGood
<1>16. NoneUsable(t)
  BY <1>8, <1>9 DEF NoneUsable
<1>17. /\ sender' = snd /\ net' = packets /\ doubt' = d /\ tcp' = tcp /\ tcp \in BOOLEAN
       /\ given' = more /\ source' = t
  BY <1>1, <1>4 DEF AfterGetting, IInv
<1> QED BY <1>2, <1>15, <1>16, <1>17 DEF IInv

(* A source that has received nothing of its stream. *)
LEMMA NothingReceived ==
  ASSUME NEW snd, NEW packets, NEW s \in SourceType, s.ssrc <= snd.ssrc, s.partly = NoPacket,
         ~s.awaiting, ~s.need, ~s.afterGetting, ~s.buffer.seen, s.buffer.list = <<>>,
         s.buffer.saved = "none"
  PROVE  SourceGood(snd, packets, s, <<>>, FALSE) /\ NoneUsable(s)
<1>1. PICK frames, w : frames = <<>> /\ w = World(s, frames, FALSE)
  OBVIOUS
<1>2. frames \in Seq(Seq(Piece))
  BY <1>1, EmptySeq
<1>3. w \in WorldType /\ w.src = s /\ w.given = <<>> /\ w.doubt = FALSE
  BY <1>1, <1>2 DEF World, WorldType
<1>4. ~InHand(s)
  BY DEF InHand
<1>5. Len(s.buffer.list) = 0
  BY EmptySeq
<1>6. Usable(s.buffer.list)
  BY <1>5 DEF Usable
<1>7. SavedOnce(s.buffer.list, s.buffer.saved, InHand(s))
  BY <1>4, <1>5 DEF SavedOnce
<1>8. LoopGood(w, InHand(s), Base(snd, s.ssrc), 1)
  BY <1>3, <1>6, <1>7 DEF LoopGood
<1>9. PartlyGood(snd, packets, s)
  BY DEF PartlyGood
<1>10. 1 \in 1..(MaxPackets + 1)
  BY Sizes
<1>11. SourceGood(snd, packets, s, frames, FALSE)
  BY <1>1, <1>8, <1>9, <1>10 DEF SourceGood
<1> QED BY <1>1, <1>11 DEF NoneUsable

LEMMA StopGettingFramesKeeps ==
  ASSUME IInv, StopGettingFrames
  PROVE  IInv'
<1>1. PICK snd, packets, s : snd = sender /\ packets = net /\ s = source
  OBVIOUS
<1>2. NetGood(snd, packets) /\ SourceGood(snd, packets, s, given, doubt)
  BY <1>1 DEF IInv
<1>3. s \in SourceType /\ s.buffer \in BufferType /\ s.ssrc <= snd.ssrc
  BY <1>2, GoodTypes DEF SourceType, SourceGood
<1>4. PICK c, t : /\ c = ResetBuffer(s.buffer)
                  /\ t = [NewSource EXCEPT !.ssrc = s.ssrc, !.frame = s.frame, !.buffer = c]
  OBVIOUS
<1>5. c.seen = FALSE /\ c.list = <<>> /\ c.saved = "none" /\ c \in BufferType
  <2>1. PICK nothing : nothing = <<>>
    OBVIOUS
  <2>2. nothing \in Seq(StoredPacket)
    BY <2>1, EmptySeq
  <2>3. c = [s.buffer EXCEPT !.seen = FALSE, !.list = nothing, !.saved = "none"]
    BY <1>4, <2>1 DEF ResetBuffer
  <2> QED BY <1>3, <2>1, <2>2, <2>3 DEF BufferType
<1>6. /\ t.reading = FALSE /\ t.awaiting = FALSE /\ t.need = FALSE /\ t.afterGetting = FALSE
      /\ t.partly = NoPacket /\ t.ssrc = s.ssrc /\ t.buffer = c
  BY <1>4 DEF NewSource
<1>7. t \in SourceType
  BY <1>3, <1>4, <1>5 DEF NewSource, SourceType
<1>8. SourceGood(snd, packets, t, <<>>, FALSE) /\ NoneUsable(t)
  BY <1>3, <1>5, <1>6, <1>7, NothingReceived
<1>9. /\ sender' = snd /\ net' = packets /\ tcp' = tcp /\ tcp \in BOOLEAN
      /\ given' = <<>> /\ doubt' = FALSE /\ source' = t
  BY <1>1, <1>4 DEF StopGettingFrames, IInv
<1> QED BY <1>2, <1>8, <1>9 DEF IInv

LEMMA InitGood == Init => IInv
<1> SUFFICES ASSUME Init PROVE IInv
  OBVIOUS
<1>1. PICK snd, s : snd = sender /\ s = source
  OBVIOUS
<1>2. /\ snd = [sent |-> 0, ssrc |-> 1, base |-> SeqModulus - 3] /\ net = {}
      /\ s = NewSource /\ given = <<>> /\ doubt = FALSE /\ tcp \in BOOLEAN
  BY <1>1 DEF Init
<1>3. NetGood(snd, {})
  BY <1>2, Sizes DEF NetGood
<1>4. s \in SourceType
  <2>1. PICK noPiece, none, zero : noPiece = <<>> /\ none = <<>> /\ zero = 0
    OBVIOUS
  <2>2. noPiece \in Seq(Piece) /\ none \in Seq(StoredPacket) /\ zero \in 0..SeqModulus - 1
    BY <2>1, EmptySeq, Sizes
  <2>3. PICK c : c = [seen |-> FALSE, expected |-> zero, list |-> none, saved |-> "none"]
    OBVIOUS
  <2>4. c \in BufferType /\ NewBuffer = c
    BY <2>1, <2>2, <2>3 DEF BufferType, NewBuffer
  <2>5. s = [reading |-> FALSE, awaiting |-> FALSE, need |-> FALSE, afterGetting |-> FALSE,
             lossInFrame |-> FALSE, frame |-> noPiece, partly |-> NoPacket, ssrc |-> 0,
             buffer |-> c]
    BY <1>2, <2>1, <2>4 DEF NewSource
  <2> QED BY <2>2, <2>4, <2>5 DEF SourceType
<1>5. /\ ~s.awaiting /\ ~s.need /\ ~s.afterGetting /\ s.partly = NoPacket /\ s.ssrc = 0
      /\ s.buffer = NewBuffer
  BY <1>2 DEF NewSource
<1>6. ~s.buffer.seen /\ s.buffer.list = <<>> /\ s.buffer.saved = "none"
  BY <1>5 DEF NewBuffer
<1>7. s.ssrc <= snd.ssrc
  BY <1>2, <1>5
<1>8. SourceGood(snd, {}, s, <<>>, FALSE) /\ NoneUsable(s)
  BY <1>4, <1>5, <1>6, <1>7, NothingReceived
<1> QED BY <1>1, <1>2, <1>3, <1>8 DEF IInv

LEMMA NextKeeps == IInv /\ [Next]_vars => IInv'
<1> SUFFICES ASSUME IInv, [Next]_vars PROVE IInv'
  OBVIOUS
<1>1. CASE SendPacket
  BY <1>1, SendPacketKeeps
<1>2. CASE LosePacket
  BY <1>2, LosePacketKeeps
<1>3. CASE RestartSender
  BY <1>3, RestartSenderKeeps
<1>4. CASE GetNextFrame
  BY <1>4, GetNextFrameKeeps
<1>5. CASE ReadPacket
  BY <1>5, ReadPacketKeeps
<1>6. CASE ReadPart
  BY <1>6, ReadPartKeeps
<1>7. CASE ReadRest
  BY <1>7, ReadRestKeeps
<1>8. CASE ReadJunk
  BY <1>8, ReadJunkKeeps
<1>9. CASE AfterGetting
  BY <1>9, AfterGettingKeeps
<1>10. CASE StopGettingFrames
  BY <1>10, StopGettingFramesKeeps
<1>11. CASE UNCHANGED vars
  BY <1>11 DEF IInv, vars
<1> QED BY <1>1, <1>2, <1>3, <1>4, <1>5, <1>6, <1>7, <1>8, <1>9, <1>10, <1>11 DEF Next

-----------------------------------------------------------------------------
(* The properties.                                                         *)

(* What the invariant says of the source, without the loop's bounds. *)
LEMMA WhatHolds ==
  ASSUME IInv, NEW s, s = source, NEW list, list = s.buffer.list
  PROVE  /\ s \in SourceType /\ given \in Seq(Seq(Piece)) /\ doubt \in BOOLEAN
         /\ SavedOnce(list, s.buffer.saved, InHand(s))
         /\ s.awaiting <=> s.need \/ s.afterGetting
         /\ ~(s.need /\ s.afterGetting)
         /\ ~s.buffer.seen => list = <<>> /\ given = <<>> /\ ~s.afterGetting
         /\ ~doubt /\ s.buffer.seen =>
              \E base \in 0..SeqModulus - 1 : \E last, x : Followed(s, given, base, x, last)
<1>1. PICK snd, w, base, frames, d, hand :
        /\ snd = sender /\ base = Base(snd, s.ssrc) /\ hand = InHand(s)
        /\ frames = given /\ d = doubt /\ w = World(s, frames, d)
  OBVIOUS
<1>2. PICK last : LoopGood(w, hand, base, last)
  BY <1>1 DEF IInv, SourceGood
<1>3. w.src = s /\ w.given = frames /\ w.doubt = d
  BY <1>1 DEF World
<1>4. s \in SourceType /\ frames \in Seq(Seq(Piece)) /\ d \in BOOLEAN
  BY <1>2, <1>3 DEF LoopGood, WorldType
<1>5. SavedOnce(list, s.buffer.saved, hand)
  BY <1>2, <1>3 DEF LoopGood
<1>6. (s.awaiting <=> s.need \/ s.afterGetting) /\ ~(s.need /\ s.afterGetting)
  BY <1>2, <1>3 DEF LoopGood
<1>7. ~s.buffer.seen => list = <<>> /\ frames = <<>> /\ ~s.afterGetting
  BY <1>2, <1>3 DEF LoopGood
<1>8. base \in 0..SeqModulus - 1
  BY <1>1, Sizes DEF Base, IInv, NetGood
<1>9. ASSUME ~d, s.buffer.seen
      PROVE  \E b \in 0..SeqModulus - 1 : \E l, x : Followed(s, frames, b, x, l)
  BY <1>2, <1>3, <1>8, <1>9 DEF LoopGood
<1> QED BY <1>1, <1>4, <1>5, <1>6, <1>7, <1>9

LEMMA InvImpliesTypeOK == IInv => TypeOK
<1> SUFFICES ASSUME IInv PROVE TypeOK
  OBVIOUS
<1>1. source \in SourceType /\ given \in Seq(Seq(Piece)) /\ doubt \in BOOLEAN
  BY WhatHolds
<1>2. /\ sender \in [sent : 0..MaxPackets + 4, ssrc : {1, 2}, base : 0..SeqModulus - 1]
      /\ net \subseteq Packet /\ tcp \in BOOLEAN
  BY DEF IInv, NetGood
<1> QED BY <1>1, <1>2 DEF TypeOK, SourceType, BufferType, Partly

(* At most one packet of the list is the object fSavedPacket. *)
LEMMA InvImpliesSavedPacketOnce == IInv => SavedPacketOnce
<1> SUFFICES ASSUME IInv PROVE SavedPacketOnce
  OBVIOUS
<1>1. PICK s, list, holders, hand :
        /\ s = source /\ list = s.buffer.list /\ hand = InHand(s)
        /\ holders = {i \in DOMAIN list : list[i].saved}
  OBVIOUS
<1>2. s \in SourceType /\ SavedOnce(list, s.buffer.saved, hand)
  BY <1>1, WhatHolds
<1>3. DOMAIN list = 1..Len(list)
  BY <1>1, <1>2 DEF SourceType, BufferType
<1>4. hand \in BOOLEAN
  BY <1>1, <1>2 DEF InHand, SourceType, Partly
<1>5. CASE holders = {}
  <2>1. Cardinality(holders) = 0
    BY <1>5, FS_EmptySet
  <2>2. s.buffer.saved = "used" <=> hand
    BY <1>1, <1>2, <1>3, <1>5 DEF SavedOnce
  <2>3. Cardinality(holders) + (IF hand THEN 1 ELSE 0)
          = IF s.buffer.saved = "used" THEN 1 ELSE 0
    BY <1>4, <2>1, <2>2
  <2> QED BY <1>1, <2>3 DEF SavedPacketOnce, InHand
<1>6. CASE holders # {}
  <2>1. PICK i : i \in holders
    BY <1>6
  <2>2. i \in 1..Len(list) /\ list[i].saved
    BY <1>1, <1>3, <2>1
  <2>3. holders = {i}
    BY <1>1, <1>2, <1>3, <2>1, <2>2 DEF SavedOnce
  <2>4. Cardinality(holders) = 1
    BY <2>3, FS_Singleton
  <2>5. ~hand /\ s.buffer.saved = "used"
    BY <1>2, <2>2 DEF SavedOnce
  <2>6. Cardinality(holders) + (IF hand THEN 1 ELSE 0)
          = IF s.buffer.saved = "used" THEN 1 ELSE 0
    BY <2>4, <2>5
  <2> QED BY <1>1, <2>6 DEF SavedPacketOnce, InHand
<1> QED BY <1>5, <1>6

LEMMA InvImpliesListInOrder == IInv => ListInOrder
<1> SUFFICES ASSUME IInv PROVE ListInOrder
  OBVIOUS
<1>1. PICK s, b, list : s = source /\ b = s.buffer /\ list = b.list
  OBVIOUS
<1>2. /\ s \in SourceType
      /\ ~s.buffer.seen => list = <<>>
      /\ ~doubt /\ s.buffer.seen =>
           \E base \in 0..SeqModulus - 1 : \E last, x : Followed(s, given, base, x, last)
  BY <1>1, WhatHolds
<1>3. list \in Seq(StoredPacket)
  BY <1>1, <1>2 DEF SourceType, BufferType
<1>4. ASSUME ~doubt
      PROVE  /\ \A i \in 1..Len(list) - 1 : list[i].n < list[i + 1].n
             /\ list # <<>> => ~SeqLT(Head(list).seq, b.expected)
  <2>1. CASE list = <<>>
    <3>1. Len(list) = 0
      BY <2>1, EmptySeq
    <3> QED BY <2>1, <3>1
  <2>2. CASE list # <<>>
    <3>1. PICK base \in 0..SeqModulus - 1 : \E last, x : Followed(s, given, base, x, last)
      BY <1>1, <1>2, <1>4, <2>2
    <3>2. PICK last, x : Followed(s, given, base, x, last)
      BY <3>1
    <3>3. Placed(list, b.expected, base, x, last)
      BY <1>1, <3>2 DEF Followed
    <3>4. PICK n : n = Head(list).n
      OBVIOUS
    <3>5. /\ n \in 1..MaxPackets /\ x \in 1..n /\ x \in 1..(MaxPackets + 1)
          /\ Head(list).seq = Number(base, n)
      BY <1>3, <2>2, <3>3, <3>4, HeadPlaced
    <3>6. n \in 1..(MaxPackets + 1) /\ ~(n < x)
      BY ONLY <3>5, Sizes
    <3>7. ~SeqLT(Number(base, n), Number(base, x))
      BY ONLY base \in 0..SeqModulus - 1, <3>5, <3>6, SeqLTIsLess
    <3>8. ~SeqLT(Head(list).seq, b.expected)
      BY <3>3, <3>5, <3>7 DEF Placed
    <3>9. ASSUME NEW i \in 1..Len(list) - 1
          PROVE  list[i].n < list[i + 1].n
      <4>1. Len(list) \in Nat
        BY <1>3
      <4>2. i \in 1..Len(list) /\ i + 1 \in 1..Len(list) /\ i < i + 1
        BY ONLY <4>1, i \in 1..Len(list) - 1
      <4> QED BY <3>3, <4>2 DEF Placed
    <3> QED BY <3>8, <3>9
  <2> QED BY <2>1, <2>2
<1> QED BY <1>1, <1>4, InvImpliesSavedPacketOnce DEF ListInOrder

LEMMA InvImpliesFramesWholeInOrder == IInv => FramesWholeInOrder
<1> SUFFICES ASSUME IInv, ~doubt PROVE FramesWholeInOrder
  BY DEF FramesWholeInOrder
<1>1. PICK s, frames : s = source /\ frames = given
  OBVIOUS
<1>2. /\ frames \in Seq(Seq(Piece))
      /\ ~s.buffer.seen => frames = <<>> /\ ~s.afterGetting
      /\ s.buffer.seen =>
           \E base \in 0..SeqModulus - 1 : \E last, x : Followed(s, frames, base, x, last)
  BY <1>1, WhatHolds
<1>3. DOMAIN frames = 1..Len(frames)
  BY <1>2
<1>4. /\ \A i \in 1..Len(frames) : IsWhole(frames[i])
      /\ \A i \in 1..Len(frames) - 1 : Comes(frames[i], frames[i + 1])
      /\ s.afterGetting => IsWhole(s.frame)
  <2>1. CASE ~s.buffer.seen
    <3>1. frames = <<>> /\ Len(frames) = 0 /\ ~s.afterGetting
      BY <1>2, <2>1, EmptySeq
    <3> QED BY <3>1
  <2>2. CASE s.buffer.seen
    <3>1. PICK base, last, x : Followed(s, frames, base, x, last)
      BY <1>2, <2>2
    <3> QED BY <3>1 DEF Followed, Delivered, OnItsWay
  <2> QED BY <2>1, <2>2
<1> QED BY <1>1, <1>3, <1>4 DEF FramesWholeInOrder

LEMMA InvImpliesWaitsOnlyForMissing == IInv => WaitsOnlyForMissing
<1> SUFFICES ASSUME IInv PROVE WaitsOnlyForMissing
  OBVIOUS
<1>1. PICK s : s = source
  OBVIOUS
<1>2. s.awaiting <=> s.need \/ s.afterGetting
  BY <1>1, WhatHolds
<1>3. ~(s.need /\ s.afterGetting)
  BY <1>1, WhatHolds
<1>4. NoneUsable(s)
  BY <1>1 DEF IInv
<1> QED BY <1>1, <1>2, <1>3, <1>4 DEF WaitsOnlyForMissing, NoneUsable

-----------------------------------------------------------------------------
(* The theorems.                                                           *)

(* The inductive invariant holds in every behaviour of sender, network,
   source and reader. *)
THEOREM Invariance == Spec => []IInv
<1> QED BY InitGood, NextKeeps, PTL DEF Spec

(* Every member of the source and its reordering buffer keeps to its type. *)
THEOREM TypeCorrect == Spec => []TypeOK
<1> QED BY Invariance, InvImpliesTypeOK, PTL

(* The list of the reordering buffer stays in the order in which packets were
   sent, never with a packet behind the number expected at its head, and the
   object fSavedPacket is never shared by two packets or lost. *)
THEOREM ListStaysInOrder == Spec => []ListInOrder
<1> QED BY Invariance, InvImpliesListInOrder, PTL

(* doGetNextFrame1 gives the reader whole frames only, each once and in the
   order in which they were sent, whatever the network did, unless the code
   could not know of a loss. *)
THEOREM FramesComeWhole == Spec => []FramesWholeInOrder
<1> QED BY Invariance, InvImpliesFramesWholeInOrder, PTL

(* A reader waits only while a packet is missing: no handler leaves a packet
   at the head of the list that doGetNextFrame1 could use. *)
THEOREM WaitsForMissing == Spec => []WaitsOnlyForMissing
<1> QED BY Invariance, InvImpliesWaitsOnlyForMissing, PTL
=============================================================================
