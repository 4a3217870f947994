----------------------- MODULE ReorderingPacketBuffer -----------------------
(***************************************************************************)
(* The class ReorderingPacketBuffer of MultiFramedRTPSource.cpp, as        *)
(* operators on a record: the list of packets that wait to be used, in the *)
(* order of their sequence numbers, and the number expected next.          *)
(*                                                                         *)
(* A packet in the list is a record with the fields n (which packet of the *)
(* sender it is, for the properties), seq (its RTP sequence number), first *)
(* (isFirstPacket), uses (useCount) and saved (it is the object            *)
(* fSavedPacket, which is used again instead of being deleted).            *)
(***************************************************************************)
EXTENDS Integers, Sequences, SequencesExt, FiniteSets

CONSTANT SeqModulus   \* sequence numbers are taken modulo this; 2^16 in the code

ASSUME SeqModulusAssumption == SeqModulus \in Nat \ {0} /\ SeqModulus % 2 = 0

SeqLT(s1, s2) ==
  LET diff == s2 - s1
      half == SeqModulus \div 2
  IN IF diff > 0 THEN diff < half ELSE diff < -half

(* saved: "none" is a NULL fSavedPacket, "free" and "used" are fSavedPacketFree. *)
NewBuffer == [seen |-> FALSE, expected |-> 0, list |-> <<>>, saved |-> "none"]

ResetBuffer(b) == [b EXCEPT !.seen = FALSE, !.list = <<>>, !.saved = "none"]

(* getFreePacket hands out fSavedPacket unless that is in use already. *)
GetsSavedPacket(b) == b.saved # "used"

AfterGetFree(b) == [b EXCEPT !.saved = "used"]

FreePacket(b, packet) == IF packet.saved THEN [b EXCEPT !.saved = "free"] ELSE b

(* storePacket, the part before any return: the first packet sets the number  *)
(* that is expected.                                                          *)
NoteFirst(b, packet) ==
  IF b.seen THEN b ELSE [b EXCEPT !.expected = packet.seq, !.seen = TRUE]

IsLate(b, packet) == SeqLT(packet.seq, b.expected)

IsTailAgain(b, packet) ==   \* mutant: only the tail is compared
  b.list # <<>> /\ Last(b.list).seq = packet.seq

IsDuplicate(b, packet) == \E i \in DOMAIN b.list : b.list[i].seq = packet.seq

InsertPacket(b, packet) ==
  LET before == {i \in DOMAIN b.list : SeqLT(b.list[i].seq, packet.seq)}
  IN [b EXCEPT !.list = InsertAt(@, Cardinality(before) + 1, packet)]

(* A packet that is not stored is freed by the caller at once. *)
StorePacket(b, packet) ==
  LET noted == NoteFirst(b, packet)
  IN IF IsLate(noted, packet) \/ IsDuplicate(noted, packet)
     THEN FreePacket(noted, packet)
     ELSE InsertPacket(noted, [packet EXCEPT !.first = ~b.seen])

(* getNextCompletedPacket: overdue are the packets that were received longer  *)
(* ago than the threshold.                                                    *)
HasNext(b, overdue) ==
  /\ b.list # <<>>
  /\ Head(b.list).seq = b.expected \/ Head(b.list).n \in overdue

LossPreceded(b) == Head(b.list).seq = b.expected => Head(b.list).first

GiveUpEarlier(b) == [b EXCEPT !.expected = Head(b.list).seq]

ReleaseUnwrapped(b) ==   \* mutant: the number expected does not wrap around
  FreePacket([b EXCEPT !.expected = @ + 1, !.list = Tail(@)], Head(b.list))

ReleaseUsedPacket(b) ==
  FreePacket([b EXCEPT !.expected = (@ + 1) % SeqModulus, !.list = Tail(@)], Head(b.list))
=============================================================================
