-------------------------- MODULE CommandRing_proofs --------------------------
(***************************************************************************)
(* Proofs, for every ring size above one, every set of producers and every *)
(* set of items, of the safety properties of CommandRing, and that the     *)
(* ring buffer of mk_ringbuffer.h implements the bounded FIFO queue of     *)
(* module BoundedQueue.                                                    *)
(***************************************************************************)
EXTENDS CommandRing, SequenceTheorems, TLAPS

-------------------------------------------------------------------------------
(* The modular index arithmetic, once and for all.                            *)

\* x % Size for an x that is at most one turn too large.
LEMMA ModOnce ==
  ASSUME NEW x \in Nat, x < 2 * Size
  PROVE  x % Size = IF x < Size THEN x ELSE x - Size
BY SizeAssumption, SMTT(30)

\* The successor and the predecessor of a slot are slots.
LEMMA SlotSteps ==
  ASSUME NEW x \in Slots
  PROVE  /\ NextSlot(x) = IF x = Size - 1 THEN 0 ELSE x + 1
         /\ PrevSlot(x) = IF x = 0 THEN Size - 1 ELSE x - 1
         /\ NextSlot(x) \in Slots
         /\ PrevSlot(x) \in Slots
         /\ PrevSlot(NextSlot(x)) = x
<1>1. x + 1 \in Nat /\ x + 1 < 2 * Size /\ x + Size - 1 \in Nat /\ x + Size - 1 < 2 * Size
  BY SizeAssumption DEF Slots
<1>2. NextSlot(x) = IF x = Size - 1 THEN 0 ELSE x + 1
  BY <1>1, ModOnce, SizeAssumption DEF NextSlot, Slots
<1>3. \A y \in Slots : PrevSlot(y) = IF y = 0 THEN Size - 1 ELSE y - 1
  <2> TAKE y \in Slots
  <2>1. y + Size - 1 \in Nat /\ y + Size - 1 < 2 * Size
    BY SizeAssumption DEF Slots
  <2> QED BY <2>1, ModOnce, SizeAssumption DEF PrevSlot, Slots
<1> QED BY <1>2, <1>3, SizeAssumption DEF Slots

\* The number of slots from one index up to another.
LEMMA Distance ==
  ASSUME NEW x \in Slots, NEW y \in Slots
  PROVE  (y + Size - x) % Size = IF x <= y THEN y - x ELSE y + Size - x
<1>1. y + Size - x \in Nat /\ y + Size - x < 2 * Size
  BY SizeAssumption DEF Slots
<1> QED BY <1>1, ModOnce, SizeAssumption DEF Slots

-------------------------------------------------------------------------------
(* The inductive invariant.                                                   *)

\* An initialised ring satisfies the invariant.
LEMMA InitInv == Init => IndInv
<1> SUFFICES ASSUME Init PROVE IndInv
  OBVIOUS
<1> USE SizeAssumption, ThreadsAssumption, ItemsAssumption DEF Init, Threads, Slots, Ops
<1>1. TypeOK
  <2>1. \A t \in Threads : pc[t] = IF t = Consumer THEN "get_idle" ELSE "idle"
    OBVIOUS
  <2>2. pc \in [Threads -> ProducerLabels \cup ConsumerLabels]
    BY DEF ProducerLabels, ConsumerLabels
  <2>3. (\A p \in Producers : pc[p] \in ProducerLabels) /\ pc[Consumer] \in ConsumerLabels
    BY <2>1 DEF ProducerLabels, ConsumerLabels
  <2>4. empty \in BOOLEAN /\ full \in BOOLEAN
    OBVIOUS
  <2> QED BY <2>2, <2>3, <2>4 DEF TypeOK
<1>2. MutualExclusion
  BY DEF MutualExclusion, Critical
<1>3. FlagInv
  BY DEF FlagInv
<1>4. UnwrittenInv
  BY DEF UnwrittenInv
<1>5. CopyInv
  BY DEF CopyInv
<1>6. TransferInv
  BY DEF TransferInv
<1> QED BY <1>1, <1>2, <1>3, <1>4, <1>5, <1>6 DEF IndInv

\* A step of a producer preserves the invariant.
LEMMA ProducerInv ==
  ASSUME IndInv, NEW p \in Producers, Call(p) \/ PutStep(p)
  PROVE  IndInv'
<1> USE SizeAssumption, ThreadsAssumption, ItemsAssumption DEF Goto, Threads, Ops
<1>0. TypeOK /\ MutualExclusion /\ FlagInv /\ UnwrittenInv /\ CopyInv /\ TransferInv
  BY DEF IndInv
<1>s. /\ NextSlot(head) = IF head = Size - 1 THEN 0 ELSE head + 1
      /\ NextSlot(tail) = IF tail = Size - 1 THEN 0 ELSE tail + 1
      /\ PrevSlot(NextSlot(head)) = head
      /\ PrevSlot(NextSlot(tail)) = tail
  BY <1>0, SlotSteps DEF TypeOK
<1>1. CASE Call(p)
  <2>1. TypeOK'
    BY <1>0, <1>s, <1>1 DEF Call, TypeOK, ring, ProducerLabels, ConsumerLabels, Slots
  <2>2. MutualExclusion'
    BY <1>0, <1>1 DEF Call, TypeOK, MutualExclusion, Critical
  <2>3. FlagInv'
    BY <1>0, <1>s, <1>1 DEF Call, TypeOK, MutualExclusion, Critical, FlagInv, ring, NextSlot, Slots
  <2>4. UnwrittenInv'
    BY <1>0, <1>s, <1>1 DEF Call, TypeOK, MutualExclusion, Critical, FlagInv, UnwrittenInv, ring, Slots
  <2>5. CopyInv'
    BY <1>0, <1>1 DEF Call, TypeOK, MutualExclusion, Critical, FlagInv, UnwrittenInv, CopyInv, ring, Slots
  <2>6. TransferInv'
    BY <1>0, <1>s, <1>1 DEF Call, TypeOK, MutualExclusion, Critical, TransferInv, ring, Slots
  <2> QED BY <2>1, <2>2, <2>3, <2>4, <2>5, <2>6 DEF IndInv
<1>2. CASE SeeRoom(p)
  <2>1. TypeOK'
    BY <1>0, <1>s, <1>2 DEF SeeRoom, TypeOK, ring, ProducerLabels, ConsumerLabels, Slots
  <2>2. MutualExclusion'
    BY <1>0, <1>2 DEF SeeRoom, TypeOK, MutualExclusion, Critical
  <2>3. FlagInv'
    BY <1>0, <1>s, <1>2 DEF SeeRoom, TypeOK, MutualExclusion, Critical, FlagInv, ring, NextSlot, Slots
  <2>4. UnwrittenInv'
    BY <1>0, <1>s, <1>2 DEF SeeRoom, TypeOK, MutualExclusion, Critical, FlagInv, UnwrittenInv, ring, Slots
  <2>5. CopyInv'
    BY <1>0, <1>2 DEF SeeRoom, TypeOK, MutualExclusion, Critical, FlagInv, UnwrittenInv, CopyInv, ring, Slots
  <2>6. TransferInv'
    BY <1>0, <1>s, <1>2 DEF SeeRoom, TypeOK, MutualExclusion, Critical, TransferInv, ring, Slots
  <2> QED BY <2>1, <2>2, <2>3, <2>4, <2>5, <2>6 DEF IndInv
<1>3. CASE SeeFull(p)
  <2>1. TypeOK'
    BY <1>0, <1>s, <1>3 DEF SeeFull, TypeOK, ring, ProducerLabels, ConsumerLabels, Slots
  <2>2. MutualExclusion'
    BY <1>0, <1>3 DEF SeeFull, TypeOK, MutualExclusion, Critical
  <2>3. FlagInv'
    BY <1>0, <1>s, <1>3 DEF SeeFull, TypeOK, MutualExclusion, Critical, FlagInv, ring, NextSlot, Slots
  <2>4. UnwrittenInv'
    BY <1>0, <1>s, <1>3 DEF SeeFull, TypeOK, MutualExclusion, Critical, FlagInv, UnwrittenInv, ring, Slots
  <2>5. CopyInv'
    BY <1>0, <1>3 DEF SeeFull, TypeOK, MutualExclusion, Critical, FlagInv, UnwrittenInv, CopyInv, ring, Slots
  <2>6. TransferInv'
    BY <1>0, <1>s, <1>3 DEF SeeFull, TypeOK, MutualExclusion, Critical, TransferInv, ring, Slots
  <2> QED BY <2>1, <2>2, <2>3, <2>4, <2>5, <2>6 DEF IndInv
<1>4. CASE LockForPut(p)
  <2>1. TypeOK'
    BY <1>0, <1>s, <1>4 DEF LockForPut, TypeOK, ring, ProducerLabels, ConsumerLabels, Slots
  <2>2. MutualExclusion'
    BY <1>0, <1>4 DEF LockForPut, TypeOK, MutualExclusion, Critical
  <2>3. FlagInv'
    BY <1>0, <1>s, <1>4 DEF LockForPut, TypeOK, MutualExclusion, Critical, FlagInv, ring, NextSlot, Slots
  <2>4. UnwrittenInv'
    BY <1>0, <1>s, <1>4 DEF LockForPut, TypeOK, MutualExclusion, Critical, FlagInv, UnwrittenInv, ring, Slots
  <2>5. CopyInv'
    BY <1>0, <1>4 DEF LockForPut, TypeOK, MutualExclusion, Critical, FlagInv, UnwrittenInv, CopyInv, ring, Slots
  <2>6. TransferInv'
    BY <1>0, <1>s, <1>4 DEF LockForPut, TypeOK, MutualExclusion, Critical, TransferInv, ring, Slots
  <2> QED BY <2>1, <2>2, <2>3, <2>4, <2>5, <2>6 DEF IndInv
<1>5. CASE Recheck(p)
  <2>1. TypeOK'
    BY <1>0, <1>s, <1>5 DEF Recheck, TypeOK, ring, ProducerLabels, ConsumerLabels, Slots
  <2>2. MutualExclusion'
    BY <1>0, <1>5 DEF Recheck, TypeOK, MutualExclusion, Critical
  <2>3. FlagInv'
    BY <1>0, <1>s, <1>5 DEF Recheck, TypeOK, MutualExclusion, Critical, FlagInv, ring, NextSlot, Slots
  <2>4. UnwrittenInv'
    BY <1>0, <1>s, <1>5 DEF Recheck, TypeOK, MutualExclusion, Critical, FlagInv, UnwrittenInv, ring, Slots
  <2>5. CopyInv'
    BY <1>0, <1>5 DEF Recheck, TypeOK, MutualExclusion, Critical, FlagInv, UnwrittenInv, CopyInv, ring, Slots
  <2>6. TransferInv'
    BY <1>0, <1>s, <1>5 DEF Recheck, TypeOK, MutualExclusion, Critical, TransferInv, ring, Slots
  <2> QED BY <2>1, <2>2, <2>3, <2>4, <2>5, <2>6 DEF IndInv
<1>6. CASE UnlockFull(p)
  <2>1. TypeOK'
    BY <1>0, <1>s, <1>6 DEF UnlockFull, TypeOK, ring, ProducerLabels, ConsumerLabels, Slots
  <2>2. MutualExclusion'
    BY <1>0, <1>6 DEF UnlockFull, TypeOK, MutualExclusion, Critical
  <2>3. FlagInv'
    BY <1>0, <1>s, <1>6 DEF UnlockFull, TypeOK, MutualExclusion, Critical, FlagInv, ring, NextSlot, Slots
  <2>4. UnwrittenInv'
    BY <1>0, <1>s, <1>6 DEF UnlockFull, TypeOK, MutualExclusion, Critical, FlagInv, UnwrittenInv, ring, Slots
  <2>5. CopyInv'
    BY <1>0, <1>6 DEF UnlockFull, TypeOK, MutualExclusion, Critical, FlagInv, UnwrittenInv, CopyInv, ring, Slots
  <2>6. TransferInv'
    BY <1>0, <1>s, <1>6 DEF UnlockFull, TypeOK, MutualExclusion, Critical, TransferInv, ring, Slots
  <2> QED BY <2>1, <2>2, <2>3, <2>4, <2>5, <2>6 DEF IndInv
<1>7. CASE Write(p)
  <2>1. TypeOK'
    BY <1>0, <1>s, <1>7 DEF Write, TypeOK, ring, ProducerLabels, ConsumerLabels, Slots
  <2>2. MutualExclusion'
    BY <1>0, <1>7 DEF Write, TypeOK, MutualExclusion, Critical
  <2>3. FlagInv'
    <3>1. /\ NextSlot(head') = IF head' = Size - 1 THEN 0 ELSE head' + 1
          /\ NextSlot(tail') = IF tail' = Size - 1 THEN 0 ELSE tail' + 1
      BY <2>1, SlotSteps DEF TypeOK
    <3> QED BY <1>0, <1>s, <1>7, <3>1 DEF Write, TypeOK, MutualExclusion, Critical, FlagInv, Slots
  <2>4. UnwrittenInv'
    BY <1>0, <1>s, <1>7 DEF Write, TypeOK, MutualExclusion, Critical, FlagInv, UnwrittenInv, ring, Slots
  <2>5. CopyInv'
    BY <1>0, <1>7 DEF Write, TypeOK, MutualExclusion, Critical, FlagInv, UnwrittenInv, CopyInv, ring, Slots
  <2>6. TransferInv'
    BY <1>0, <1>s, <1>7 DEF Write, TypeOK, MutualExclusion, Critical, TransferInv, ring, Slots
  <2> QED BY <2>1, <2>2, <2>3, <2>4, <2>5, <2>6 DEF IndInv
<1>8. CASE SetFull(p)
  <2>1. TypeOK'
    BY <1>0, <1>s, <1>8 DEF SetFull, TypeOK, ring, ProducerLabels, ConsumerLabels, Slots
  <2>2. MutualExclusion'
    BY <1>0, <1>8 DEF SetFull, TypeOK, MutualExclusion, Critical
  <2>3. FlagInv'
    <3>1. /\ NextSlot(head') = IF head' = Size - 1 THEN 0 ELSE head' + 1
          /\ NextSlot(tail') = IF tail' = Size - 1 THEN 0 ELSE tail' + 1
      BY <2>1, SlotSteps DEF TypeOK
    <3>2. /\ full' <=> head = tail
          /\ empty' <=> empty
      BY <1>8 DEF SetFull
    <3>3. /\ pc[p] = "set_full"
          /\ pc' = [pc EXCEPT ![p] = "clear_empty"]
          /\ head' = head /\ tail' = tail
      BY <1>8 DEF SetFull
    <3> QED BY <1>0, <1>s, <3>1, <3>2, <3>3 DEF TypeOK, MutualExclusion, Critical, FlagInv, Slots
  <2>4. UnwrittenInv'
    BY <1>0, <1>s, <1>8 DEF SetFull, TypeOK, MutualExclusion, Critical, FlagInv, UnwrittenInv, ring, Slots
  <2>5. CopyInv'
    BY <1>0, <1>8 DEF SetFull, TypeOK, MutualExclusion, Critical, FlagInv, UnwrittenInv, CopyInv, ring, Slots
  <2>6. TransferInv'
    BY <1>0, <1>s, <1>8 DEF SetFull, TypeOK, MutualExclusion, Critical, TransferInv, ring, Slots
  <2> QED BY <2>1, <2>2, <2>3, <2>4, <2>5, <2>6 DEF IndInv
<1>9. CASE ClearEmpty(p)
  <2>1. TypeOK'
    BY <1>0, <1>s, <1>9 DEF ClearEmpty, TypeOK, ring, ProducerLabels, ConsumerLabels, Slots
  <2>2. MutualExclusion'
    BY <1>0, <1>9 DEF ClearEmpty, TypeOK, MutualExclusion, Critical
  <2>3. FlagInv'
    BY <1>0, <1>s, <1>9 DEF ClearEmpty, TypeOK, MutualExclusion, Critical, FlagInv, ring, NextSlot, Slots
  <2>4. UnwrittenInv'
    BY <1>0, <1>s, <1>9 DEF ClearEmpty, TypeOK, MutualExclusion, Critical, FlagInv, UnwrittenInv, ring, Slots
  <2>5. CopyInv'
    BY <1>0, <1>9 DEF ClearEmpty, TypeOK, MutualExclusion, Critical, FlagInv, UnwrittenInv, CopyInv, ring, Slots
  <2>6. TransferInv'
    BY <1>0, <1>s, <1>9 DEF ClearEmpty, TypeOK, MutualExclusion, Critical, TransferInv, ring, Slots
  <2> QED BY <2>1, <2>2, <2>3, <2>4, <2>5, <2>6 DEF IndInv
<1>10. CASE UnlockPut(p)
  <2>1. TypeOK'
    BY <1>0, <1>s, <1>10 DEF UnlockPut, TypeOK, ring, ProducerLabels, ConsumerLabels, Slots
  <2>2. MutualExclusion'
    BY <1>0, <1>10 DEF UnlockPut, TypeOK, MutualExclusion, Critical
  <2>3. FlagInv'
    BY <1>0, <1>s, <1>10 DEF UnlockPut, TypeOK, MutualExclusion, Critical, FlagInv, ring, NextSlot, Slots
  <2>4. UnwrittenInv'
    BY <1>0, <1>s, <1>10 DEF UnlockPut, TypeOK, MutualExclusion, Critical, FlagInv, UnwrittenInv, ring, Slots
  <2>5. CopyInv'
    BY <1>0, <1>10 DEF UnlockPut, TypeOK, MutualExclusion, Critical, FlagInv, UnwrittenInv, CopyInv, ring, Slots
  <2>6. TransferInv'
    BY <1>0, <1>s, <1>10 DEF UnlockPut, TypeOK, MutualExclusion, Critical, TransferInv, ring, Slots
  <2> QED BY <2>1, <2>2, <2>3, <2>4, <2>5, <2>6 DEF IndInv
<1>11. CASE Return(p)
  <2>1. TypeOK'
    BY <1>0, <1>s, <1>11 DEF Return, TypeOK, ring, ProducerLabels, ConsumerLabels, Slots
  <2>2. MutualExclusion'
    BY <1>0, <1>11 DEF Return, TypeOK, MutualExclusion, Critical
  <2>3. FlagInv'
    BY <1>0, <1>s, <1>11 DEF Return, TypeOK, MutualExclusion, Critical, FlagInv, ring, NextSlot, Slots
  <2>4. UnwrittenInv'
    BY <1>0, <1>s, <1>11 DEF Return, TypeOK, MutualExclusion, Critical, FlagInv, UnwrittenInv, ring, Slots
  <2>5. CopyInv'
    BY <1>0, <1>11 DEF Return, TypeOK, MutualExclusion, Critical, FlagInv, UnwrittenInv, CopyInv, ring, Slots
  <2>6. TransferInv'
    BY <1>0, <1>s, <1>11 DEF Return, TypeOK, MutualExclusion, Critical, TransferInv, ring, Slots
  <2> QED BY <2>1, <2>2, <2>3, <2>4, <2>5, <2>6 DEF IndInv
<1> QED BY <1>1, <1>2, <1>3, <1>4, <1>5, <1>6, <1>7, <1>8, <1>9, <1>10, <1>11 DEF PutStep

\* A step of the consumer preserves the invariant.
LEMMA ConsumerInv ==
  ASSUME IndInv, GetStep
  PROVE  IndInv'
<1> USE SizeAssumption, ThreadsAssumption, ItemsAssumption DEF Goto, Threads, Ops
<1>0. TypeOK /\ MutualExclusion /\ FlagInv /\ UnwrittenInv /\ CopyInv /\ TransferInv
  BY DEF IndInv
<1>s. /\ NextSlot(head) = IF head = Size - 1 THEN 0 ELSE head + 1
      /\ NextSlot(tail) = IF tail = Size - 1 THEN 0 ELSE tail + 1
      /\ PrevSlot(NextSlot(head)) = head
      /\ PrevSlot(NextSlot(tail)) = tail
  BY <1>0, SlotSteps DEF TypeOK
<1>1. CASE SeeEmpty
  <2>1. TypeOK'
    BY <1>0, <1>s, <1>1 DEF SeeEmpty, TypeOK, ring, ProducerLabels, ConsumerLabels, Slots
  <2>2. MutualExclusion'
    BY <1>0, <1>1 DEF SeeEmpty, TypeOK, MutualExclusion, Critical
  <2>3. FlagInv'
    BY <1>0, <1>s, <1>1 DEF SeeEmpty, TypeOK, MutualExclusion, Critical, FlagInv, ring, NextSlot, Slots
  <2>4. UnwrittenInv'
    BY <1>0, <1>s, <1>1 DEF SeeEmpty, TypeOK, MutualExclusion, Critical, FlagInv, UnwrittenInv, ring, Slots
  <2>5. CopyInv'
    BY <1>0, <1>1 DEF SeeEmpty, TypeOK, MutualExclusion, Critical, FlagInv, UnwrittenInv, CopyInv, ring, Slots
  <2>6. TransferInv'
    BY <1>0, <1>s, <1>1 DEF SeeEmpty, TypeOK, MutualExclusion, Critical, TransferInv, ring, Slots
  <2> QED BY <2>1, <2>2, <2>3, <2>4, <2>5, <2>6 DEF IndInv
<1>2. CASE SeeItem
  <2>1. TypeOK'
    BY <1>0, <1>s, <1>2 DEF SeeItem, TypeOK, ring, ProducerLabels, ConsumerLabels, Slots
  <2>2. MutualExclusion'
    BY <1>0, <1>2 DEF SeeItem, TypeOK, MutualExclusion, Critical
  <2>3. FlagInv'
    BY <1>0, <1>s, <1>2 DEF SeeItem, TypeOK, MutualExclusion, Critical, FlagInv, ring, NextSlot, Slots
  <2>4. UnwrittenInv'
    BY <1>0, <1>s, <1>2 DEF SeeItem, TypeOK, MutualExclusion, Critical, FlagInv, UnwrittenInv, ring, Slots
  <2>5. CopyInv'
    BY <1>0, <1>2 DEF SeeItem, TypeOK, MutualExclusion, Critical, FlagInv, UnwrittenInv, CopyInv, ring, Slots
  <2>6. TransferInv'
    BY <1>0, <1>s, <1>2 DEF SeeItem, TypeOK, MutualExclusion, Critical, TransferInv, ring, Slots
  <2> QED BY <2>1, <2>2, <2>3, <2>4, <2>5, <2>6 DEF IndInv
<1>3. CASE LockForGet
  <2>1. TypeOK'
    BY <1>0, <1>s, <1>3 DEF LockForGet, TypeOK, ring, ProducerLabels, ConsumerLabels, Slots
  <2>2. MutualExclusion'
    BY <1>0, <1>3 DEF LockForGet, TypeOK, MutualExclusion, Critical
  <2>3. FlagInv'
    BY <1>0, <1>s, <1>3 DEF LockForGet, TypeOK, MutualExclusion, Critical, FlagInv, ring, NextSlot, Slots
  <2>4. UnwrittenInv'
    BY <1>0, <1>s, <1>3 DEF LockForGet, TypeOK, MutualExclusion, Critical, FlagInv, UnwrittenInv, ring, Slots
  <2>5. CopyInv'
    BY <1>0, <1>3 DEF LockForGet, TypeOK, MutualExclusion, Critical, FlagInv, UnwrittenInv, CopyInv, ring, Slots
  <2>6. TransferInv'
    BY <1>0, <1>s, <1>3 DEF LockForGet, TypeOK, MutualExclusion, Critical, TransferInv, ring, Slots
  <2> QED BY <2>1, <2>2, <2>3, <2>4, <2>5, <2>6 DEF IndInv
<1>4. CASE Copy
  <2>1. TypeOK'
    BY <1>0, <1>s, <1>4 DEF Copy, TypeOK, ring, ProducerLabels, ConsumerLabels, Slots
  <2>2. MutualExclusion'
    BY <1>0, <1>4 DEF Copy, TypeOK, MutualExclusion, Critical
  <2>3. FlagInv'
    BY <1>0, <1>s, <1>4 DEF Copy, TypeOK, MutualExclusion, Critical, FlagInv, ring, NextSlot, Slots
  <2>4. UnwrittenInv'
    BY <1>0, <1>s, <1>4 DEF Copy, TypeOK, MutualExclusion, Critical, FlagInv, UnwrittenInv, ring, Slots
  <2>5. CopyInv'
    BY <1>0, <1>4 DEF Copy, TypeOK, MutualExclusion, Critical, FlagInv, UnwrittenInv, CopyInv, ring, Slots
  <2>6. TransferInv'
    BY <1>0, <1>s, <1>4 DEF Copy, TypeOK, MutualExclusion, Critical, TransferInv, ring, Slots
  <2> QED BY <2>1, <2>2, <2>3, <2>4, <2>5, <2>6 DEF IndInv
<1>5. CASE SetEmpty
  <2>1. TypeOK'
    BY <1>0, <1>s, <1>5 DEF SetEmpty, TypeOK, ring, ProducerLabels, ConsumerLabels, Slots
  <2>2. MutualExclusion'
    BY <1>0, <1>5 DEF SetEmpty, TypeOK, MutualExclusion, Critical
  <2>3. FlagInv'
    <3>1. /\ NextSlot(head') = IF head' = Size - 1 THEN 0 ELSE head' + 1
          /\ NextSlot(tail') = IF tail' = Size - 1 THEN 0 ELSE tail' + 1
      BY <2>1, SlotSteps DEF TypeOK
    <3>2. /\ empty' <=> head = tail
          /\ full' <=> full
      BY <1>5 DEF SetEmpty
    <3>3. /\ pc[Consumer] = "set_empty"
          /\ pc' = [pc EXCEPT ![Consumer] = "clear_full"]
          /\ head' = head /\ tail' = tail
      BY <1>5 DEF SetEmpty
    <3> QED BY <1>0, <1>s, <3>1, <3>2, <3>3 DEF TypeOK, MutualExclusion, Critical, FlagInv, Slots
  <2>4. UnwrittenInv'
    BY <1>0, <1>s, <1>5 DEF SetEmpty, TypeOK, MutualExclusion, Critical, FlagInv, UnwrittenInv, ring, Slots
  <2>5. CopyInv'
    BY <1>0, <1>5 DEF SetEmpty, TypeOK, MutualExclusion, Critical, FlagInv, UnwrittenInv, CopyInv, ring, Slots
  <2>6. TransferInv'
    BY <1>0, <1>s, <1>5 DEF SetEmpty, TypeOK, MutualExclusion, Critical, TransferInv, ring, Slots
  <2> QED BY <2>1, <2>2, <2>3, <2>4, <2>5, <2>6 DEF IndInv
<1>6. CASE ClearFull
  <2>1. TypeOK'
    BY <1>0, <1>s, <1>6 DEF ClearFull, TypeOK, ring, ProducerLabels, ConsumerLabels, Slots
  <2>2. MutualExclusion'
    BY <1>0, <1>6 DEF ClearFull, TypeOK, MutualExclusion, Critical
  <2>3. FlagInv'
    BY <1>0, <1>s, <1>6 DEF ClearFull, TypeOK, MutualExclusion, Critical, FlagInv, ring, NextSlot, Slots
  <2>4. UnwrittenInv'
    BY <1>0, <1>s, <1>6 DEF ClearFull, TypeOK, MutualExclusion, Critical, FlagInv, UnwrittenInv, ring, Slots
  <2>5. CopyInv'
    BY <1>0, <1>6 DEF ClearFull, TypeOK, MutualExclusion, Critical, FlagInv, UnwrittenInv, CopyInv, ring, Slots
  <2>6. TransferInv'
    BY <1>0, <1>s, <1>6 DEF ClearFull, TypeOK, MutualExclusion, Critical, TransferInv, ring, Slots
  <2> QED BY <2>1, <2>2, <2>3, <2>4, <2>5, <2>6 DEF IndInv
<1>7. CASE UnlockGet
  <2>1. TypeOK'
    BY <1>0, <1>s, <1>7 DEF UnlockGet, TypeOK, ring, ProducerLabels, ConsumerLabels, Slots
  <2>2. MutualExclusion'
    BY <1>0, <1>7 DEF UnlockGet, TypeOK, MutualExclusion, Critical
  <2>3. FlagInv'
    BY <1>0, <1>s, <1>7 DEF UnlockGet, TypeOK, MutualExclusion, Critical, FlagInv, ring, NextSlot, Slots
  <2>4. UnwrittenInv'
    BY <1>0, <1>s, <1>7 DEF UnlockGet, TypeOK, MutualExclusion, Critical, FlagInv, UnwrittenInv, ring, Slots
  <2>5. CopyInv'
    BY <1>0, <1>7 DEF UnlockGet, TypeOK, MutualExclusion, Critical, FlagInv, UnwrittenInv, CopyInv, ring, Slots
  <2>6. TransferInv'
    BY <1>0, <1>s, <1>7 DEF UnlockGet, TypeOK, MutualExclusion, Critical, TransferInv, ring, Slots
  <2> QED BY <2>1, <2>2, <2>3, <2>4, <2>5, <2>6 DEF IndInv
<1>8. CASE GetReturns
  <2>1. TypeOK'
    BY <1>0, <1>s, <1>8 DEF GetReturns, TypeOK, ring, ProducerLabels, ConsumerLabels, Slots
  <2>2. MutualExclusion'
    BY <1>0, <1>8 DEF GetReturns, TypeOK, MutualExclusion, Critical
  <2>3. FlagInv'
    BY <1>0, <1>s, <1>8 DEF GetReturns, TypeOK, MutualExclusion, Critical, FlagInv, ring, NextSlot, Slots
  <2>4. UnwrittenInv'
    BY <1>0, <1>s, <1>8 DEF GetReturns, TypeOK, MutualExclusion, Critical, FlagInv, UnwrittenInv, ring, Slots
  <2>5. CopyInv'
    BY <1>0, <1>8 DEF GetReturns, TypeOK, MutualExclusion, Critical, FlagInv, UnwrittenInv, CopyInv, ring, Slots
  <2>6. TransferInv'
    BY <1>0, <1>s, <1>8 DEF GetReturns, TypeOK, MutualExclusion, Critical, TransferInv, ring, Slots
  <2> QED BY <2>1, <2>2, <2>3, <2>4, <2>5, <2>6 DEF IndInv
<1> QED BY <1>1, <1>2, <1>3, <1>4, <1>5, <1>6, <1>7, <1>8 DEF GetStep

\* The invariant holds in every reachable state of the ring.
THEOREM Invariant == Spec => []IndInv
<1>1. IndInv /\ [Next]_vars => IndInv'
  <2> SUFFICES ASSUME IndInv, [Next]_vars PROVE IndInv'
    OBVIOUS
  <2>1. CASE UNCHANGED vars
    BY <2>1 DEF vars, IndInv, TypeOK, MutualExclusion, FlagInv, UnwrittenInv, CopyInv, TransferInv
  <2>2. ASSUME NEW p \in Producers, Call(p) \/ PutStep(p) PROVE IndInv'
    BY <2>2, ProducerInv
  <2>3. CASE GetStep
    BY <2>3, ConsumerInv
  <2> QED BY <2>1, <2>2, <2>3 DEF Next
<1> QED BY InitInv, <1>1, PTL DEF Spec

-------------------------------------------------------------------------------
(* What the flags say about the queue the ring represents.                    *)

\* The queue's ends are slots, and its length follows from them and from full.
LEMMA Ends ==
  ASSUME TypeOK
  PROVE  /\ First \in Slots /\ Limit \in Slots
         /\ First = IF Unreleased THEN IF tail = 0 THEN Size - 1 ELSE tail - 1 ELSE tail
         /\ Limit = IF Unpublished THEN IF head = 0 THEN Size - 1 ELSE head - 1 ELSE head
         /\ Occupancy = IF First = Limit THEN IF full THEN Size ELSE 0
                        ELSE IF First < Limit THEN Limit - First ELSE Limit + Size - First
         /\ Occupancy \in 0 .. Size
<1>1. /\ PrevSlot(tail) = IF tail = 0 THEN Size - 1 ELSE tail - 1
      /\ PrevSlot(head) = IF head = 0 THEN Size - 1 ELSE head - 1
      /\ PrevSlot(tail) \in Slots /\ PrevSlot(head) \in Slots
      /\ tail \in Slots /\ head \in Slots
  BY SlotSteps DEF TypeOK
<1>2. /\ First \in Slots /\ Limit \in Slots
      /\ First = IF Unreleased THEN IF tail = 0 THEN Size - 1 ELSE tail - 1 ELSE tail
      /\ Limit = IF Unpublished THEN IF head = 0 THEN Size - 1 ELSE head - 1 ELSE head
  BY <1>1 DEF First, Limit
<1>3. (Limit + Size - First) % Size = IF First <= Limit THEN Limit - First ELSE Limit + Size - First
  BY <1>2, Distance
<1> QED BY <1>2, <1>3, SizeAssumption DEF Occupancy, Slots

\* At most one operation is between its index and its flags.
LEMMA OneAtATime ==
  ASSUME IndInv
  PROVE  ~(Unpublished /\ Unreleased)
BY ThreadsAssumption DEF IndInv, MutualExclusion, Critical, Threads, Unpublished, Unreleased

\* The inductive invariant makes the unlocked flags exact.
LEMMA InvFlagsExact == IndInv => FlagsExact
<1> SUFFICES ASSUME IndInv PROVE FlagsExact
  OBVIOUS
<1>1. TypeOK /\ MutualExclusion /\ FlagInv
  BY DEF IndInv
<1>2. /\ NextSlot(head) = IF head = Size - 1 THEN 0 ELSE head + 1
      /\ NextSlot(tail) = IF tail = Size - 1 THEN 0 ELSE tail + 1
      /\ head \in Slots /\ tail \in Slots
  BY <1>1, SlotSteps DEF TypeOK
<1>3. empty \in BOOLEAN /\ full \in BOOLEAN
  BY <1>1 DEF TypeOK
<1>4. CASE Unpublished
  <2>1. ~Unreleased
    BY <1>4, OneAtATime
  <2>2. PICK p \in Producers : pc[p] = "set_full" \/ (pc[p] = "clear_empty" /\ ~full)
    BY <1>4 DEF Unpublished
  <2>3. ~full /\ (empty <=> head = NextSlot(tail)) /\ (pc[p] = "clear_empty" => head # tail)
    BY <1>1, <2>2 DEF FlagInv
  <2> QED BY <1>1, <1>2, <1>3, <1>4, <2>1, <2>3, Ends, SizeAssumption DEF FlagsExact, Slots
<1>5. CASE Unreleased
  <2>1. ~Unpublished
    BY <1>5, OneAtATime
  <2>2. ~empty /\ (full <=> tail = NextSlot(head))
    BY <1>1, <1>5 DEF Unreleased, FlagInv
  <2> QED BY <1>1, <1>2, <1>3, <1>5, <2>1, <2>2, Ends, SizeAssumption DEF FlagsExact, Slots
<1>6. CASE ~Unpublished /\ ~Unreleased
  <2>1. head = tail <=> (empty \/ full)
    BY <1>1, <1>6 DEF FlagInv, Unpublished, Unreleased
  <2>2. ~(empty /\ full)
    BY <1>1 DEF FlagInv
  <2> QED BY <1>1, <1>2, <1>3, <1>6, <2>1, <2>2, Ends, SizeAssumption DEF FlagsExact, Slots
<1> QED BY <1>4, <1>5, <1>6

\* The flags read without the lock are exact in every state of every ring.
THEOREM FlagsCorrect == Spec => []FlagsExact
BY Invariant, InvFlagsExact, PTL

\* Type correctness of the ring.
THEOREM TypeCorrect == Spec => []TypeOK
<1>1. IndInv => TypeOK
  BY DEF IndInv
<1> QED BY Invariant, <1>1, PTL

\* The spin lock gives mutual exclusion to put, ensure_put and get.
THEOREM LockCorrect == Spec => []MutualExclusion
<1>1. IndInv => MutualExclusion
  BY DEF IndInv
<1> QED BY Invariant, <1>1, PTL

\* get never reads an empty ring, although it checks before it locks.
THEOREM GetCorrect == Spec => []GetNeverUnderflows
<1>1. IndInv => GetNeverUnderflows
  <2> SUFFICES ASSUME IndInv PROVE GetNeverUnderflows
    OBVIOUS
  <2>1. Occupancy \in 0 .. Size /\ (empty <=> Occupancy = 0)
    BY Ends, InvFlagsExact DEF IndInv, FlagsExact
  <2>2. pc[Consumer] \in {"get_lock", "copy"} => ~empty
    BY DEF IndInv, FlagInv
  <2>3. pc[Consumer] \in {"set_empty", "took"} => got # NoItem
    BY ItemsAssumption DEF IndInv, CopyInv
  <2> QED BY <2>1, <2>2, <2>3, SizeAssumption DEF GetNeverUnderflows
<1> QED BY Invariant, <1>1, PTL

\* put and ensure_put never overwrite an item that has not been taken.
THEOREM PutCorrect == Spec => []PutNeverOverwrites
<1>1. IndInv => PutNeverOverwrites
  <2> SUFFICES ASSUME IndInv, NEW p \in Producers, pc[p] = "write" PROVE Occupancy < Size
    BY DEF PutNeverOverwrites
  <2>1. Occupancy \in 0 .. Size /\ (full <=> Occupancy = Size)
    BY Ends, InvFlagsExact DEF IndInv, FlagsExact
  <2>2. ~full
    BY DEF IndInv, FlagInv
  <2> QED BY <2>1, <2>2, SizeAssumption
<1> QED BY Invariant, <1>1, PTL

-------------------------------------------------------------------------------
(* The contents of the ring.                                                  *)

\* The slot of the n-th item.
SlotOf(n) == IF First + n - 1 < Size THEN First + n - 1 ELSE First + n - 1 - Size

ContentsShape ==
    /\ First \in Slots
    /\ Occupancy \in 0 .. Size
    /\ \A n \in 1 .. Occupancy : SlotOf(n) \in Slots
    /\ Contents = [n \in 1 .. Occupancy |-> data[SlotOf(n)]]

\* The items of the queue are those in the slots from the first one on.
LEMMA ContentsAt == TypeOK => ContentsShape
<1> SUFFICES ASSUME TypeOK PROVE ContentsShape
  OBVIOUS
<1>1. First \in Slots /\ Occupancy \in 0 .. Size
  BY Ends
<1>2. ASSUME NEW n \in 1 .. Occupancy
      PROVE  (First + n - 1) % Size = SlotOf(n) /\ SlotOf(n) \in Slots
  <2>1. First + n - 1 \in Nat /\ First + n - 1 < 2 * Size
    BY <1>1, SizeAssumption DEF Slots
  <2> QED BY <1>1, <2>1, ModOnce, SizeAssumption DEF SlotOf, Slots
<1> QED BY <1>1, <1>2 DEF ContentsShape, Contents

\* The same facts about the state after a step.
LEMMA ContentsAtNext == TypeOK' => ContentsShape'
BY ContentsAt, PTL

\* The queue is a sequence as long as the ring is occupied.
LEMMA ContentsSeq ==
  ASSUME TypeOK
  PROVE  /\ Contents \in Seq(Items \cup {NoItem})
         /\ Len(Contents) = Occupancy
         /\ Occupancy \in 0 .. Size
<1>1. \A n \in 1 .. Occupancy : data[SlotOf(n)] \in Items \cup {NoItem}
  BY ContentsAt DEF TypeOK, ContentsShape
<1> QED BY <1>1, ContentsAt, SizeAssumption DEF ContentsShape

\* A step that moves neither end, and writes no occupied slot, leaves the
\* queue as it is.
LEMMA ContentsUnchanged ==
  ASSUME TypeOK, TypeOK', First' = First, Occupancy' = Occupancy,
         \A n \in 1 .. Occupancy : data'[SlotOf(n)] = data[SlotOf(n)]
  PROVE  Contents' = Contents
<1>1. \A n \in 1 .. Occupancy : SlotOf(n)' = SlotOf(n)
  BY DEF SlotOf
<1> QED BY <1>1, ContentsAtNext, ContentsAt DEF ContentsShape

\* A step that only makes the queue one longer appends the item in the slot
\* behind its last one.
LEMMA ContentsAppend ==
  ASSUME TypeOK, TypeOK', First' = First, Occupancy' = Occupancy + 1, data' = data,
         NEW i, data[SlotOf(Occupancy + 1)] = i
  PROVE  Contents' = Append(Contents, i)
<1>1. \A n \in 1 .. Occupancy + 1 : SlotOf(n)' = SlotOf(n)
  BY DEF SlotOf
<1>2. Contents' = [n \in 1 .. Occupancy + 1 |-> data[SlotOf(n)]]
  BY <1>1, ContentsAtNext DEF ContentsShape
<1>3. Contents = [n \in 1 .. Occupancy |-> data[SlotOf(n)]]
  BY ContentsAt DEF ContentsShape
<1>4. Append(Contents, i) = [n \in 1 .. Occupancy + 1 |-> IF n = Occupancy + 1 THEN i ELSE Contents[n]]
  BY <1>3, ContentsSeq
<1> QED BY <1>2, <1>3, <1>4, ContentsSeq

\* A step that only moves the queue's first slot removes its first item.
LEMMA ContentsTail ==
  ASSUME TypeOK, TypeOK', First' = NextSlot(First), Occupancy > 0,
         Occupancy' = Occupancy - 1, data' = data
  PROVE  /\ Contents # << >>
         /\ Head(Contents) = data[First]
         /\ Contents' = Tail(Contents)
<1>0. First \in Slots /\ Occupancy \in 1 .. Size
  BY ContentsAt, SizeAssumption DEF ContentsShape
<1>1. \A n \in 1 .. Occupancy - 1 : SlotOf(n)' = SlotOf(n + 1)
  BY <1>0, SlotSteps, SizeAssumption DEF SlotOf, Slots
<1>2. Contents' = [n \in 1 .. Occupancy - 1 |-> data[SlotOf(n + 1)]]
  BY <1>1, ContentsAtNext DEF ContentsShape
<1>3. Contents = [n \in 1 .. Occupancy |-> data[SlotOf(n)]]
  BY ContentsAt DEF ContentsShape
<1>4. SlotOf(1) = First
  BY <1>0, SizeAssumption DEF SlotOf, Slots
<1>5. Len(Contents) = Occupancy /\ Contents \in Seq(Items \cup {NoItem})
  BY ContentsSeq
<1>6. Contents # << >> /\ Head(Contents) = data[First]
  BY <1>0, <1>3, <1>4, <1>5
<1>7. Tail(Contents) = [n \in 1 .. Occupancy - 1 |-> Contents[n + 1]]
  BY <1>0, <1>5, <1>6, HeadTailProperties, LenProperties
<1> QED BY <1>0, <1>2, <1>3, <1>6, <1>7

-------------------------------------------------------------------------------
(* The steps of the ring, as steps of the queue.                              *)

\* While a thread holds the lock no other one is between its index and flags.
LEMMA ProducerHolds ==
  ASSUME IndInv, NEW p \in Producers, pc[p] \in Critical
  PROVE  /\ ~Unreleased
         /\ pc[Consumer] # "clear_full"
         /\ Unpublished <=> (pc[p] = "set_full" \/ (pc[p] = "clear_empty" /\ ~full))
         /\ \A q \in Producers : q # p => pc[q] \notin {"set_full", "clear_empty"}
BY ThreadsAssumption DEF IndInv, MutualExclusion, Critical, Threads, Unpublished, Unreleased

\* While the consumer is in its critical section no producer is between index
\* and flags.
LEMMA ConsumerHolds ==
  ASSUME IndInv, pc[Consumer] \in Critical
  PROVE  /\ ~Unpublished
         /\ \A q \in Producers : pc[q] \notin {"set_full", "clear_empty"}
BY ThreadsAssumption DEF IndInv, MutualExclusion, Critical, Threads, Unpublished

\* A step that leaves the ring alone and changes nobody's standing between
\* index and flags leaves the queue as it is.
LEMMA RingUntouched ==
  ASSUME TypeOK, TypeOK', UNCHANGED ring, Unpublished' <=> Unpublished, Unreleased' <=> Unreleased
  PROVE  Contents' = Contents
<1>1. First' = First /\ Limit' = Limit
  BY DEF First, Limit, ring
<1>2. Occupancy' = Occupancy
  BY <1>1 DEF Occupancy, ring
<1> QED BY <1>1, <1>2, ContentsUnchanged DEF ring

\* A producer's step on its own request, seen from the queue.
LEMMA RequestStep ==
  ASSUME TypeOK, NEW p \in Producers, NEW l, NEW st,
         pc' = [pc EXCEPT ![p] = l], op' = op, item' = item,
         RequestState(p)' = st,
         \A q \in Producers : q # p => RequestState(q)' = RequestState(q)
  PROVE  Request' = [Request EXCEPT ![p].state = st]
BY DEF Request, TypeOK

\* Every step of put and ensure_put is a step of the queue or none at all.
LEMMA ProducerRefines ==
  ASSUME IndInv, IndInv', NEW p \in Producers, Call(p) \/ PutStep(p)
  PROVE  [Queue!Next]_(Queue!vars)
<1> USE ThreadsAssumption DEF Goto
<1>0. TypeOK /\ TypeOK'
  BY DEF IndInv
<1>t. pc \in [Threads -> ProducerLabels \cup ConsumerLabels] /\ p # Consumer
      /\ p \in Threads /\ Consumer \in Threads
  BY <1>0 DEF TypeOK, Threads
<1>1. CASE SeeRoom(p)
  <2>1. Contents' = Contents
    <3>1. (Unpublished' <=> Unpublished) /\ (Unreleased' <=> Unreleased)
      BY <1>t, <1>1 DEF SeeRoom, Unpublished, Unreleased, ring, Threads
    <3> QED BY <1>0, <1>1, <3>1, RingUntouched DEF SeeRoom
  <2>2. Request' = Request
    BY <1>t, <1>1 DEF SeeRoom, Request, RequestState, ring, Threads
  <2>3. Reply' = Reply
    BY <1>t, <1>1 DEF SeeRoom, Reply, ReplyState, ring, Threads
  <2> QED BY <2>1, <2>2, <2>3 DEF Queue!vars
<1>2. CASE LockForPut(p)
  <2>1. Contents' = Contents
    <3>1. (Unpublished' <=> Unpublished) /\ (Unreleased' <=> Unreleased)
      BY <1>t, <1>2 DEF LockForPut, Unpublished, Unreleased, ring, Threads
    <3> QED BY <1>0, <1>2, <3>1, RingUntouched DEF LockForPut
  <2>2. Request' = Request
    BY <1>t, <1>2 DEF LockForPut, Request, RequestState, ring, Threads
  <2>3. Reply' = Reply
    BY <1>t, <1>2 DEF LockForPut, Reply, ReplyState, ring, Threads
  <2> QED BY <2>1, <2>2, <2>3 DEF Queue!vars
<1>3. CASE Recheck(p)
  <2>1. Contents' = Contents
    <3>1. (Unpublished' <=> Unpublished) /\ (Unreleased' <=> Unreleased)
      BY <1>t, <1>3 DEF Recheck, Unpublished, Unreleased, ring, Threads
    <3> QED BY <1>0, <1>3, <3>1, RingUntouched DEF Recheck
  <2>2. Request' = Request
    BY <1>t, <1>3 DEF Recheck, Request, RequestState, ring, Threads
  <2>3. Reply' = Reply
    BY <1>t, <1>3 DEF Recheck, Reply, ReplyState, ring, Threads
  <2> QED BY <2>1, <2>2, <2>3 DEF Queue!vars
<1>4. CASE UnlockPut(p)
  <2>1. Contents' = Contents
    <3>1. (Unpublished' <=> Unpublished) /\ (Unreleased' <=> Unreleased)
      BY <1>t, <1>4 DEF UnlockPut, Unpublished, Unreleased, ring, Threads
    <3> QED BY <1>0, <1>4, <3>1, RingUntouched DEF UnlockPut
  <2>2. Request' = Request
    BY <1>t, <1>4 DEF UnlockPut, Request, RequestState, ring, Threads
  <2>3. Reply' = Reply
    BY <1>t, <1>4 DEF UnlockPut, Reply, ReplyState, ring, Threads
  <2> QED BY <2>1, <2>2, <2>3 DEF Queue!vars
<1>5. CASE Call(p)
  <2>0. PICK o \in Ops, i \in Items : op' = [op EXCEPT ![p] = o] /\ item' = [item EXCEPT ![p] = i]
    BY <1>5 DEF Call
  <2>1. Contents' = Contents
    <3>1. (Unpublished' <=> Unpublished) /\ (Unreleased' <=> Unreleased)
      BY <1>t, <1>5 DEF Call, Unpublished, Unreleased, ring, Threads
    <3> QED BY <1>0, <1>5, <3>1, RingUntouched DEF Call
  <2>2. Request' = [Request EXCEPT ![p] = [op |-> o, item |-> i, state |-> "pending"]]
    <3>1. RequestState(p)' = "pending" /\ op'[p] = o /\ item'[p] = i
      BY <1>0, <1>t, <1>5, <2>0 DEF Call, RequestState, TypeOK
    <3>2. \A q \in Producers : q # p => /\ RequestState(q)' = RequestState(q)
                                      /\ op'[q] = op[q] /\ item'[q] = item[q]
      BY <1>0, <1>t, <1>5, <2>0 DEF Call, RequestState, ring, Threads, TypeOK
    <3> QED BY <3>1, <3>2 DEF Request
  <2>3. Reply' = Reply
    BY <1>t, <1>5 DEF Call, Reply, ReplyState, ring, Threads
  <2>4. Request[p].state = "returned"
    BY <1>5 DEF Call, Request, RequestState
  <2> QED BY <2>1, <2>2, <2>3, <2>4 DEF Queue!Next, Queue!Call, Queue!Ops, Ops
<1>6. CASE SeeFull(p)
  <2>1. Contents' = Contents
    <3>1. (Unpublished' <=> Unpublished) /\ (Unreleased' <=> Unreleased)
      BY <1>t, <1>6 DEF SeeFull, Unpublished, Unreleased, ring, Threads
    <3> QED BY <1>0, <1>6, <3>1, RingUntouched DEF SeeFull
  <2>2. Request' = [Request EXCEPT ![p].state = "refused"]
    <3>1. RequestState(p)' = "refused" /\ RequestState(p) = "pending"
      BY <1>t, <1>6 DEF SeeFull, RequestState, ring
    <3>2. \A q \in Producers : q # p => RequestState(q)' = RequestState(q)
      BY <1>t, <1>6 DEF SeeFull, RequestState, ring, Threads
    <3> QED BY <1>0, <1>6, <3>1, <3>2, RequestStep DEF SeeFull
  <2>3. Reply' = Reply
    BY <1>t, <1>6 DEF SeeFull, Reply, ReplyState, ring, Threads
  <2>4. Len(Contents) = Size
    BY <1>0, <1>6, InvFlagsExact, ContentsSeq DEF FlagsExact, SeeFull
  <2>5. Request[p].state = "pending" /\ Request[p].op = "put"
    BY <1>6 DEF SeeFull, Request, RequestState
  <2> QED BY <2>1, <2>2, <2>3, <2>4, <2>5 DEF Queue!Next, Queue!Refuse
<1>7. CASE UnlockFull(p) /\ op[p] = "put"
  <2>1. Contents' = Contents
    <3>1. (Unpublished' <=> Unpublished) /\ (Unreleased' <=> Unreleased)
      BY <1>t, <1>7 DEF UnlockFull, Unpublished, Unreleased, ring, Threads
    <3> QED BY <1>0, <1>7, <3>1, RingUntouched DEF UnlockFull
  <2>2. Request' = [Request EXCEPT ![p].state = "refused"]
    <3>1. RequestState(p)' = "refused" /\ RequestState(p) = "pending"
      BY <1>t, <1>7 DEF UnlockFull, RequestState, ring
    <3>2. \A q \in Producers : q # p => RequestState(q)' = RequestState(q)
      BY <1>t, <1>7 DEF UnlockFull, RequestState, ring, Threads
    <3> QED BY <1>0, <1>7, <3>1, <3>2, RequestStep DEF UnlockFull
  <2>3. Reply' = Reply
    BY <1>t, <1>7 DEF UnlockFull, Reply, ReplyState, ring, Threads
  <2>4. full
    BY <1>7 DEF IndInv, FlagInv, UnlockFull
  <2>5. Len(Contents) = Size
    BY <1>0, <2>4, InvFlagsExact, ContentsSeq DEF FlagsExact
  <2>6. Request[p].state = "pending" /\ Request[p].op = "put"
    BY <1>7 DEF UnlockFull, Request, RequestState
  <2> QED BY <2>1, <2>2, <2>3, <2>5, <2>6 DEF Queue!Next, Queue!Refuse
<1>8. CASE UnlockFull(p) /\ op[p] # "put"
  <2>1. Contents' = Contents
    <3>1. (Unpublished' <=> Unpublished) /\ (Unreleased' <=> Unreleased)
      BY <1>t, <1>8 DEF UnlockFull, Unpublished, Unreleased, ring, Threads
    <3> QED BY <1>0, <1>8, <3>1, RingUntouched DEF UnlockFull
  <2>2. Request' = Request
    BY <1>t, <1>8 DEF UnlockFull, Request, RequestState, ring, Threads
  <2>3. Reply' = Reply
    BY <1>t, <1>8 DEF UnlockFull, Reply, ReplyState, ring, Threads
  <2> QED BY <2>1, <2>2, <2>3 DEF Queue!vars
<1>9. CASE Return(p)
  <2>1. Contents' = Contents
    <3>1. (Unpublished' <=> Unpublished) /\ (Unreleased' <=> Unreleased)
      BY <1>t, <1>9 DEF Return, Unpublished, Unreleased, ring, Threads
    <3> QED BY <1>0, <1>9, <3>1, RingUntouched DEF Return
  <2>2. Request' = [Request EXCEPT ![p].state = "returned"]
    <3>1. RequestState(p)' = "returned"
      BY <1>t, <1>9 DEF Return, RequestState
    <3>2. \A q \in Producers : q # p => RequestState(q)' = RequestState(q)
      BY <1>t, <1>9 DEF Return, RequestState, ring, Threads
    <3> QED BY <1>0, <1>9, <3>1, <3>2, RequestStep DEF Return
  <2>3. Reply' = Reply
    BY <1>t, <1>9 DEF Return, Reply, ReplyState, ring, Threads
  <2>4. Request[p].state \in {"accepted", "refused"}
    BY <1>9 DEF Return, Request, RequestState
  <2> QED BY <2>1, <2>2, <2>3, <2>4 DEF Queue!Next, Queue!Return
<1>10. CASE Write(p)
  <2>a. /\ ~Unreleased /\ pc[Consumer] # "clear_full"
        /\ Unpublished <=> (pc[p] = "set_full" \/ (pc[p] = "clear_empty" /\ ~full))
        /\ \A q \in Producers : q # p => pc[q] \notin {"set_full", "clear_empty"}
    BY <1>10, ProducerHolds DEF Write, Critical
  <2>b. /\ ~Unreleased' /\ pc'[Consumer] = pc[Consumer]
        /\ Unpublished' <=> (pc'[p] = "set_full" \/ (pc'[p] = "clear_empty" /\ ~full'))
    BY <1>t, <1>10, <2>a DEF Write, Unpublished, Unreleased, Threads
  <2>c. /\ First = tail /\ First' = tail
        /\ head \in Slots /\ tail \in Slots /\ head' \in Slots
    BY <1>0, <1>10, <2>a, <2>b DEF Write, First, TypeOK
  <2>d. ~full /\ ~full'
    BY <1>10 DEF Write, IndInv, FlagInv
  <2>e. Limit = head /\ Limit' = head
    BY <1>t, <1>10, <2>a, <2>b, <2>c, SlotSteps DEF Write, Limit
  <2>f. Occupancy' = Occupancy
    BY <2>c, <2>d, <2>e DEF Occupancy
  <2>g. \A n \in 1 .. Occupancy : SlotOf(n) # head
    BY <1>0, <2>c, <2>d, <2>e, Ends, SizeAssumption DEF SlotOf, Slots
  <2>1. Contents' = Contents
    <3>1. \A n \in 1 .. Occupancy : data'[SlotOf(n)] = data[SlotOf(n)]
      BY <1>0, <1>10, <2>g, ContentsAt DEF Write, TypeOK, ContentsShape
    <3> QED BY <1>0, <2>c, <2>f, <3>1, ContentsUnchanged
  <2>2. Request' = Request
    BY <1>t, <1>10 DEF Write, Request, RequestState, Threads
  <2>3. Reply' = Reply
    BY <1>t, <1>10 DEF Write, Reply, ReplyState, Threads
  <2> QED BY <2>1, <2>2, <2>3 DEF Queue!vars
<1>11. CASE SetFull(p) /\ head = tail
  <2>a. /\ ~Unreleased /\ pc[Consumer] # "clear_full"
        /\ Unpublished <=> (pc[p] = "set_full" \/ (pc[p] = "clear_empty" /\ ~full))
        /\ \A q \in Producers : q # p => pc[q] \notin {"set_full", "clear_empty"}
    BY <1>11, ProducerHolds DEF SetFull, Critical
  <2>b. /\ ~Unreleased' /\ pc'[Consumer] = pc[Consumer]
        /\ Unpublished' <=> (pc'[p] = "set_full" \/ (pc'[p] = "clear_empty" /\ ~full'))
    BY <1>t, <1>11, <2>a DEF SetFull, Unpublished, Unreleased, Threads
  <2>c. /\ First = tail /\ First' = tail
        /\ head \in Slots /\ tail \in Slots /\ head' \in Slots
    BY <1>0, <1>11, <2>a, <2>b DEF SetFull, First, TypeOK
  <2>d. ~full /\ Unpublished
    BY <1>11, <2>a DEF SetFull, IndInv, FlagInv
  <2>e. full' /\ ~Unpublished'
    BY <1>t, <1>11, <2>b DEF SetFull
  <2>f. Occupancy' = Occupancy + 1
    <3>1. Limit' = tail
      BY <1>11, <2>e DEF SetFull, Limit
    <3>2. Occupancy' = Size
      BY <2>c, <2>e, <3>1 DEF Occupancy
    <3> QED BY <1>0, <1>11, <2>c, <2>d, <2>a, <3>2, Ends, SizeAssumption DEF Slots
  <2>g. /\ data[SlotOf(Occupancy + 1)] = item[p]
        /\ Occupancy < Size
    <3>1. PrevSlot(head) = Limit /\ data[PrevSlot(head)] = item[p]
      BY <1>11, <2>a, <2>d DEF SetFull, IndInv, TransferInv, Limit
    <3>2. SlotOf(Occupancy + 1) = Limit /\ Occupancy < Size
      BY <1>0, <2>d, Ends, SizeAssumption DEF SlotOf, Slots
    <3> QED BY <3>1, <3>2
  <2>1. Contents' = Append(Contents, item[p])
    BY <1>0, <1>11, <2>c, <2>f, <2>g, ContentsAppend DEF SetFull
  <2>2. Request' = [Request EXCEPT ![p].state = "accepted"]
    <3>1. RequestState(p)' = "accepted"
      BY <1>t, <1>11 DEF SetFull, RequestState
    <3>2. \A q \in Producers : q # p => RequestState(q)' = RequestState(q)
      BY <1>t, <1>11, <2>a DEF SetFull, RequestState, Threads
    <3> QED BY <1>0, <1>11, <3>1, <3>2, RequestStep DEF SetFull
  <2>3. Reply' = Reply
    BY <1>t, <1>11, <2>a DEF SetFull, Reply, ReplyState, Threads
  <2>4. Request[p].state = "pending" /\ Request[p].item = item[p]
    BY <1>11, <2>d DEF SetFull, Request, RequestState
  <2>5. Len(Contents) < Size
    BY <1>0, <2>g, ContentsSeq
  <2> QED BY <2>1, <2>2, <2>3, <2>4, <2>5 DEF Queue!Next, Queue!Accept
<1>12. CASE SetFull(p) /\ head # tail
  <2>a. /\ ~Unreleased /\ pc[Consumer] # "clear_full"
        /\ Unpublished <=> (pc[p] = "set_full" \/ (pc[p] = "clear_empty" /\ ~full))
        /\ \A q \in Producers : q # p => pc[q] \notin {"set_full", "clear_empty"}
    BY <1>12, ProducerHolds DEF SetFull, Critical
  <2>b. /\ ~Unreleased' /\ pc'[Consumer] = pc[Consumer]
        /\ Unpublished' <=> (pc'[p] = "set_full" \/ (pc'[p] = "clear_empty" /\ ~full'))
    BY <1>t, <1>12, <2>a DEF SetFull, Unpublished, Unreleased, Threads
  <2>c. /\ First = tail /\ First' = tail
        /\ head \in Slots /\ tail \in Slots /\ head' \in Slots
    BY <1>0, <1>12, <2>a, <2>b DEF SetFull, First, TypeOK
  <2>d. ~full /\ Unpublished
    BY <1>12, <2>a DEF SetFull, IndInv, FlagInv
  <2>e. ~full /\ ~full' /\ Limit' = Limit
    BY <1>t, <1>12, <2>b, <2>d DEF SetFull, Limit
  <2>1. Contents' = Contents
    <3>1. Occupancy' = Occupancy
      BY <1>12, <2>c, <2>e DEF Occupancy, SetFull
    <3> QED BY <1>0, <1>12, <2>c, <3>1, ContentsUnchanged DEF SetFull
  <2>2. Request' = Request
    <3>1. \A q \in Producers : RequestState(q)' = RequestState(q)
      BY <1>t, <1>12, <2>a DEF SetFull, RequestState, Threads
    <3> QED BY <1>12, <3>1 DEF SetFull, Request
  <2>3. Reply' = Reply
    BY <1>t, <1>12, <2>a DEF SetFull, Reply, ReplyState, Threads
  <2> QED BY <2>1, <2>2, <2>3 DEF Queue!vars
<1>13. CASE ClearEmpty(p) /\ ~full
  <2>a. /\ ~Unreleased /\ pc[Consumer] # "clear_full"
        /\ Unpublished <=> (pc[p] = "set_full" \/ (pc[p] = "clear_empty" /\ ~full))
        /\ \A q \in Producers : q # p => pc[q] \notin {"set_full", "clear_empty"}
    BY <1>13, ProducerHolds DEF ClearEmpty, Critical
  <2>b. /\ ~Unreleased' /\ pc'[Consumer] = pc[Consumer]
        /\ Unpublished' <=> (pc'[p] = "set_full" \/ (pc'[p] = "clear_empty" /\ ~full'))
    BY <1>t, <1>13, <2>a DEF ClearEmpty, Unpublished, Unreleased, Threads
  <2>c. /\ First = tail /\ First' = tail
        /\ head \in Slots /\ tail \in Slots /\ head' \in Slots
    BY <1>0, <1>13, <2>a, <2>b DEF ClearEmpty, First, TypeOK
  <2>d. ~full /\ Unpublished
    BY <1>13, <2>a DEF ClearEmpty
  <2>e. ~full' /\ ~Unpublished' /\ head # tail
    BY <1>t, <1>13, <2>b DEF ClearEmpty, IndInv, FlagInv
  <2>f. Occupancy' = Occupancy + 1
    <3>1. Limit' = head
      BY <1>13, <2>e DEF ClearEmpty, Limit
    <3>2. Occupancy' = IF tail < head THEN head - tail ELSE head + Size - tail
      BY <1>13, <2>c, <2>e, <3>1, Distance, SizeAssumption DEF Occupancy, Slots
    <3> QED BY <1>0, <1>13, <2>c, <2>d, <2>e, <2>a, <3>2, Ends, SizeAssumption DEF Slots
  <2>g. /\ data[SlotOf(Occupancy + 1)] = item[p]
        /\ Occupancy < Size
    <3>1. PrevSlot(head) = Limit /\ data[PrevSlot(head)] = item[p]
      BY <1>13, <2>a, <2>d DEF ClearEmpty, IndInv, TransferInv, Limit
    <3>2. SlotOf(Occupancy + 1) = Limit /\ Occupancy < Size
      BY <1>0, <2>d, Ends, SizeAssumption DEF SlotOf, Slots
    <3> QED BY <3>1, <3>2
  <2>1. Contents' = Append(Contents, item[p])
    BY <1>0, <1>13, <2>c, <2>f, <2>g, ContentsAppend DEF ClearEmpty
  <2>2. Request' = [Request EXCEPT ![p].state = "accepted"]
    <3>1. RequestState(p)' = "accepted"
      BY <1>t, <1>13 DEF ClearEmpty, RequestState
    <3>2. \A q \in Producers : q # p => RequestState(q)' = RequestState(q)
      BY <1>t, <1>13, <2>a DEF ClearEmpty, RequestState, Threads
    <3> QED BY <1>0, <1>13, <3>1, <3>2, RequestStep DEF ClearEmpty
  <2>3. Reply' = Reply
    BY <1>t, <1>13, <2>a DEF ClearEmpty, Reply, ReplyState, Threads
  <2>4. Request[p].state = "pending" /\ Request[p].item = item[p]
    BY <1>13, <2>d DEF ClearEmpty, Request, RequestState
  <2>5. Len(Contents) < Size
    BY <1>0, <2>g, ContentsSeq
  <2> QED BY <2>1, <2>2, <2>3, <2>4, <2>5 DEF Queue!Next, Queue!Accept
<1>14. CASE ClearEmpty(p) /\ full
  <2>a. /\ ~Unreleased /\ pc[Consumer] # "clear_full"
        /\ Unpublished <=> (pc[p] = "set_full" \/ (pc[p] = "clear_empty" /\ ~full))
        /\ \A q \in Producers : q # p => pc[q] \notin {"set_full", "clear_empty"}
    BY <1>14, ProducerHolds DEF ClearEmpty, Critical
  <2>b. /\ ~Unreleased' /\ pc'[Consumer] = pc[Consumer]
        /\ Unpublished' <=> (pc'[p] = "set_full" \/ (pc'[p] = "clear_empty" /\ ~full'))
    BY <1>t, <1>14, <2>a DEF ClearEmpty, Unpublished, Unreleased, Threads
  <2>c. /\ First = tail /\ First' = tail
        /\ head \in Slots /\ tail \in Slots /\ head' \in Slots
    BY <1>0, <1>14, <2>a, <2>b DEF ClearEmpty, First, TypeOK
  <2>e. Limit' = Limit /\ full' = full
    BY <1>t, <1>14, <2>a, <2>b DEF ClearEmpty, Limit
  <2>1. Contents' = Contents
    <3>1. Occupancy' = Occupancy
      BY <1>14, <2>c, <2>e DEF Occupancy, ClearEmpty
    <3> QED BY <1>0, <1>14, <2>c, <3>1, ContentsUnchanged DEF ClearEmpty
  <2>2. Request' = Request
    <3>1. \A q \in Producers : RequestState(q)' = RequestState(q)
      BY <1>t, <1>14, <2>a DEF ClearEmpty, RequestState, Threads
    <3> QED BY <1>14, <3>1 DEF ClearEmpty, Request
  <2>3. Reply' = Reply
    BY <1>t, <1>14, <2>a DEF ClearEmpty, Reply, ReplyState, Threads
  <2> QED BY <2>1, <2>2, <2>3 DEF Queue!vars
<1> QED BY <1>1, <1>2, <1>3, <1>4, <1>5, <1>6, <1>7, <1>8, <1>9, <1>10, <1>11, <1>12, <1>13, <1>14 DEF PutStep

\* Every step of get is a step of the queue or none at all.
LEMMA ConsumerRefines ==
  ASSUME IndInv, IndInv', GetStep
  PROVE  [Queue!Next]_(Queue!vars)
<1> USE ThreadsAssumption DEF Goto
<1>0. TypeOK /\ TypeOK'
  BY DEF IndInv
<1>t. pc \in [Threads -> ProducerLabels \cup ConsumerLabels] /\ Consumer \in Threads
      /\ \A p \in Producers : p \in Threads /\ p # Consumer
  BY <1>0 DEF TypeOK, Threads
<1>1. CASE SeeItem
  <2>1. Contents' = Contents
    <3>1. (Unpublished' <=> Unpublished) /\ (Unreleased' <=> Unreleased)
      BY <1>t, <1>1 DEF SeeItem, Unpublished, Unreleased, ring, Threads
    <3> QED BY <1>0, <1>1, <3>1, RingUntouched DEF SeeItem
  <2>2. Request' = Request
    BY <1>t, <1>1 DEF SeeItem, Request, RequestState, ring
  <2>3. Reply' = Reply
    BY <1>t, <1>1 DEF SeeItem, Reply, ReplyState, ring
  <2> QED BY <2>1, <2>2, <2>3 DEF Queue!vars
<1>2. CASE LockForGet
  <2>1. Contents' = Contents
    <3>1. (Unpublished' <=> Unpublished) /\ (Unreleased' <=> Unreleased)
      BY <1>t, <1>2 DEF LockForGet, Unpublished, Unreleased, ring, Threads
    <3> QED BY <1>0, <1>2, <3>1, RingUntouched DEF LockForGet
  <2>2. Request' = Request
    BY <1>t, <1>2 DEF LockForGet, Request, RequestState, ring
  <2>3. Reply' = Reply
    BY <1>t, <1>2 DEF LockForGet, Reply, ReplyState, ring
  <2> QED BY <2>1, <2>2, <2>3 DEF Queue!vars
<1>3. CASE UnlockGet
  <2>1. Contents' = Contents
    <3>1. (Unpublished' <=> Unpublished) /\ (Unreleased' <=> Unreleased)
      BY <1>t, <1>3 DEF UnlockGet, Unpublished, Unreleased, ring, Threads
    <3> QED BY <1>0, <1>3, <3>1, RingUntouched DEF UnlockGet
  <2>2. Request' = Request
    BY <1>t, <1>3 DEF UnlockGet, Request, RequestState, ring
  <2>3. Reply' = Reply
    BY <1>t, <1>3 DEF UnlockGet, Reply, ReplyState, ring
  <2> QED BY <2>1, <2>2, <2>3 DEF Queue!vars
<1>4. CASE SeeEmpty
  <2>1. Contents' = Contents
    <3>1. (Unpublished' <=> Unpublished) /\ (Unreleased' <=> Unreleased)
      BY <1>t, <1>4 DEF SeeEmpty, Unpublished, Unreleased, ring, Threads
    <3> QED BY <1>0, <1>4, <3>1, RingUntouched DEF SeeEmpty
  <2>2. Request' = Request
    BY <1>t, <1>4 DEF SeeEmpty, Request, RequestState, ring
  <2>3. Reply.state = "idle" /\ Reply' = [state |-> "missed", item |-> NoItem]
    BY <1>t, <1>4 DEF SeeEmpty, Reply, ReplyState
  <2>4. Contents = << >>
    <3>1. Occupancy = 0
      BY <1>4, InvFlagsExact DEF FlagsExact, SeeEmpty
    <3> QED BY <1>0, <3>1, ContentsSeq
  <2> QED BY <2>1, <2>2, <2>3, <2>4 DEF Queue!Next, Queue!Miss
<1>5. CASE GetReturns
  <2>1. Contents' = Contents
    <3>1. (Unpublished' <=> Unpublished) /\ (Unreleased' <=> Unreleased)
      BY <1>t, <1>5 DEF GetReturns, Unpublished, Unreleased, ring, Threads
    <3> QED BY <1>0, <1>5, <3>1, RingUntouched DEF GetReturns
  <2>2. Request' = Request
    BY <1>t, <1>5 DEF GetReturns, Request, RequestState, ring
  <2>3. Reply.state \in {"took", "missed"} /\ Reply' = [state |-> "idle", item |-> NoItem]
    BY <1>t, <1>5 DEF GetReturns, Reply, ReplyState
  <2> QED BY <2>1, <2>2, <2>3 DEF Queue!Next, Queue!GetReturns
<1>6. CASE Copy
  <2>a. /\ ~Unpublished
        /\ \A q \in Producers : pc[q] \notin {"set_full", "clear_empty"}
    BY <1>6, ConsumerHolds DEF Copy, Critical
  <2>b. /\ ~Unpublished'
        /\ \A q \in Producers : pc'[q] = pc[q]
    BY <1>t, <1>6, <2>a DEF Copy, Unpublished
  <2>c. /\ Limit = head /\ Limit' = head
        /\ head \in Slots /\ tail \in Slots /\ tail' \in Slots
    BY <1>0, <1>6, <2>a, <2>b DEF Copy, Limit, TypeOK
  <2>2. Request' = Request
    <3>1. \A q \in Producers : RequestState(q)' = RequestState(q)
      BY <1>t, <1>6, <2>a, <2>b DEF Copy, RequestState
    <3> QED BY <1>6, <3>1 DEF Copy, Request
  <2>d. First = tail /\ First' = tail
    BY <1>t, <1>6, <2>c, SlotSteps DEF Copy, First, Unreleased
  <2>1. Contents' = Contents
    <3>1. Occupancy' = Occupancy
      BY <1>6, <2>c, <2>d DEF Occupancy, Copy
    <3> QED BY <1>0, <1>6, <2>d, <3>1, ContentsUnchanged DEF Copy
  <2>3. Reply' = Reply
    BY <1>t, <1>6 DEF Copy, Reply, ReplyState
  <2> QED BY <2>1, <2>2, <2>3 DEF Queue!vars
<1>7. CASE SetEmpty /\ head = tail
  <2>a. /\ ~Unpublished
        /\ \A q \in Producers : pc[q] \notin {"set_full", "clear_empty"}
    BY <1>7, ConsumerHolds DEF SetEmpty, Critical
  <2>b. /\ ~Unpublished'
        /\ \A q \in Producers : pc'[q] = pc[q]
    BY <1>t, <1>7, <2>a DEF SetEmpty, Unpublished
  <2>c. /\ Limit = head /\ Limit' = head
        /\ head \in Slots /\ tail \in Slots /\ tail' \in Slots
    BY <1>0, <1>7, <2>a, <2>b DEF SetEmpty, Limit, TypeOK
  <2>2. Request' = Request
    <3>1. \A q \in Producers : RequestState(q)' = RequestState(q)
      BY <1>t, <1>7, <2>a, <2>b DEF SetEmpty, RequestState
    <3> QED BY <1>7, <3>1 DEF SetEmpty, Request
  <2>d. First = PrevSlot(tail) /\ First' = tail /\ data[PrevSlot(tail)] = got
    BY <1>t, <1>7 DEF SetEmpty, First, Unreleased, IndInv, TransferInv
  <2>e. empty' /\ ~full /\ ~full'
    <3>1. full <=> tail = NextSlot(head)
      BY <1>7 DEF SetEmpty, IndInv, FlagInv
    <3>2. tail # NextSlot(head)
      BY <1>7, <2>c, SlotSteps, SizeAssumption DEF Slots
    <3> QED BY <1>7, <3>1, <3>2 DEF SetEmpty
  <2>f. Occupancy > 0 /\ Occupancy' = Occupancy - 1
    <3>1. Occupancy' = 0
      BY <1>7, <2>c, <2>d, <2>e DEF Occupancy
    <3>2. Occupancy = 1
      BY <1>0, <1>7, <2>c, <2>d, <2>e, Ends, SlotSteps, SizeAssumption DEF Slots
    <3> QED BY <3>1, <3>2
  <2>g. First' = NextSlot(First) /\ data[First] = got
    <3>1. NextSlot(PrevSlot(tail)) = tail
      BY <2>c, SlotSteps, SizeAssumption DEF Slots
    <3> QED BY <2>d, <3>1
  <2>1. Contents # << >> /\ Head(Contents) = got /\ Contents' = Tail(Contents)
    BY <1>0, <1>7, <2>f, <2>g, ContentsTail DEF SetEmpty
  <2>3. Reply.state = "idle" /\ Reply' = [state |-> "took", item |-> got]
    BY <1>t, <1>7, <2>e DEF SetEmpty, Reply, ReplyState
  <2> QED BY <2>1, <2>2, <2>3 DEF Queue!Next, Queue!Take
<1>8. CASE SetEmpty /\ head # tail
  <2>a. /\ ~Unpublished
        /\ \A q \in Producers : pc[q] \notin {"set_full", "clear_empty"}
    BY <1>8, ConsumerHolds DEF SetEmpty, Critical
  <2>b. /\ ~Unpublished'
        /\ \A q \in Producers : pc'[q] = pc[q]
    BY <1>t, <1>8, <2>a DEF SetEmpty, Unpublished
  <2>c. /\ Limit = head /\ Limit' = head
        /\ head \in Slots /\ tail \in Slots /\ tail' \in Slots
    BY <1>0, <1>8, <2>a, <2>b DEF SetEmpty, Limit, TypeOK
  <2>2. Request' = Request
    <3>1. \A q \in Producers : RequestState(q)' = RequestState(q)
      BY <1>t, <1>8, <2>a, <2>b DEF SetEmpty, RequestState
    <3> QED BY <1>8, <3>1 DEF SetEmpty, Request
  <2>d. First = PrevSlot(tail) /\ First' = PrevSlot(tail) /\ ~empty /\ ~empty'
    BY <1>t, <1>8 DEF SetEmpty, First, Unreleased, IndInv, FlagInv
  <2>1. Contents' = Contents
    <3>1. Occupancy' = Occupancy
      BY <1>8, <2>c, <2>d DEF Occupancy, SetEmpty
    <3> QED BY <1>0, <1>8, <2>d, <3>1, ContentsUnchanged DEF SetEmpty
  <2>3. Reply' = Reply
    BY <1>t, <1>8, <2>d DEF SetEmpty, Reply, ReplyState
  <2> QED BY <2>1, <2>2, <2>3 DEF Queue!vars
<1>9. CASE ClearFull /\ ~empty
  <2>a. /\ ~Unpublished
        /\ \A q \in Producers : pc[q] \notin {"set_full", "clear_empty"}
    BY <1>9, ConsumerHolds DEF ClearFull, Critical
  <2>b. /\ ~Unpublished'
        /\ \A q \in Producers : pc'[q] = pc[q]
    BY <1>t, <1>9, <2>a DEF ClearFull, Unpublished
  <2>c. /\ Limit = head /\ Limit' = head
        /\ head \in Slots /\ tail \in Slots /\ tail' \in Slots
    BY <1>0, <1>9, <2>a, <2>b DEF ClearFull, Limit, TypeOK
  <2>2. Request' = Request
    <3>1. \A q \in Producers : RequestState(q)' = RequestState(q)
      BY <1>t, <1>9, <2>a, <2>b DEF ClearFull, RequestState
    <3> QED BY <1>9, <3>1 DEF ClearFull, Request
  <2>d. First = PrevSlot(tail) /\ First' = tail /\ data[PrevSlot(tail)] = got
    BY <1>t, <1>9 DEF ClearFull, First, Unreleased, IndInv, TransferInv
  <2>e. ~empty /\ ~full' /\ head # tail /\ (full <=> tail = NextSlot(head))
    BY <1>9 DEF ClearFull, IndInv, FlagInv
  <2>f. Occupancy > 0 /\ Occupancy' = Occupancy - 1
    <3>1. Occupancy' = IF tail < head THEN head - tail ELSE head + Size - tail
      BY <2>c, <2>d, <2>e, Distance, SizeAssumption DEF Occupancy, Slots
    <3>2. Occupancy = IF tail < head THEN head - tail + 1 ELSE head + Size - tail + 1
      BY <1>0, <2>c, <2>d, <2>e, Ends, SlotSteps, SizeAssumption DEF Slots
    <3> QED BY <2>c, <3>1, <3>2, SizeAssumption DEF Slots
  <2>g. First' = NextSlot(First) /\ data[First] = got
    <3>1. NextSlot(PrevSlot(tail)) = tail
      BY <2>c, SlotSteps, SizeAssumption DEF Slots
    <3> QED BY <2>d, <3>1
  <2>1. Contents # << >> /\ Head(Contents) = got /\ Contents' = Tail(Contents)
    BY <1>0, <1>9, <2>f, <2>g, ContentsTail DEF ClearFull
  <2>3. Reply.state = "idle" /\ Reply' = [state |-> "took", item |-> got]
    BY <1>t, <1>9, <2>e DEF ClearFull, Reply, ReplyState
  <2> QED BY <2>1, <2>2, <2>3 DEF Queue!Next, Queue!Take
<1>10. CASE ClearFull /\ empty
  <2>a. /\ ~Unpublished
        /\ \A q \in Producers : pc[q] \notin {"set_full", "clear_empty"}
    BY <1>10, ConsumerHolds DEF ClearFull, Critical
  <2>b. /\ ~Unpublished'
        /\ \A q \in Producers : pc'[q] = pc[q]
    BY <1>t, <1>10, <2>a DEF ClearFull, Unpublished
  <2>c. /\ Limit = head /\ Limit' = head
        /\ head \in Slots /\ tail \in Slots /\ tail' \in Slots
    BY <1>0, <1>10, <2>a, <2>b DEF ClearFull, Limit, TypeOK
  <2>2. Request' = Request
    <3>1. \A q \in Producers : RequestState(q)' = RequestState(q)
      BY <1>t, <1>10, <2>a, <2>b DEF ClearFull, RequestState
    <3> QED BY <1>10, <3>1 DEF ClearFull, Request
  <2>d. First = tail /\ First' = tail
    BY <1>t, <1>10 DEF ClearFull, First, Unreleased
  <2>e. ~full /\ ~full'
    BY <1>10 DEF ClearFull, IndInv, FlagInv
  <2>1. Contents' = Contents
    <3>1. Occupancy' = Occupancy
      BY <1>10, <2>c, <2>d, <2>e DEF Occupancy
    <3> QED BY <1>0, <1>10, <2>d, <3>1, ContentsUnchanged DEF ClearFull
  <2>3. Reply' = Reply
    BY <1>t, <1>10 DEF ClearFull, Reply, ReplyState
  <2> QED BY <2>1, <2>2, <2>3 DEF Queue!vars
<1> QED BY <1>1, <1>2, <1>3, <1>4, <1>5, <1>6, <1>7, <1>8, <1>9, <1>10 DEF GetStep

\* An idle ring is an empty queue with no call under way.
LEMMA InitRefines == Init => Queue!Init
<1> SUFFICES ASSUME Init PROVE Queue!Init
  OBVIOUS
<1>1. TypeOK /\ Occupancy = 0
  <2>1. IndInv /\ empty
    BY InitInv DEF Init
  <2> QED BY <2>1, InvFlagsExact DEF IndInv, FlagsExact
<1>2. Contents = << >>
  BY <1>1, ContentsSeq
<1>3. Request \in [Producers -> [op : Ops, item : Items, state : {"returned"}]]
  <2>1. \A p \in Producers : RequestState(p) = "returned"
    BY ThreadsAssumption DEF Init, RequestState, Threads
  <2> QED BY <1>1, <2>1 DEF Request, TypeOK
<1>4. Reply = [state |-> "idle", item |-> NoItem]
  <2>1. ReplyState = "idle"
    BY ThreadsAssumption DEF Init, ReplyState, Threads
  <2> QED BY <2>1 DEF Reply
<1> QED BY <1>2, <1>3, <1>4 DEF Queue!Init, Queue!Ops, Ops

\* The ring buffer implements the bounded FIFO queue: put, ensure_put and get,
\* with flags read outside the lock, are linearizable.
THEOREM RingImplementsQueue == Spec => ImplementsQueue
<1>1. IndInv /\ IndInv' /\ [Next]_vars => [Queue!Next]_(Queue!vars)
  <2> SUFFICES ASSUME IndInv, IndInv', [Next]_vars PROVE [Queue!Next]_(Queue!vars)
    OBVIOUS
  <2>1. CASE UNCHANGED vars
    <3>1. /\ Contents' = Contents /\ Request' = Request /\ Reply' = Reply
      BY <2>1 DEF vars, Contents, Occupancy, First, Limit, Unpublished, Unreleased,
                  Request, RequestState, Reply, ReplyState
    <3> QED BY <3>1 DEF Queue!vars
  <2>2. ASSUME NEW p \in Producers, Call(p) \/ PutStep(p) PROVE [Queue!Next]_(Queue!vars)
    BY <2>2, ProducerRefines
  <2>3. CASE GetStep
    BY <2>3, ConsumerRefines
  <2> QED BY <2>1, <2>2, <2>3 DEF Next
<1> QED BY InitRefines, Invariant, <1>1, PTL DEF Spec, ImplementsQueue, Queue!Spec
===============================================================================
