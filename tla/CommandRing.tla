----------------------------- MODULE CommandRing -----------------------------
(***************************************************************************)
(* The ring buffer that MK_RINGBUFFER_IMPL of datastructures/              *)
(* mk_ringbuffer.h generates for the packet, data plane and DNS command    *)
(* queues, at the grain of its shared memory accesses.                     *)
(*                                                                         *)
(* head, tail and data are only touched by the thread that holds the spin  *)
(* lock; the flags empty and full are written under the lock but read      *)
(* without it, by put, ensure_put and get.  put and ensure_put look at     *)
(* full again once they hold the lock, get does not look at empty again.   *)
(*                                                                         *)
(* In the controller every ring has exactly one consumer thread and one    *)
(* or more producer threads: packet_thread and the export thread fill the  *)
(* packet ring that flowdb_thread empties, flowdb_thread and the bloom     *)
(* filter maintenance fill the data plane ring that dataplane_thread       *)
(* empties, packet_thread fills the DNS ring that dns_db_thread empties.   *)
(***************************************************************************)
EXTENDS Naturals, Sequences

CONSTANTS Size,         \* number of slots of the ring
          Producers,    \* threads that call put and ensure_put
          Consumer,     \* the one thread that calls get
          Items,        \* the commands put into the ring
          NoItem,       \* a slot that was never written
          NoThread      \* the spin lock is free

\* The controller's rings have 2^12 and 2^16 slots.  With a single slot put
\* would fill an empty ring in one step, and the two flags, which change one
\* after the other, could not both be right.
ASSUME SizeAssumption == Size \in Nat /\ Size > 1
ASSUME ThreadsAssumption == Consumer \notin Producers /\ NoThread \notin Producers \cup {Consumer}
ASSUME ItemsAssumption == NoItem \notin Items /\ Items # {}

VARIABLES head,         \* slot the next item goes to
          tail,         \* slot of the oldest item
          empty,        \* the flag get looks at
          full,         \* the flag put and ensure_put look at
          data,         \* the slots
          lock,         \* holder of the spin lock
          pc,           \* next step of every thread
          op,           \* the operation a producer has called
          item,         \* the item of that call
          got           \* the consumer's copy of the item

ring == <<head, tail, empty, full, data>>
vars == <<head, tail, empty, full, data, lock, pc, op, item, got>>

Threads == Producers \cup {Consumer}
Slots   == 0 .. Size - 1
Ops     == {"put", "ensure_put"}

ProducerLabels == {"idle", "check", "lock", "recheck", "write", "set_full",
                   "clear_empty", "unlock", "unlock_full", "accepted", "refused"}
ConsumerLabels == {"get_idle", "get_lock", "copy", "set_empty", "clear_full",
                   "get_unlock", "took", "missed"}

\* The labels between LOCK and UNLOCK.
Critical == {"recheck", "write", "set_full", "clear_empty", "unlock", "unlock_full",
             "copy", "set_empty", "clear_full", "get_unlock"}

\* A slot's successor: the indices wrap at the end of the array.
NextSlot(x) == (x + 1) % Size

------------------------------------------------------------------------------
(* ringbuffer_init *)

Init ==
    /\ head = 0
    /\ tail = 0
    /\ empty = TRUE
    /\ full = FALSE
    /\ data = [s \in Slots |-> NoItem]
    /\ lock = NoThread
    /\ pc = [t \in Threads |-> IF t = Consumer THEN "get_idle" ELSE "idle"]
    /\ op \in [Producers -> Ops]
    /\ item \in [Producers -> Items]
    /\ got = NoItem

Goto(t, from, to) ==
    /\ pc[t] = from
    /\ pc' = [pc EXCEPT ![t] = to]

------------------------------------------------------------------------------
(* ringbuffer_put and ringbuffer_ensure_put: they differ in what they do    *)
(* when the ring is full.                                                   *)

Call(p) ==
    /\ Goto(p, "idle", "check")
    /\ \E o \in Ops, i \in Items :
          /\ op' = [op EXCEPT ![p] = o]
          /\ item' = [item EXCEPT ![p] = i]
    /\ UNCHANGED <<ring, lock, got>>

\* Without the first look: only the one under the lock is left.
SeeRoomUnchecked(p) ==
    /\ Goto(p, "check", "lock")
    /\ UNCHANGED <<ring, lock, op, item, got>>

\* The flag, read without the lock, shows a free slot.
SeeRoom(p) ==
    /\ ~full
    /\ Goto(p, "check", "lock")
    /\ UNCHANGED <<ring, lock, op, item, got>>

\* The flag, read without the lock, shows a full ring: put returns 1, while
\* ensure_put keeps spinning.
SeeFull(p) ==
    /\ full
    /\ op[p] = "put"
    /\ Goto(p, "check", "refused")
    /\ UNCHANGED <<ring, lock, op, item, got>>

LockForPut(p) ==
    /\ lock = NoThread
    /\ lock' = p
    /\ Goto(p, "lock", "recheck")
    /\ UNCHANGED <<ring, op, item, got>>

RecheckSkipped(p) ==
    /\ Goto(p, "recheck", "write")
    /\ UNCHANGED <<ring, lock, op, item, got>>

\* Another producer may have filled the ring between the check and the lock.
Recheck(p) ==
    /\ IF full THEN Goto(p, "recheck", "unlock_full")
               ELSE Goto(p, "recheck", "write")
    /\ UNCHANGED <<ring, lock, op, item, got>>

UnlockFullForgotten(p) ==
    /\ Goto(p, "unlock_full", IF op[p] = "put" THEN "refused" ELSE "check")
    /\ UNCHANGED <<ring, lock, op, item, got>>

\* put returns 1; ensure_put starts over.
UnlockFull(p) ==
    /\ lock' = NoThread
    /\ Goto(p, "unlock_full", IF op[p] = "put" THEN "refused" ELSE "check")
    /\ UNCHANGED <<ring, op, item, got>>

\* head and data belong to the holder of the lock, so the copy and the new
\* index are one step.
Write(p) ==
    /\ data' = [data EXCEPT ![head] = item[p]]
    /\ head' = NextSlot(head)
    /\ Goto(p, "write", "set_full")
    /\ UNCHANGED <<tail, empty, full, lock, op, item, got>>

SetFullEarly(p) ==
    /\ full' = (NextSlot(head) = tail)
    /\ Goto(p, "set_full", "clear_empty")
    /\ UNCHANGED <<head, tail, empty, data, lock, op, item, got>>

SetFull(p) ==
    /\ full' = (head = tail)
    /\ Goto(p, "set_full", "clear_empty")
    /\ UNCHANGED <<head, tail, empty, data, lock, op, item, got>>

ClearEmpty(p) ==
    /\ empty' = FALSE
    /\ Goto(p, "clear_empty", "unlock")
    /\ UNCHANGED <<head, tail, full, data, lock, op, item, got>>

UnlockPut(p) ==
    /\ lock' = NoThread
    /\ Goto(p, "unlock", "accepted")
    /\ UNCHANGED <<ring, op, item, got>>

Return(p) ==
    /\ \E result \in {"accepted", "refused"} : Goto(p, result, "idle")
    /\ UNCHANGED <<ring, lock, op, item, got>>

PutStep(p) ==
    \/ SeeRoom(p) \/ SeeFull(p) \/ LockForPut(p) \/ Recheck(p) \/ UnlockFull(p)
    \/ Write(p) \/ SetFull(p) \/ ClearEmpty(p) \/ UnlockPut(p) \/ Return(p)

------------------------------------------------------------------------------
(* ringbuffer_get, called in a loop by the ring's consumer thread. *)

\* The flag is read without the lock: get returns -1 at once.
SeeEmpty ==
    /\ empty
    /\ Goto(Consumer, "get_idle", "missed")
    /\ UNCHANGED <<ring, lock, op, item, got>>

SeeItemUnchecked ==
    /\ Goto(Consumer, "get_idle", "get_lock")
    /\ UNCHANGED <<ring, lock, op, item, got>>

SeeItem ==
    /\ ~empty
    /\ Goto(Consumer, "get_idle", "get_lock")
    /\ UNCHANGED <<ring, lock, op, item, got>>

LockForGet ==
    /\ lock = NoThread
    /\ lock' = Consumer
    /\ Goto(Consumer, "get_lock", "copy")
    /\ UNCHANGED <<ring, op, item, got>>

CopyLate ==
    /\ got' = data[NextSlot(tail)]
    /\ tail' = NextSlot(tail)
    /\ Goto(Consumer, "copy", "set_empty")
    /\ UNCHANGED <<head, empty, full, data, lock, op, item>>

Copy ==
    /\ got' = data[tail]
    /\ tail' = NextSlot(tail)
    /\ Goto(Consumer, "copy", "set_empty")
    /\ UNCHANGED <<head, empty, full, data, lock, op, item>>

SetEmpty ==
    /\ empty' = (head = tail)
    /\ Goto(Consumer, "set_empty", "clear_full")
    /\ UNCHANGED <<head, tail, full, data, lock, op, item, got>>

ClearFullForgotten ==
    /\ Goto(Consumer, "clear_full", "get_unlock")
    /\ UNCHANGED <<ring, lock, op, item, got>>

ClearFull ==
    /\ full' = FALSE
    /\ Goto(Consumer, "clear_full", "get_unlock")
    /\ UNCHANGED <<head, tail, empty, data, lock, op, item, got>>

UnlockGet ==
    /\ lock' = NoThread
    /\ Goto(Consumer, "get_unlock", "took")
    /\ UNCHANGED <<ring, op, item, got>>

GetReturns ==
    /\ \E result \in {"took", "missed"} : Goto(Consumer, result, "get_idle")
    /\ UNCHANGED <<ring, lock, op, item, got>>

GetStep ==
    \/ SeeEmpty \/ SeeItem \/ LockForGet \/ Copy \/ SetEmpty \/ ClearFull
    \/ UnlockGet \/ GetReturns

------------------------------------------------------------------------------
Next == (\E p \in Producers : Call(p) \/ PutStep(p)) \/ GetStep

Spec == Init /\ [][Next]_vars

\* The threads are scheduled by the operating system, so each one keeps taking
\* the steps it can take.  The spin lock is not fair: a thread is only sure to
\* get it when it stays free.  Nothing obliges a producer to call.
FairSpec == Spec /\ (\A p \in Producers : WF_vars(PutStep(p))) /\ WF_vars(GetStep)

------------------------------------------------------------------------------
(* The queue the ring represents.  An operation takes effect when the flag    *)
(* that shows it to the other side is written: for a put that is full if it   *)
(* filled the ring, and empty otherwise; for a get it is empty if it took     *)
(* the last item, and full otherwise.                                         *)

\* A put has advanced head, but its item does not count yet.
Unpublished == \E p \in Producers : pc[p] = "set_full" \/ (pc[p] = "clear_empty" /\ ~full)

\* The get has advanced tail, but its item still counts.
Unreleased == pc[Consumer] = "set_empty" \/ (pc[Consumer] = "clear_full" /\ ~empty)

PrevSlot(x) == (x + Size - 1) % Size
First == IF Unreleased  THEN PrevSlot(tail) ELSE tail
Limit == IF Unpublished THEN PrevSlot(head) ELSE head

Occupancy ==
    IF First # Limit THEN (Limit + Size - First) % Size
                     ELSE IF full THEN Size ELSE 0

Contents == [n \in 1 .. Occupancy |-> data[(First + n - 1) % Size]]

RequestState(p) ==
    CASE pc[p] = "idle" -> "returned"
      [] pc[p] \in {"unlock", "accepted"} \/ (pc[p] = "clear_empty" /\ full) -> "accepted"
      [] pc[p] = "refused" -> "refused"
      [] OTHER -> "pending"

ReplyState ==
    CASE pc[Consumer] \in {"get_unlock", "took"} \/ (pc[Consumer] = "clear_full" /\ empty) -> "took"
      [] pc[Consumer] = "missed" -> "missed"
      [] OTHER -> "idle"

Request == [p \in Producers |-> [op |-> op[p], item |-> item[p], state |-> RequestState(p)]]
Reply   == [state |-> ReplyState, item |-> IF ReplyState = "took" THEN got ELSE NoItem]

Queue == INSTANCE BoundedQueue WITH
    Capacity <- Size, queue <- Contents, request <- Request, reply <- Reply

------------------------------------------------------------------------------
(* Properties *)

TypeOK ==
    /\ head \in Slots
    /\ tail \in Slots
    /\ empty \in BOOLEAN
    /\ full \in BOOLEAN
    /\ data \in [Slots -> Items \cup {NoItem}]
    /\ lock \in Threads \cup {NoThread}
    /\ pc \in [Threads -> ProducerLabels \cup ConsumerLabels]
    /\ \A p \in Producers : pc[p] \in ProducerLabels
    /\ pc[Consumer] \in ConsumerLabels
    /\ op \in [Producers -> Ops]
    /\ item \in [Producers -> Items]
    /\ got \in Items \cup {NoItem}

\* The thread between LOCK and UNLOCK is the one that holds the spin lock, so
\* no two threads move head, tail or the flags at the same time.
MutualExclusion == \A t \in Threads : (lock = t) <=> (pc[t] \in Critical)

\* get looks at empty before it takes the lock and never again (lines 63-67),
\* and still it never copies a slot no put has filled: an item a get has seen
\* stays in the ring until that get takes it.
GetNeverUnderflows ==
    /\ pc[Consumer] \in {"get_lock", "copy"} => Occupancy > 0
    /\ pc[Consumer] \in {"set_empty", "took"} => got # NoItem

\* put and ensure_put write only into a slot no item occupies: the second
\* look at full (lines 83 and 100) catches a ring that another producer
\* filled after the first look.
PutNeverOverwrites ==
    \A p \in Producers : pc[p] = "write" => Occupancy < Size

\* The flags that put, ensure_put and get read without the lock (lines 63,
\* 78 and 98) are right in every state, in the middle of another thread's
\* operation too: full says that no slot is free, empty that no item is left.
FlagsExact ==
    /\ full  <=> Occupancy = Size
    /\ empty <=> Occupancy = 0

\* The ring implements the bounded FIFO queue: nothing is lost, duplicated or
\* reordered, put is refused only when the queue is full at that moment and
\* get returns -1 only when it is empty at that moment.
ImplementsQueue == Queue!Spec

------------------------------------------------------------------------------
(* The inductive invariant behind the properties: how the flags relate to    *)
(* the indices at every point of an operation.                               *)

\* While a put or a get is updating the flags they describe the ring before
\* it; at every other point a flag is set exactly when it explains why the
\* indices meet.
FlagInv ==
    /\ ~(empty /\ full)
    /\ \/ \E p \in Producers : pc[p] \in {"set_full", "clear_empty"}
       \/ pc[Consumer] \in {"set_empty", "clear_full"}
       \/ head = tail <=> (empty \/ full)
    /\ \A p \in Producers :
          /\ pc[p] \in {"write", "set_full"} => ~full
          /\ pc[p] \in {"set_full", "clear_empty"} => (empty <=> head = NextSlot(tail))
          /\ pc[p] = "clear_empty" => (full <=> head = tail)
          /\ pc[p] = "unlock" => ~empty
          /\ pc[p] = "unlock_full" => full
    /\ pc[Consumer] \in {"get_lock", "copy", "set_empty"} => ~empty
    /\ pc[Consumer] \in {"set_empty", "clear_full"} => (full <=> tail = NextSlot(head))
    /\ pc[Consumer] = "clear_full" => (empty <=> head = tail)
    /\ pc[Consumer] = "get_unlock" => ~full

\* The slots are first written in order: as long as one is unwritten, the
\* indices have not wrapped.
UnwrittenInv ==
    \A s \in Slots : data[s] = NoItem =>
        /\ ~full
        /\ tail <= head
        /\ head <= s
        /\ \A p \in Producers : pc[p] \in {"set_full", "clear_empty"} => tail < head

\* The consumer's copy is an item from the moment it is made.
CopyInv == pc[Consumer] \in {"set_empty", "clear_full", "get_unlock", "took"} => got \in Items

\* Until its flags are written, a put's item is in the slot before head and
\* the item a get has copied is still in the slot before tail.
TransferInv ==
    /\ \A p \in Producers :
          pc[p] \in {"set_full", "clear_empty"} => data[PrevSlot(head)] = item[p]
    /\ pc[Consumer] \in {"set_empty", "clear_full"} => data[PrevSlot(tail)] = got

IndInv ==
    TypeOK /\ MutualExclusion /\ FlagInv /\ UnwrittenInv /\ CopyInv /\ TransferInv

------------------------------------------------------------------------------
(* Liveness *)

\* An item in the ring is eventually taken, although the spin lock is unfair:
\* producers cannot keep the lock from the consumer for ever, since a full
\* ring makes put return, and ensure_put spin, before the LOCK.
ConsumerNotStarved == ~empty ~> pc[Consumer] = "took"

\* ensure_put returns once the other producers leave the ring alone, and
\* put returns in any case, accepted or refused: the paths that leave put early
\* (line 85) or start ensure_put over (line 101) give the lock back, too.
CallsReturn ==
    \A p \in Producers :
        <>[](\A q \in Producers \ {p} : pc[q] = "idle") => (pc[p] = "check" ~> pc[p] = "idle")
=============================================================================
