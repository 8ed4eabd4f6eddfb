---------------------------- MODULE BoundedQueue ----------------------------
(***************************************************************************)
(* What the command queues of the controller promise their users: a FIFO   *)
(* queue of at most Capacity items, filled by several producers and        *)
(* emptied by one consumer, in which every operation takes effect at one   *)
(* instant between its call and its return.                                *)
(*                                                                         *)
(*   put         adds its item, or is refused while the queue is full;     *)
(*   ensure_put  adds its item, and waits while the queue is full;         *)
(*   get         takes the oldest item, or finds the queue empty.          *)
(*                                                                         *)
(* datastructures/mk_ringbuffer.h implements it (module CommandRing), and  *)
(* the modules of the threads that communicate through such a queue use    *)
(* it in place of the ring's memory accesses.                              *)
(***************************************************************************)
EXTENDS Naturals, Sequences

CONSTANTS Capacity,     \* number of slots
          Producers,    \* threads that call put and ensure_put
          Items,        \* the commands that travel through the queue
          NoItem        \* what a get that finds nothing returns

VARIABLES queue,        \* the items in the queue, oldest first
          request,      \* the producer's call: its operation, item and progress
          reply         \* the outcome of the consumer's call

vars == <<queue, request, reply>>

Ops == {"put", "ensure_put"}

Init ==
    /\ queue = << >>
    /\ request \in [Producers -> [op : Ops, item : Items, state : {"returned"}]]
    /\ reply = [state |-> "idle", item |-> NoItem]

\* A producer calls put or ensure_put.
Call(p) ==
    /\ request[p].state = "returned"
    /\ \E o \in Ops, i \in Items :
          request' = [request EXCEPT ![p] = [op |-> o, item |-> i, state |-> "pending"]]
    /\ UNCHANGED <<queue, reply>>

\* The call adds its item.
Accept(p) ==
    /\ request[p].state = "pending"
    /\ Len(queue) < Capacity
    /\ queue' = Append(queue, request[p].item)
    /\ request' = [request EXCEPT ![p].state = "accepted"]
    /\ UNCHANGED reply

\* put gives up: only in a state in which no slot is free.
Refuse(p) ==
    /\ request[p].state = "pending"
    /\ request[p].op = "put"
    /\ Len(queue) = Capacity
    /\ request' = [request EXCEPT ![p].state = "refused"]
    /\ UNCHANGED <<queue, reply>>

Return(p) ==
    /\ request[p].state \in {"accepted", "refused"}
    /\ request' = [request EXCEPT ![p].state = "returned"]
    /\ UNCHANGED <<queue, reply>>

\* get takes the oldest item.
Take ==
    /\ reply.state = "idle"
    /\ queue # << >>
    /\ reply' = [state |-> "took", item |-> Head(queue)]
    /\ queue' = Tail(queue)
    /\ UNCHANGED request

\* get finds nothing: only in a state in which the queue is empty.
Miss ==
    /\ reply.state = "idle"
    /\ queue = << >>
    /\ reply' = [state |-> "missed", item |-> NoItem]
    /\ UNCHANGED <<queue, request>>

GetReturns ==
    /\ reply.state \in {"took", "missed"}
    /\ reply' = [state |-> "idle", item |-> NoItem]
    /\ UNCHANGED <<queue, request>>

Next ==
    \/ \E p \in Producers : Call(p) \/ Accept(p) \/ Refuse(p) \/ Return(p)
    \/ Take \/ Miss \/ GetReturns

Spec == Init /\ [][Next]_vars
=============================================================================
