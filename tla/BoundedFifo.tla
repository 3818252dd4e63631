----------------------------- MODULE BoundedFifo -----------------------------
(***************************************************************************)
(* What GDNetQueue promises to the two threads that share it: a FIFO of at *)
(* most Capacity items whose operations take effect in one indivisible     *)
(* step.  A push on a full queue is refused (the item is lost), a pop of   *)
(* an empty queue returns NULL, and clear empties the queue at once.       *)
(***************************************************************************)
EXTENDS Naturals, Sequences

CONSTANTS Items,      \* the objects that are pushed
          NULL,       \* what a pop of an empty queue returns
          Capacity    \* how many items fit

VARIABLES q,          \* the items in the queue, oldest first
          out,        \* what the latest pop returned
          lost        \* the latest item that a push refused

fifoVars == <<q, out, lost>>

FifoInit == /\ q = <<>>
            /\ out = NULL
            /\ lost = NULL

FifoPush(v) == /\ Len(q) < Capacity
               /\ q' = Append(q, v)
               /\ UNCHANGED <<out, lost>>

FifoRefuse(v) == /\ Len(q) = Capacity
                 /\ lost' = v
                 /\ UNCHANGED <<q, out>>

FifoPop == /\ q # <<>>
           /\ out' = Head(q)
           /\ q' = Tail(q)
           /\ UNCHANGED lost

FifoPopEmpty == /\ q = <<>>
                /\ out' = NULL
                /\ UNCHANGED <<q, lost>>

FifoClear == /\ q' = <<>>
             /\ UNCHANGED <<out, lost>>

FifoNext == \/ \E v \in Items : FifoPush(v) \/ FifoRefuse(v)
            \/ FifoPop
            \/ FifoPopEmpty
            \/ FifoClear

FifoSpec == FifoInit /\ [][FifoNext]_fifoVars
==============================================================================
