----------------------------- MODULE GDNetQueue ------------------------------
(***************************************************************************)
(* GDNetQueue<T, SIZE> (gdnet_queue.h): the ring buffer that carries       *)
(* messages from the script thread to the network thread and events back.  *)
(*                                                                         *)
(* Each queue has one thread that pushes and one that pops.  push() and    *)
(* pop() first call is_full() / is_empty(), which take and release the     *)
(* mutex on their own, and only then take the mutex again to move the      *)
(* item: whatever the other thread does in between is an interleaving of   *)
(* this module.  clear() holds the mutex while it calls is_empty() and     *)
(* pop(), so it relies on Godot's mutex being recursive.                   *)
(***************************************************************************)
EXTENDS Integers, Sequences

CONSTANTS SIZE,       \* number of slots (1024 in the program)
          Items,      \* the T* objects that are pushed
          NULL,       \* the null pointer
          Garbage,    \* what a slot holds before it is first written
          NoOwner,    \* the mutex is free
          Clearer     \* the thread that calls unbind(), hence clear()

Threads == {"producer", "consumer"}

ASSUME SizeAssumption == SIZE \in Nat \ {0}
ASSUME ItemsAssumption == NULL \notin Items /\ Garbage \notin Items
ASSUME ThreadAssumption == Clearer \in Threads /\ NoOwner \notin Threads

VARIABLES items,      \* T* items[SIZE]
          read_pos,
          write_pos,
          mutex,      \* the thread that owns it, or NoOwner
          pc,         \* where each thread is in its call
          item,       \* the argument of the push in progress
          out,        \* what the latest pop returned
          lost,       \* the latest item refused because the queue was full
          promised    \* latest get_event_count() minus the pops made since

ringVars == <<items, read_pos, write_pos, mutex, pc, item, out, lost, promised>>

-----------------------------------------------------------------------------
\* A mutant: the position does not wrap around.
AdvanceWithoutWrap(pos) == pos + 1

Advance(pos) == (pos + 1) % SIZE

Empty == read_pos = write_pos

Full == Advance(write_pos) = read_pos

\* A mutant: the wrapped case of size() counts the free slots.
SizeOfGap == IF write_pos > read_pos THEN write_pos - read_pos
             ELSE IF write_pos < read_pos THEN read_pos - write_pos
             ELSE 0

\* The three-way formula of size().
Size == IF write_pos > read_pos THEN write_pos - read_pos
        ELSE IF write_pos < read_pos THEN (SIZE - read_pos) + write_pos
        ELSE 0

\* Godot's mutexes are recursive: their owner may lock them again.
CanLock(t) == mutex \in {NoOwner, t}

Lock(t) == CanLock(t) /\ mutex' = t

Unlock == mutex' = NoOwner

Goto(t, label) == pc' = [pc EXCEPT ![t] = label]

\* The queue as the list of the items met from read_pos round to write_pos.
Count == (write_pos - read_pos) % SIZE

Contents == [i \in 1 .. Count |-> items[(read_pos + i - 1) % SIZE]]

Clearing == pc[Clearer] = "clear"

\* unbind() joins the network thread before it clears a queue, so neither
\* thread begins a call while clear() runs.
CanBegin(t) == pc[t] = "idle" /\ ~Clearing

-----------------------------------------------------------------------------
RingInit == /\ items = [i \in 0 .. SIZE - 1 |-> Garbage]
            /\ read_pos = 0
            /\ write_pos = 0
            /\ mutex = NoOwner
            /\ pc = [t \in Threads |-> "idle"]
            /\ item = NULL
            /\ out = NULL
            /\ lost = NULL
            /\ promised = 0

\* push(v): the call of is_full() ...
IsFullLock(v) == /\ CanBegin("producer")
                 /\ Lock("producer")
                 /\ Goto("producer", "is_full")
                 /\ item' = v
                 /\ UNCHANGED <<items, read_pos, write_pos, out, lost, promised>>

\* ... whose answer makes ERR_FAIL_COND give up, losing the item, or go on ...
IsFullRead == /\ pc["producer"] = "is_full"
              /\ Unlock
              /\ \/ /\ Full
                    /\ lost' = item
                    /\ Goto("producer", "idle")
                 \/ /\ ~Full
                    /\ lost' = lost
                    /\ Goto("producer", "push")
              /\ UNCHANGED <<items, read_pos, write_pos, item, out, promised>>

\* A mutant: the second critical section does not lock.
PushWithoutLock == /\ pc["producer"] = "push"
                   /\ mutex' = mutex
                   /\ Goto("producer", "store")
                   /\ UNCHANGED <<items, read_pos, write_pos, item, out, lost, promised>>

\* ... then the mutex is taken a second time ...
PushLock == /\ pc["producer"] = "push"
            /\ Lock("producer")
            /\ Goto("producer", "store")
            /\ UNCHANGED <<items, read_pos, write_pos, item, out, lost, promised>>

\* A mutant: the position is advanced before the item is stored.
PushAdvanceFirst == /\ pc["producer"] = "store"
                    /\ write_pos' = Advance(write_pos)
                    /\ items' = [items EXCEPT ![write_pos'] = item]
                    /\ Unlock
                    /\ Goto("producer", "idle")
                    /\ UNCHANGED <<read_pos, item, out, lost, promised>>

\* ... and the item stored without another look at the positions.
PushStore == /\ pc["producer"] = "store"
             /\ items' = [items EXCEPT ![write_pos] = item]
             /\ write_pos' = Advance(write_pos)
             /\ Unlock
             /\ Goto("producer", "idle")
             /\ UNCHANGED <<read_pos, item, out, lost, promised>>

\* pop(), with the same two critical sections.
IsEmptyLock == /\ CanBegin("consumer")
               /\ Lock("consumer")
               /\ Goto("consumer", "is_empty")
               /\ UNCHANGED <<items, read_pos, write_pos, item, out, lost, promised>>

\* A mutant: pop() goes on whatever is_empty() answers.
IsEmptyIgnored == /\ pc["consumer"] = "is_empty"
                  /\ Unlock
                  /\ Goto("consumer", "pop")
                  /\ UNCHANGED <<items, read_pos, write_pos, item, out, lost, promised>>

IsEmptyRead == /\ pc["consumer"] = "is_empty"
               /\ Unlock
               /\ \/ /\ Empty
                     /\ out' = NULL
                     /\ Goto("consumer", "idle")
                  \/ /\ ~Empty
                     /\ out' = out
                     /\ Goto("consumer", "pop")
               /\ UNCHANGED <<items, read_pos, write_pos, item, lost, promised>>

PopLock == /\ pc["consumer"] = "pop"
           /\ Lock("consumer")
           /\ Goto("consumer", "take")
           /\ UNCHANGED <<items, read_pos, write_pos, item, out, lost, promised>>

PopTake == /\ pc["consumer"] = "take"
           /\ out' = items[read_pos]
           /\ read_pos' = Advance(read_pos)
           /\ promised' = IF promised > 0 THEN promised - 1 ELSE 0
           /\ Unlock
           /\ Goto("consumer", "idle")
           /\ UNCHANGED <<items, write_pos, item, lost>>

\* size(), called by the popping thread (get_event_count()).
SizeLock == /\ CanBegin("consumer")
            /\ Lock("consumer")
            /\ Goto("consumer", "size")
            /\ UNCHANGED <<items, read_pos, write_pos, item, out, lost, promised>>

SizeRead == /\ pc["consumer"] = "size"
            /\ promised' = Size
            /\ Unlock
            /\ Goto("consumer", "idle")
            /\ UNCHANGED <<items, read_pos, write_pos, item, out, lost>>

\* clear() takes the mutex and keeps it ...
ClearLock == /\ \A t \in Threads : pc[t] = "idle"
             /\ Lock(Clearer)
             /\ Goto(Clearer, "clear")
             /\ promised' = 0
             /\ UNCHANGED <<items, read_pos, write_pos, item, out, lost>>

\* A mutant: the loop body does not remove the item it deletes.
ClearPeek == /\ Clearing
             /\ CanLock(Clearer)
             /\ ~Empty
             /\ UNCHANGED ringVars

\* ... while is_empty() and pop() lock it again for each item ...
ClearPop == /\ Clearing
            /\ CanLock(Clearer)
            /\ ~Empty
            /\ read_pos' = Advance(read_pos)
            /\ UNCHANGED <<items, write_pos, mutex, pc, item, out, lost, promised>>

\* ... until is_empty() says that nothing is left.
ClearUnlock == /\ Clearing
               /\ CanLock(Clearer)
               /\ Empty
               /\ Unlock
               /\ Goto(Clearer, "idle")
               /\ UNCHANGED <<items, read_pos, write_pos, item, out, lost, promised>>

RingNext == \/ \E v \in Items : IsFullLock(v)
            \/ IsFullRead
            \/ PushLock
            \/ PushStore
            \/ IsEmptyLock
            \/ IsEmptyRead
            \/ PopLock
            \/ PopTake
            \/ SizeLock
            \/ SizeRead
            \/ ClearLock
            \/ ClearPop
            \/ ClearUnlock

RingSpec == RingInit /\ [][RingNext]_ringVars

\* A call that is under way is scheduled.  Nothing is assumed about calls
\* being begun, and clear() competes with nobody for the mutex.
RingFairness == WF_ringVars(ClearPop) /\ WF_ringVars(ClearUnlock)

RingFairSpec == RingSpec /\ RingFairness

-----------------------------------------------------------------------------
Labels == {"idle", "is_full", "push", "store", "is_empty", "pop", "take",
           "size", "clear"}

\* The labels at which a thread is between a lock() and its unlock().
Holding == {"is_full", "store", "is_empty", "take", "size", "clear"}

\* Every variable keeps its type: the positions never leave the buffer.
RingTypeOK == /\ items \in [0 .. SIZE - 1 -> Items \cup {Garbage}]
              /\ read_pos \in 0 .. SIZE - 1
              /\ write_pos \in 0 .. SIZE - 1
              /\ mutex \in Threads \cup {NoOwner}
              /\ pc \in [Threads -> Labels]
              /\ item \in Items \cup {NULL}
              /\ out \in Items \cup {NULL}
              /\ lost \in Items \cup {NULL}
              /\ promised \in 0 .. SIZE - 1

\* push() and pop() act on what is_full() and is_empty() answered before they
\* took the mutex again (gdnet_queue.h:58-62 and 69-75): the answer must
\* still be right when the item is moved.
CheckStillHolds ==
    /\ pc["producer"] \in {"push", "store"} => ~Full
    /\ pc["consumer"] \in {"pop", "take"} => ~Empty

\* No two threads are inside the queue's critical sections (each lock() of
\* gdnet_queue.h has its unlock()), and the owner is the one that is inside.
MutexProtocol == \A t \in Threads : mutex = t <=> pc[t] \in Holding

\* A script that reads n from get_event_count() gets n events from its next
\* n calls of get_event(), whatever the network thread does meanwhile.
CountIsAPromise == promised <= Count

\* Each thread is inside one of its own calls, and the thread that clears is
\* alone with the queue.
Discipline ==
    /\ pc["producer"] \in {"idle", "is_full", "push", "store", "clear"}
    /\ pc["consumer"] \in {"idle", "is_empty", "pop", "take", "size", "clear"}
    /\ \A t \in Threads : pc[t] = "clear" =>
          t = Clearer /\ promised = 0 /\ \A u \in Threads \ {t} : pc[u] = "idle"
    /\ pc["producer"] \in {"is_full", "push", "store"} => item \in Items

\* The slots between read_pos and write_pos have been written: pop() never
\* returns the contents of an uninitialised slot.
LiveSlots == \A i \in 1 .. Count : items[(read_pos + i - 1) % SIZE] \in Items

\* The inductive invariant of the proofs.
RingInv == RingTypeOK /\ CheckStillHolds /\ MutexProtocol /\ CountIsAPromise
         /\ Discipline /\ LiveSlots

\* The queue implements the abstract FIFO: the items come out in the order in
\* which they went in, none is duplicated, overwritten or lost unless a push
\* met a full queue, NULL is returned only for an empty queue, and clear()
\* leaves nothing behind.
Fifo == INSTANCE BoundedFifo WITH
            Capacity <- SIZE - 1,
            q <- IF Clearing THEN <<>> ELSE Contents

ImplementsFifo == Fifo!FifoSpec

\* clear() locks a mutex it already holds and loops until the queue is empty
\* (gdnet_queue.h:83-91): it must neither deadlock on itself nor run forever.
ClearReturns == Clearing ~> ~Clearing
==============================================================================
