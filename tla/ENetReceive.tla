------------------------------ MODULE ENetReceive ------------------------------
(***************************************************************************)
(* How an ENet peer takes in the commands that carry packets: the window   *)
(* tests on sequence numbers, the place of a command in the two incoming   *)
(* lists of a channel, reassembly of fragments, and which commands are     *)
(* dispatched to the application or dropped.  The operators are functions  *)
(* of a peer record                                                        *)
(*    chan       per channel: rseq, useq = incomingReliable- and           *)
(*               incomingUnreliableSequenceNumber; rel, unrel =            *)
(*               incomingReliable- and incomingUnreliableCommands          *)
(*    dispatched dispatchedCommands, what enet_peer_receive() returns next *)
(*    waiting    totalWaitingData                                          *)
(*    group, seen incomingUnsequencedGroup and unsequencedWindow           *)
(* and of a command on the wire: its kind, channel ch, numbers seq and     *)
(* useq (useq is also the unsequenced group and, for fragments, the start  *)
(* sequence number), frag and count for fragments (count 0: whole), and    *)
(* pkt, which stands for the payload.  A fragment is one unit of data.     *)
(***************************************************************************)
EXTENDS Integers, Sequences, FiniteSets, FiniteSetsExt, SequencesExt

CONSTANTS
  WindowSize,              \* ENET_PEER_RELIABLE_WINDOW_SIZE, 4096
  Windows,                 \* ENET_PEER_RELIABLE_WINDOWS, 16
  FreeWindows,             \* ENET_PEER_FREE_RELIABLE_WINDOWS, 8
  UnsequencedSize,         \* ENET_PEER_UNSEQUENCED_WINDOW_SIZE, 1024
  UnsequencedWindows,      \* ENET_PEER_UNSEQUENCED_WINDOWS, 64
  FreeUnsequenced,         \* ENET_PEER_FREE_UNSEQUENCED_WINDOWS, 32
  MaximumWaiting           \* maximumWaitingData, in units of data

ASSUME WindowAssumption ==
  /\ WindowSize \in Nat \ {0}
  /\ FreeWindows \in Nat \ 0 .. 2      \* the next window must be among those taken in
  /\ Windows = 2 * FreeWindows
  /\ UnsequencedSize \in Nat \ {0}
  /\ FreeUnsequenced \in Nat \ {0}
  /\ UnsequencedWindows = 2 * FreeUnsequenced
  /\ MaximumWaiting \in Nat \ {0}

Numbers == WindowSize * Windows               \* the 2^16 sequence numbers
Groups == UnsequencedSize * UnsequencedWindows

FreshChannel == [rseq |-> 0, useq |-> 0, rel |-> <<>>, unrel |-> <<>>]
FreshReceiver(channels) ==
  [chan |-> [c \in channels |-> FreshChannel], dispatched |-> <<>>,
   waiting |-> 0, group |-> 0, seen |-> {}]

(***************************************************************************)
(* Numbers below rseq belong to the next round of the 16-bit counter.      *)
(***************************************************************************)
Wraps(ch, seq) == seq < ch.rseq
Window(ch, seq) == (seq \div WindowSize) + (IF Wraps(ch, seq) THEN Windows ELSE 0)
CurrentWindow(ch) == ch.rseq \div WindowSize

InWindow(ch, seq) ==
  Window(ch, seq) \in CurrentWindow(ch) .. CurrentWindow(ch) + FreeWindows - 2

\* A mutant: a command ahead of the windows is acknowledged although it is refused.
NotAcknowledgedFarAhead(ch, seq) == Window(ch, seq) = CurrentWindow(ch) + FreeWindows

\* The commands enet_peer_queue_acknowledgement() leaves unacknowledged.
NotAcknowledged(ch, seq) ==
  Window(ch, seq) \in CurrentWindow(ch) + FreeWindows - 1 .. CurrentWindow(ch) + FreeWindows

\* The order in which the scans of the incoming lists compare numbers.
Rank(ch, seq) == seq + (IF Wraps(ch, seq) THEN Numbers ELSE 0)

Fragmented(e) == e.count > 0

\* A mutant: the last missing fragment is not waited for.
CompleteEarly(e) == Cardinality(e.data) >= e.count - 1

Complete(e) == Cardinality(e.data) >= e.count    \* fragmentsRemaining <= 0
DataLength(e) == IF Fragmented(e) THEN e.count ELSE 1
LastNumber(e) == (e.seq + DataLength(e) - 1) % Numbers

Incoming(cmd, seq) ==
  [kind |-> cmd.kind, ch |-> cmd.ch, seq |-> seq,
   useq |-> IF cmd.kind \in {"unreliable", "unreliableFragment"} THEN cmd.useq ELSE 0,
   count |-> cmd.count, data |-> IF Fragmented(cmd) THEN {} ELSE {<<0, cmd.pkt>>}]

(***************************************************************************)
(* enet_peer_dispatch_incoming_unreliable_commands().  The scan stops at   *)
(* the first command that waits for a later reliable one.  Before that,    *)
(* complete commands of the current reliable number are moved to the       *)
(* dispatched list with the unsequenced ones, old commands are dropped,    *)
(* and so are incomplete ones before droppedCommand, whose position        *)
(* Dropped() computes.  What is dropped stays in totalWaitingData.         *)
(***************************************************************************)
\* A mutant: commands of a later reliable number are not held back.
FateEarly(ch, e) ==
  CASE e.kind = "unsequenced"                       -> "deliver"
    [] e.kind # "unsequenced" /\ e.seq = ch.rseq    -> IF Complete(e) THEN "deliver" ELSE "partial"
    [] OTHER                                        -> IF InWindow(ch, e.seq) THEN "deliver" ELSE "old"

\* A mutant: a command that is not complete yet is dropped.
FateIncomplete(ch, e) ==
  IF e.kind # "unsequenced" /\ e.seq = ch.rseq /\ ~Complete(e) THEN "old"
  ELSE IF e.kind = "unsequenced" \/ e.seq = ch.rseq THEN "deliver"
  ELSE IF InWindow(ch, e.seq) THEN "later" ELSE "old"

Fate(ch, e) ==
  CASE e.kind = "unsequenced"                       -> "deliver"
    [] e.kind # "unsequenced" /\ e.seq = ch.rseq    -> IF Complete(e) THEN "deliver" ELSE "partial"
    [] OTHER                                        -> IF InWindow(ch, e.seq) THEN "later" ELSE "old"

Fates(ch) == [i \in DOMAIN ch.unrel |-> Fate(ch, ch.unrel[i])]
Stop(fate) == Min({i \in DOMAIN fate : fate[i] = "later"} \cup {Len(fate) + 1})
AfterRun(fate, i) == i > 1 /\ fate[i - 1] = "deliver"

Dropped(fate, stop) ==
  LET dropped[i \in 0 .. stop - 1] ==
        CASE i = 0                                   -> 1
          [] i > 0 /\ fate[i] = "deliver"            -> dropped[i - 1]
          [] i > 0 /\ fate[i] = "old"                -> i + 1
          [] OTHER -> IF AfterRun(fate, i) \/ dropped[i - 1] = i THEN i ELSE i - 1
  IN  IF AfterRun(fate, stop) THEN stop ELSE dropped[stop - 1]

Moved(fate, stop) == {i \in 1 .. stop - 1 : fate[i] = "deliver"}
Kept(fate, stop) ==
  {i \in DOMAIN fate : i >= stop \/ (fate[i] = "partial" /\ i >= Dropped(fate, stop))}

Pick(q, S) == [k \in 1 .. Cardinality(S) |-> q[CHOOSE i \in S : Cardinality({j \in S : j <= i}) = k]]

\* unreliableSequenceNumber after the commands of a set were moved.
NumberAfter(q, useq, S) ==
  LET numbered == {i \in S : q[i].kind # "unsequenced"}
  IN  IF numbered = {} THEN useq ELSE q[Max(numbered)].useq

Dispatch(p, c, moved, kept) ==
  [p EXCEPT !.dispatched = @ \o Pick(p.chan[c].unrel, moved),
            !.chan[c].unrel = Pick(@, kept),
            !.chan[c].useq = NumberAfter(p.chan[c].unrel, @, moved)]

DispatchUpTo(p, c, fate, stop) == Dispatch(p, c, Moved(fate, stop), Kept(fate, stop))
DispatchFates(p, c, fate) == DispatchUpTo(p, c, fate, Stop(fate))
DispatchUnreliable(p, c) == DispatchFates(p, c, Fates(p.chan[c]))

(***************************************************************************)
(* enet_peer_dispatch_incoming_reliable_commands(): the commands at the    *)
(* front that are complete and follow each other without a gap.            *)
(***************************************************************************)
\* A mutant: a gap in the numbers is not noticed.
DispatchReliableGap(p, c) ==
  LET q == p.chan[c].rel
      k == Max({j \in 0 .. Len(q) : \A i \in 1 .. j : Complete(q[i])})
  IN  IF k = 0 THEN p
      ELSE [p EXCEPT !.dispatched = @ \o SubSeq(q, 1, k), !.chan[c].rel = SubSeq(q, k + 1, Len(q)),
                     !.chan[c].rseq = LastNumber(q[k]), !.chan[c].useq = 0]

Prev(ch, i) == IF i = 1 THEN ch.rseq ELSE LastNumber(ch.rel[i - 1])
Follows(ch, i) == Complete(ch.rel[i]) /\ ch.rel[i].seq = (Prev(ch, i) + 1) % Numbers
ReadyRun(ch) == Max({j \in 0 .. Len(ch.rel) : \A i \in 1 .. j : Follows(ch, i)})

DispatchRun(p, c, k) ==
  LET q     == p.chan[c].rel
      moved == [p EXCEPT !.dispatched = @ \o SubSeq(q, 1, k),
                         !.chan[c].rel = SubSeq(q, k + 1, Len(q)),
                         !.chan[c].rseq = LastNumber(q[k]),
                         !.chan[c].useq = 0]
  IN  IF k = 0 THEN p ELSE IF p.chan[c].unrel = <<>> THEN moved ELSE DispatchUnreliable(moved, c)

DispatchReliable(p, c) == DispatchRun(p, c, ReadyRun(p.chan[c]))

(***************************************************************************)
(* enet_peer_queue_incoming_command(): the new peer record, and what the   *)
(* function returns: the queued command, the dummy command or NULL.        *)
(***************************************************************************)
IsReliable(cmd) == cmd.kind \in {"reliable", "fragment"}

Precedes(ch, e, seq, useq) ==
  \/ Rank(ch, e.seq) < Rank(ch, seq)
  \/ e.seq = seq /\ e.useq <= useq

\* A mutant: a new command goes to the end of the list.
PlaceLast(ch, list, seq, useq) == Len(list)

\* The list position after which the new command goes.
Place(ch, list, seq, useq) ==
  Max({i \in DOMAIN list : Precedes(ch, list[i], seq, useq)} \cup {0})

Discards(ch, e, list, place) ==
  IF IsReliable(e)
  THEN \/ ~InWindow(ch, e.seq)
       \/ e.seq = ch.rseq
       \/ place > 0 /\ list[place].seq = e.seq
  ELSE /\ e.kind # "unsequenced"
       /\ \/ ~InWindow(ch, e.seq)
          \/ e.seq = ch.rseq /\ e.useq <= ch.useq
          \/ place > 0 /\ list[place].seq = e.seq /\ list[place].useq = e.useq

\* A mutant: the buffer of a fragmented packet is not counted.
CountedWhole(p, e) == [p EXCEPT !.waiting = @ + (IF Fragmented(e) THEN 0 ELSE 1)]

Counted(p, e) == [p EXCEPT !.waiting = @ + DataLength(e)]

Listed(p, e) == IF IsReliable(e) THEN p.chan[e.ch].rel ELSE p.chan[e.ch].unrel

\* The new command is inserted, and what is ready is dispatched.
Inserted(p, e, place) ==
  IF IsReliable(e)
  THEN DispatchReliable([p EXCEPT !.chan[e.ch].rel = InsertAt(@, place + 1, e)], e.ch)
  ELSE DispatchUnreliable([p EXCEPT !.chan[e.ch].unrel = InsertAt(@, place + 1, e)], e.ch)

QueueAt(p, e, list, place) ==
  IF Discards(p.chan[e.ch], e, list, place)
  THEN [peer |-> p, result |-> IF Fragmented(e) THEN "error" ELSE "dummy"]
  ELSE IF p.waiting >= MaximumWaiting THEN [peer |-> p, result |-> "error"]
  ELSE [peer |-> Inserted(Counted(p, e), e, place), result |-> "queued"]

QueueIn(p, e, list) ==
  QueueAt(p, e, list, IF e.kind = "unsequenced" THEN 0 ELSE Place(p.chan[e.ch], list, e.seq, e.useq))

QueueEntry(p, e) == QueueIn(p, e, Listed(p, e))
QueueIncoming(p, cmd, seq) == QueueEntry(p, Incoming(cmd, seq))

(***************************************************************************)
(* The handlers of protocol.cpp.  Each yields the new peer record; ok, the *)
(* return value 0, after which a reliable command may be acknowledged; and *)
(* freed, whether the handler goes on with a command that the dispatch in  *)
(* enet_peer_queue_incoming_command() has already dropped.                 *)
(***************************************************************************)
Done(p, ok) == [peer |-> p, ok |-> ok, freed |-> FALSE]

Whole(q) == Done(q.peer, q.result # "error")
HandleWhole(p, cmd) == Whole(QueueIncoming(p, cmd, cmd.seq))

\* The window of groups is moved to the group of the command.
Advanced(p, base) == IF base = p.group THEN p ELSE [p EXCEPT !.group = base, !.seen = {}]
Marked(q, index) ==
  Done(IF q.result = "error" THEN q.peer ELSE [q.peer EXCEPT !.seen = @ \cup {index}], q.result # "error")

\* A mutant: groups of an earlier window are taken in again.
HandleUnsequencedOld(p, cmd) ==
  LET index == cmd.useq % UnsequencedSize
      base  == cmd.useq - index
  IN  IF base = p.group /\ index \in p.seen THEN Done(p, TRUE)
      ELSE Marked(QueueIncoming(Advanced(p, base), cmd, 0), index)

HandleUnsequenced(p, cmd) ==
  LET index == cmd.useq % UnsequencedSize
      base  == cmd.useq - index
      ahead == cmd.useq + (IF cmd.useq < p.group THEN Groups ELSE 0)
  IN  IF \/ ahead >= p.group + FreeUnsequenced * UnsequencedSize
         \/ base = p.group /\ index \in p.seen
      THEN Done(p, TRUE)
      ELSE Marked(QueueIncoming(Advanced(p, base), cmd, 0), index)

\* Both fragment handlers: find or queue the start command, store the fragment
\* unless it is there already, and dispatch when it was the last one.
Start(p, e) ==
  {i \in DOMAIN Listed(p, e) : Listed(p, e)[i].seq = e.seq /\ Listed(p, e)[i].useq = e.useq}

Stored(p, e, i, fragment) ==
  IF IsReliable(e) THEN [p EXCEPT !.chan[e.ch].rel[i].data = @ \cup {fragment}]
                   ELSE [p EXCEPT !.chan[e.ch].unrel[i].data = @ \cup {fragment}]

DispatchIf(complete, p, e) ==
  IF ~complete THEN p
  ELSE IF IsReliable(e) THEN DispatchReliable(p, e.ch) ELSE DispatchUnreliable(p, e.ch)

StoreAt(p, e, i, fragment) ==
  IF \E d \in Listed(p, e)[i].data : d[1] = fragment[1] THEN Done(p, TRUE)
  ELSE Done(DispatchIf(Complete([Listed(p, e)[i] EXCEPT !.data = @ \cup {fragment}]),
                       Stored(p, e, i, fragment), e), TRUE)

\* The start command was there already: it must agree with this fragment.
StoreFound(p, e, start, fragment) ==
  IF start.kind # e.kind \/ start.count # e.count THEN Done(p, FALSE)
  ELSE StoreAt(p, e, CHOOSE i \in Start(p, e) : TRUE, fragment)

StoreQueued(p, e, q, fragment) ==
  IF q.result # "queued" THEN Done(p, FALSE)
  ELSE IF Start(q.peer, e) = {} THEN [Done(q.peer, TRUE) EXCEPT !.freed = TRUE]
  ELSE StoreAt(q.peer, e, CHOOSE i \in Start(q.peer, e) : TRUE, fragment)

StoreIn(p, e, fragment) ==
  IF Start(p, e) # {}
  THEN StoreFound(p, e, Listed(p, e)[CHOOSE i \in Start(p, e) : TRUE], fragment)
  ELSE StoreQueued(p, e, QueueEntry(p, e), fragment)

StoreFragment(p, cmd, seq) == StoreIn(p, Incoming(cmd, seq), <<cmd.frag, cmd.pkt>>)

HandleFragment(p, cmd) ==
  IF InWindow(p.chan[cmd.ch], cmd.useq) THEN StoreFragment(p, cmd, cmd.useq) ELSE Done(p, TRUE)

HandleUnreliableFragment(p, cmd) ==
  LET ch == p.chan[cmd.ch]
  IN  IF ~InWindow(ch, cmd.seq) \/ (cmd.seq = ch.rseq /\ cmd.useq <= ch.useq) THEN Done(p, TRUE)
      ELSE StoreFragment(p, cmd, cmd.seq)

Handle(p, cmd) ==
  CASE cmd.kind \in {"reliable", "unreliable"} -> HandleWhole(p, cmd)
    [] cmd.kind = "unsequenced"                -> HandleUnsequenced(p, cmd)
    [] cmd.kind = "fragment"                   -> HandleFragment(p, cmd)
    [] cmd.kind = "unreliableFragment"         -> HandleUnreliableFragment(p, cmd)

\* enet_peer_receive(): the first dispatched command goes to the application.
Received(p) == [p EXCEPT !.dispatched = Tail(@), !.waiting = @ - DataLength(Head(p.dispatched))]
================================================================================
