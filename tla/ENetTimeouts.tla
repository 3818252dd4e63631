------------------------------ MODULE ENetTimeouts ------------------------------
(***************************************************************************)
(* When reliable commands are sent again and when a peer that does not     *)
(* acknowledge them is given up.  The clock is an unsigned integer that    *)
(* wraps around and is compared with the macros of time.h; all times are   *)
(* those of enet_host_service(), which may be called late.                 *)
(***************************************************************************)
EXTENDS Integers, Sequences, FiniteSetsExt, SequencesExt

CONSTANTS
  Clock,         \* the number of times, 2^32
  Overflow,      \* ENET_TIME_OVERFLOW, 86400000
  FirstTimeouts, \* values of roundTripTime + 4 * roundTripTimeVariance
  Limit,         \* timeoutLimit
  Minimum,       \* timeoutMinimum
  Maximum,       \* timeoutMaximum
  MaxStep,       \* bound: time between two calls of enet_host_service()
  MaxCommands    \* bound: commands that are not acknowledged

ASSUME TimeAssumption ==
  /\ Overflow \in Nat \ {0} /\ Clock \in Nat /\ Clock >= 2 * Overflow
  /\ FirstTimeouts \subseteq Nat \ {0}
  /\ {Limit, Minimum, Maximum, MaxStep, MaxCommands} \subseteq Nat \ {0}
  /\ 4 * (Maximum + MaxStep) < Overflow       \* no timeout is as long as a day

VARIABLES
  now,       \* serviceTime
  up,        \* the peer has not been given up
  outgoing,  \* outgoingReliableCommands
  sent,      \* sentReliableCommands
  next,      \* nextTimeout
  earliest,  \* earliestTimeout, 0: none
  quiet      \* history: time since the last acknowledgement, 0 while there is none to wait for

vars == <<now, up, outgoing, sent, next, earliest, quiet>>

(***************************************************************************)
(* The macros of time.h.                                                   *)
(***************************************************************************)
\* A mutant: times are compared as numbers.
LessAsNumbers(a, b) == a < b

Less(a, b) == (a - b) % Clock >= Overflow
Difference(a, b) == IF (a - b) % Clock >= Overflow THEN (b - a) % Clock ELSE (a - b) % Clock
\* A mutant: the clock does not wrap around.
LaterWide(a, d) == a + d

Later(a, d) == (a + d) % Clock

Init ==
  /\ now \in 0 .. Clock - 1
  /\ up = TRUE
  /\ outgoing = <<>> /\ sent = <<>>
  /\ next = 0 /\ earliest = 0 /\ quiet = 0

\* A command: sentTime, roundTripTimeout (0: never sent), roundTripTimeoutLimit and,
\* as history, the time since it was first sent.
NewCommand == [time |-> 0, timeout |-> 0, limit |-> 0, age |-> 0]
Deadline(o) == Later(o.time, o.timeout)

Send ==
  /\ up
  /\ Len(outgoing) + Len(sent) < MaxCommands
  /\ outgoing' = Append(outgoing, NewCommand)
  /\ UNCHANGED <<now, up, sent, next, earliest, quiet>>

\* enet_protocol_check_timeouts() at time t.
Late(o, t) == Difference(t, o.time) >= o.timeout

Earlier(e, o) == IF e = 0 \/ Less(o.time, e) THEN o.time ELSE e

\* A mutant: the limit alone is enough.
GivesUpAtLimit(e, o, t) == e # 0 /\ (Difference(t, e) >= Maximum \/ o.timeout >= o.limit)

GivesUp(e, o, t) ==
  /\ e # 0
  /\ \/ Difference(t, e) >= Maximum
     \/ o.timeout >= o.limit /\ Difference(t, e) >= Minimum

BackedOff(o) == [o EXCEPT !.timeout = 2 * @]

\* What the loop has changed so far: whether the peer is given up, the commands to be sent
\* again, those that stay, earliestTimeout and nextTimeout.
Unchecked(list) ==
  [giveUp |-> FALSE, resend |-> <<>>, sent |-> list, earliest |-> earliest, next |-> next]

\* The i-th command; the next one may have become the first.
Examine(list, i, t, r) ==
  LET o == list[i]
      e == Earlier(r.earliest, o)
  IN  IF Late(o, t)
      THEN [r EXCEPT !.giveUp = @ \/ GivesUp(e, o, t), !.resend = Append(@, BackedOff(o)),
                     !.earliest = e,
                     !.next = IF r.sent = <<>> /\ i < Len(list) THEN Deadline(list[i + 1]) ELSE @]
      ELSE [r EXCEPT !.sent = Append(@, o)]

CheckTimeouts(t, list) ==
  LET loop[i \in 0 .. Len(list)] ==
        IF i = 0 THEN Unchecked(<<>>) ELSE Examine(list, i, t, loop[i - 1])
  IN  loop[Len(list)]

\* enet_protocol_send_reliable_outgoing_commands(): a command is sent at time t.
Put(o, t, first) ==
  [o EXCEPT !.time = t,
            !.timeout = IF o.timeout = 0 THEN first ELSE @,
            !.limit = IF o.timeout = 0 THEN Limit * first ELSE @]

Aged(s, d) == [i \in DOMAIN s |-> IF s[i].timeout = 0 THEN s[i] ELSE [s[i] EXCEPT !.age = @ + d]]

\* The peer's turn looks at the timeouts when nextTimeout has passed.
Due(t, list) == list # <<>> /\ ~Less(t, next)

Unacknowledged == {o \in Range(sent \o outgoing) : o.timeout > 0}

(***************************************************************************)
(* A call of enet_host_service(), d after the one before: timeouts, then k *)
(* of the outgoing commands, at least one if nothing else is in transit.   *)
(***************************************************************************)
Service(d, k, first) ==
  LET t == Later(now, d)
      s == Aged(sent, d)
      r == IF Due(t, s) THEN CheckTimeouts(t, s) ELSE Unchecked(s)
      q == r.resend \o Aged(outgoing, d)
      new == [i \in 1 .. k |-> Put(q[i], t, first)]
  IN  /\ up
      /\ k <= Len(q)
      /\ q # <<>> /\ r.sent = <<>> => k > 0
      /\ now' = t
      /\ quiet' = IF Unacknowledged = {} THEN 0 ELSE quiet + d
      /\ up' = ~r.giveUp
      /\ IF r.giveUp
         THEN outgoing' = <<>> /\ sent' = <<>> /\ UNCHANGED <<next, earliest>>
         ELSE /\ outgoing' = SubSeq(q, k + 1, Len(q))
              /\ sent' = r.sent \o new
              /\ next' = IF r.sent = <<>> /\ k > 0 THEN Deadline(new[1]) ELSE r.next
              /\ earliest' = r.earliest

\* A mutant: nextTimeout is left when the command it is of is acknowledged.
NextAfterAckSame(list) == next

NextAfterAck(list) == IF list = <<>> THEN next ELSE Deadline(list[1])

EarliestAfterAck == 0

\* Any acknowledgement, of whatever age, sets earliestTimeout back.
AckSent(i) ==
  /\ i \in DOMAIN sent
  /\ sent' = RemoveAt(sent, i)
  /\ next' = NextAfterAck(RemoveAt(sent, i))
  /\ earliest' = EarliestAfterAck /\ quiet' = 0
  /\ UNCHANGED <<now, up, outgoing>>

\* Of a command that waits to be sent again; these are first in the list.
AckResend(i) ==
  /\ i \in DOMAIN outgoing
  /\ \A j \in 1 .. i : outgoing[j].timeout > 0
  /\ outgoing' = RemoveAt(outgoing, i)
  /\ next' = NextAfterAck(sent)
  /\ earliest' = EarliestAfterAck /\ quiet' = 0
  /\ UNCHANGED <<now, up, sent>>

\* Of a command that is gone: a duplicate.
AckAgain ==
  /\ up
  /\ earliest' = EarliestAfterAck /\ quiet' = 0
  /\ UNCHANGED <<now, up, outgoing, sent, next>>

Next ==
  \/ Send
  \/ \E d \in 1 .. MaxStep, k \in 0 .. MaxCommands, first \in FirstTimeouts : Service(d, k, first)
  \/ \E i \in 1 .. MaxCommands : AckSent(i) \/ AckResend(i)
  \/ AckAgain

Spec == Init /\ [][Next]_vars

--------------------------------------------------------------------------------
Times == 0 .. Clock - 1
CommandSet == [time : Times, timeout : 0 .. Overflow, limit : Nat, age : Nat]

\* Types; no timeout grows as large as the clock's range.
TypeOK ==
  /\ now \in Times /\ next \in Times /\ earliest \in Times /\ quiet \in Nat
  /\ up \in BOOLEAN
  /\ \A i \in DOMAIN sent : sent[i] \in CommandSet /\ sent[i].timeout > 0
  /\ \A i \in DOMAIN outgoing : outgoing[i] \in CommandSet

(***************************************************************************)
(* nextTimeout, which decides whether the timeouts are looked at, is that  *)
(* of the first command that was sent, through retransmissions and         *)
(* acknowledgements in any order.                                          *)
(***************************************************************************)
NextIsFirst == sent # <<>> => next = Deadline(sent[1])

(***************************************************************************)
(* A peer is given up only when some command has been without              *)
(* acknowledgement for timeoutMinimum, or for timeoutMaximum.              *)
(***************************************************************************)
NotGivenUpEarly ==
  [][up /\ ~up' => \E o \in Unacknowledged :
                     o.age + Difference(now', now) >= Min({Minimum, Maximum})]_vars

(***************************************************************************)
(* A host that has fallen silent is given up: once nothing is acknowledged *)
(* any more, within three times timeoutMaximum and one late call of        *)
(* enet_host_service(), however many commands wait behind each other.      *)
(* timeoutMaximum is looked at only when a timeout has ended, which may    *)
(* have doubled to twice timeoutMaximum by then.                           *)
(***************************************************************************)
SilenceEnds == up => quiet < 3 * Maximum + MaxStep


(***************************************************************************)
(* Types, and a nextTimeout that agrees with the list of sent commands.    *)
(***************************************************************************)
TimeoutInv == TypeOK /\ NextIsFirst

================================================================================
