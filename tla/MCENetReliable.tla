---------------------------- MODULE MCENetReliable -----------------------------
(***************************************************************************)
(* Instances of ENetReliable.                                              *)
(***************************************************************************)
EXTENDS ENetReliable

CONSTANTS c1, c2

\* Packets of one command on the first channel, one at a time.
OneByOne(commands, budget) ==
  [sizes |-> {1}, lifetime |-> FreeWindows + 1, budget |-> budget, unsent |-> 1, unread |-> 0,
   commands |-> [c \in AllChannels |-> IF c = c1 THEN commands ELSE 0]]

\* The sequence numbers wrap around; the receiver misses a command while the
\* sender goes on for several windows; two channels, fragments and a command
\* without a packet; packets of two fragments while the numbers wrap around.
MCScenarios ==
  {OneByOne(14, 3), OneByOne(7, 4),
   [sizes |-> {1, 2}, lifetime |-> FreeWindows, budget |-> 2, unsent |-> 2, unread |-> 1,
    commands |-> [c \in AllChannels |-> IF c = Control THEN 1 ELSE 2]],
   [sizes |-> {2}, lifetime |-> FreeWindows, budget |-> 2, unsent |-> 2, unread |-> 0,
    commands |-> [c \in AllChannels |-> IF c = c1 THEN 14 ELSE 0]]}

\* For liveness, where each window has one number: a command, or the second fragment
\* of a packet, has to wait for the window of the one before it; a command waits for
\* the room in transit that one of another channel takes.
MCHeldBack ==
  {[sizes |-> {1, 2}, lifetime |-> FreeWindows, budget |-> 2, unsent |-> 2, unread |-> 0,
    commands |-> [c \in AllChannels |-> IF c = c1 THEN 2 ELSE 0]],
   [sizes |-> {1}, lifetime |-> FreeWindows, budget |-> 1, unsent |-> 1, unread |-> 0,
    commands |-> [c \in AllChannels |-> IF c = Control THEN 0 ELSE 1]]}
================================================================================
