--------------------------- MODULE ENetTimeoutsProofs ---------------------------
(***************************************************************************)
(* Proofs about ENetTimeouts: nextTimeout is that of the first command in  *)
(* transit, no peer is given up before a command has been without          *)
(* acknowledgement for the time that was asked for, and none that has      *)
(* fallen silent is waited for much longer, for every length of the clock, *)
(* any timeouts and any number of commands.                                *)
(***************************************************************************)
EXTENDS ENetTimeouts, SequenceTheorems, FiniteSetTheorems, WellFoundedInduction, TLAPS

Command == [time : Times, timeout : Nat, limit : Nat, age : Nat]
Examined == [giveUp : BOOLEAN, resend : Seq(Command), sent : Seq(Command),
             earliest : Times, next : Times]

Types ==
  /\ now \in Times /\ next \in Times /\ earliest \in Times /\ up \in BOOLEAN
  /\ outgoing \in Seq(Command) /\ sent \in Seq(Command)

--------------------------------------------------------------------------------
(* The loop of enet_protocol_check_timeouts(). *)

\* Induction on the commands, by the least number that is not in T.
LEMMA UpToInduction ==
  ASSUME NEW n \in Nat, NEW T, 0 \in T,
         \A k \in 0 .. n - 1 : k \in T => k + 1 \in T
  PROVE  n \in T
  <1> SUFFICES ASSUME n \notin T
               PROVE  FALSE
    OBVIOUS
  <1> DEFINE B == {k \in Nat : k <= n /\ k \notin T}
  <1>1. n \in B /\ B \subseteq Nat
    OBVIOUS
  <1>2. PICK m \in B : \A k \in B : ~(<<k, m>> \in OpToRel(<, Nat))
    BY <1>1, NatLessThanWellFounded, WFMin
  <1>3. m \in Nat /\ m <= n /\ m \notin T /\ m # 0
    OBVIOUS
  <1>4. m - 1 \in 0 .. n - 1
    BY <1>3
  <1>5. m - 1 \notin T
    BY <1>3, <1>4
  <1>6. m - 1 \in B
    BY <1>3, <1>4, <1>5
  <1>7. <<m - 1, m>> \in OpToRel(<, Nat)
    BY <1>3, <1>4 DEF OpToRel
  <1> QED
    BY <1>2, <1>6, <1>7

\* u[k]: what the loop has changed after k commands.
Passes(list, t, n, u) ==
  /\ u[0] = Unchecked(<<>>) /\ CheckTimeouts(t, list) = u[n]
  /\ \A k \in 0 .. n - 1 : u[k + 1] = Examine(list, k + 1, t, u[k])

\* The function that CheckTimeouts is defined by exists.
LEMMA LoopRuns ==
  ASSUME NEW list, NEW t, NEW n \in Nat, n = Len(list)
  PROVE  \E u : Passes(list, t, n, u)
  <1> DEFINE Runs(u, m) == u = [i \in 0 .. m |->
                               IF i = 0 THEN Unchecked(<<>>) ELSE Examine(list, i, t, u[i - 1])]
             T == {k \in 0 .. n : \E u : Runs(u, k)}
             A == CHOOSE u : Runs(u, n)
  <1>1. 0 \in T
    <2>1. Runs([k \in 0 .. 0 |-> Unchecked(<<>>)], 0)
      OBVIOUS
    <2> HIDE DEF Runs
    <2> QED
      BY <2>1
  <1>2. ASSUME NEW k \in 0 .. n - 1, k \in T
        PROVE  k + 1 \in T
    <2>1. PICK u : Runs(u, k)
      BY <1>2
    <2>2. PICK v : v = [j \in 0 .. k + 1 |->
                         IF j = k + 1 THEN Examine(list, j, t, u[k]) ELSE u[j]]
      OBVIOUS
    <2>3. \A j \in 0 .. k : v[j] = u[j]
      BY <2>2
    <2>4. \A j \in 0 .. k + 1 :
            v[j] = IF j = 0 THEN Unchecked(<<>>) ELSE Examine(list, j, t, v[j - 1])
      <3> SUFFICES ASSUME NEW j \in 0 .. k + 1
                   PROVE  v[j] = IF j = 0 THEN Unchecked(<<>>) ELSE Examine(list, j, t, v[j - 1])
        OBVIOUS
      <3>1. CASE j = k + 1
        <4>1. v[j] = Examine(list, j, t, u[k]) /\ j - 1 = k /\ j # 0 /\ v[k] = u[k]
          BY <2>2, <2>3, <3>1
        <4> QED
          BY <4>1
      <3>2. CASE j # k + 1
        <4>1. j \in 0 .. k /\ (j # 0 => j - 1 \in 0 .. k)
          BY <3>2
        <4>2. u[j] = IF j = 0 THEN Unchecked(<<>>) ELSE Examine(list, j, t, u[j - 1])
          BY <2>1, <4>1
        <4> QED
          BY <2>3, <4>1, <4>2
      <3> QED
        BY <3>1, <3>2
    <2>5. Runs(v, k + 1)
      BY <2>2, <2>4
    <2> QED
      BY <2>5
  <1>3. n \in T
    <2> HIDE DEF T
    <2> QED
      BY <1>1, <1>2, UpToInduction
  <1>4. Runs(A, n)
    <2>1. \E u : Runs(u, n)
      BY <1>3
    <2> HIDE DEF Runs
    <2> QED
      BY <2>1
  <1>5. CheckTimeouts(t, list) = A[n]
    BY DEF CheckTimeouts
  <1>6. A[0] = Unchecked(<<>>)
    <2> HIDE DEF A
    <2> QED
      BY <1>4
  <1>7. ASSUME NEW k \in 0 .. n - 1
        PROVE  A[k + 1] = Examine(list, k + 1, t, A[k])
    <2> HIDE DEF A
    <2>1. PICK j : j = k + 1 /\ j \in 0 .. n /\ j # 0 /\ j - 1 = k
      OBVIOUS
    <2>2. A[j] = IF j = 0 THEN Unchecked(<<>>) ELSE Examine(list, j, t, A[j - 1])
      BY <1>4, <2>1
    <2> QED
      BY <2>1, <2>2
  <1> QED
    BY <1>5, <1>6, <1>7 DEF Passes

\* A time by which a peer may be given up.
Expired(e, t) == e # 0 /\ (Difference(t, e) >= Maximum \/ Difference(t, e) >= Minimum)

\* earliestTimeout, or the time at which one of the commands up to the i-th was sent.
Source(list, i, e) == e = earliest \/ \E j \in 1 .. i : e = list[j].time

\* The commands so far are in one of the two lists.
Sorted(list, i, r) ==
  /\ \A k \in 1 .. Len(r.sent) : \E j \in 1 .. i : r.sent[k] = list[j]
  /\ \A j \in 1 .. i : \/ \E k \in 1 .. Len(r.sent) : r.sent[k] = list[j]
                       \/ \E k \in 1 .. Len(r.resend) : r.resend[k] = BackedOff(list[j])

\* nextTimeout is that of the first command that stays, or of the one to be looked at next.
First(list, i, r) ==
  /\ r.sent # <<>> => r.next = Deadline(r.sent[1])
  /\ r.sent = <<>> /\ i < Len(list) => r.next = Deadline(list[i + 1])

Loop(list, t, i, r) ==
  /\ r \in Examined /\ Sorted(list, i, r) /\ Source(list, i, r.earliest)
  /\ r.giveUp => \E e \in Times : Source(list, i, e) /\ Expired(e, t)

LEMMA Clocks ==
  /\ Clock \in Nat /\ Overflow \in Nat /\ Clock > 0 /\ 2 * Overflow <= Clock
  /\ Maximum \in Nat /\ Minimum \in Nat /\ MaxStep \in Nat
  /\ Maximum < Overflow /\ MaxStep < Overflow
  /\ \A f \in FirstTimeouts : f \in Nat /\ f > 0
  BY TimeAssumption

LEMMA LaterType ==
  ASSUME NEW a \in Int, NEW d \in Int
  PROVE  Later(a, d) \in Times
  <1>1. PICK b \in Int : b = a + d
    OBVIOUS
  <1>2. b % Clock \in 0 .. Clock - 1
    BY Clocks
  <1> QED
    BY <1>1, <1>2 DEF Later, Times

LEMMA DeadlineType ==
  ASSUME NEW o \in Command
  PROVE  Deadline(o) \in Times
  <1>1. o.time \in Int /\ o.timeout \in Int
    BY Clocks DEF Command, Times
  <1> QED
    BY <1>1, LaterType DEF Deadline

LEMMA BackedOffType ==
  ASSUME NEW o \in Command
  PROVE  /\ BackedOff(o) \in Command /\ BackedOff(o).age = o.age
         /\ o.timeout > 0 => BackedOff(o).timeout > 0
  BY DEF BackedOff, Command

LEMMA ExamineLate ==
  ASSUME NEW list \in Seq(Command), NEW t \in Times, NEW k \in 0 .. Len(list) - 1, NEW r,
         Types, Loop(list, t, k, r), Late(list[k + 1], t)
  PROVE  Loop(list, t, k + 1, Examine(list, k + 1, t, r))
         /\ (First(list, k, r) => First(list, k + 1, Examine(list, k + 1, t, r)))
  <1>1. PICK o : o = list[k + 1]
    OBVIOUS
  <1>2. PICK e : e = Earlier(r.earliest, o)
    OBVIOUS
  <1>3. PICK b : b = BackedOff(o)
    OBVIOUS
  <1>4. PICK s : s = Examine(list, k + 1, t, r)
    OBVIOUS
  <1>5. PICK i : i = k + 1
    OBVIOUS
  <1>6. /\ k \in Nat /\ i \in 1 .. Len(list) /\ 1 .. k \subseteq 1 .. i /\ i \in 1 .. i
        /\ Len(list) \in Nat /\ \A j \in 1 .. i : j \in 1 .. k \/ j = i
    BY <1>5
  <1>7. o \in Command /\ o = list[i] /\ o.time \in Times /\ b \in Command
    <2>1. o = list[i] /\ o \in Command
      BY <1>1, <1>5, <1>6
    <2>2. o.time \in Times
      BY <2>1 DEF Command
    <2> QED
      BY <1>3, <2>1, <2>2, BackedOffType
  <1>8. /\ r \in Examined /\ Sorted(list, k, r) /\ Source(list, k, r.earliest)
        /\ r.giveUp => \E d \in Times : Source(list, k, d) /\ Expired(d, t)
    BY DEF Loop
  <1>9. e = r.earliest \/ e = o.time
    BY <1>2 DEF Earlier
  <1>10. e \in Times
    BY <1>7, <1>8, <1>9 DEF Examined
  <1>11. \A d : Source(list, k, d) => Source(list, i, d)
    BY <1>6 DEF Source
  <1>12. Source(list, i, e)
    <2>1. CASE e = r.earliest
      BY <1>8, <1>11, <2>1
    <2>2. CASE e = o.time
      BY <1>6, <1>7, <2>2 DEF Source
    <2> QED
      BY <1>9, <2>1, <2>2
  <1>13. PICK d : d = IF r.sent = <<>> /\ i < Len(list) THEN Deadline(list[i + 1]) ELSE r.next
    OBVIOUS
  <1>14. d \in Times
    <2>1. CASE r.sent = <<>> /\ i < Len(list)
      <3>1. i + 1 \in 1 .. Len(list)
        BY <1>6, <2>1
      <3>2. list[i + 1] \in Command
        BY <3>1
      <3> QED
        BY <1>13, <2>1, <3>2, DeadlineType
    <2>2. CASE ~(r.sent = <<>> /\ i < Len(list))
      BY <1>8, <1>13, <2>2 DEF Examined
    <2> QED
      BY <2>1, <2>2
  <1>15. PICK g : g = (r.giveUp \/ GivesUp(e, o, t))
    OBVIOUS
  <1>16. s = [r EXCEPT !.giveUp = g, !.resend = Append(r.resend, b), !.earliest = e, !.next = d]
    BY <1>1, <1>2, <1>3, <1>4, <1>5, <1>13, <1>15 DEF Examine
  <1>17. g \in BOOLEAN
    <2>1. GivesUp(e, o, t) \in BOOLEAN
      BY DEF GivesUp
    <2>2. r.giveUp \in BOOLEAN
      BY <1>8 DEF Examined
    <2> QED
      BY <1>15, <2>1, <2>2
  <1>18. /\ s.giveUp = g /\ s.resend = Append(r.resend, b) /\ s.sent = r.sent
         /\ s.earliest = e /\ s.next = d
    BY <1>8, <1>16 DEF Examined
  <1>19. s \in Examined
    <2>1. PICK w : w = Append(r.resend, b)
      OBVIOUS
    <2>2. w \in Seq(Command)
      BY <1>7, <1>8, <2>1 DEF Examined
    <2>3. s = [r EXCEPT !.giveUp = g, !.resend = w, !.earliest = e, !.next = d]
      BY <1>16, <2>1
    <2> QED
      BY <1>8, <1>10, <1>14, <1>17, <2>2, <2>3 DEF Examined
  <1>20. Sorted(list, i, s)
    <2>1. PICK q \in Seq(Command), p \in Seq(Command) : q = r.resend /\ p = r.sent
      BY <1>8 DEF Examined
    <2>2. PICK m \in Nat : m = Len(q)
      OBVIOUS
    <2>3. PICK w : w = Append(q, b)
      OBVIOUS
    <2>4. Len(w) = m + 1 /\ w[m + 1] = b /\ \A j \in 1 .. m : w[j] = q[j]
      BY <1>7, <2>2, <2>3
    <2>5. \A j \in 1 .. Len(p) : \E h \in 1 .. i : p[j] = list[h]
      BY <1>6, <1>8, <2>1 DEF Sorted
    <2>6. ASSUME NEW j \in 1 .. i
          PROVE  \/ \E h \in 1 .. Len(p) : p[h] = list[j]
                 \/ \E h \in 1 .. m + 1 : w[h] = BackedOff(list[j])
      <3>1. CASE j \in 1 .. k
        <4>1. \/ \E h \in 1 .. Len(p) : p[h] = list[j]
              \/ \E h \in 1 .. m : q[h] = BackedOff(list[j])
          BY <1>8, <2>1, <2>2, <3>1 DEF Sorted
        <4>2. \A h \in 1 .. m : h \in 1 .. m + 1
          OBVIOUS
        <4> QED
          BY <2>4, <4>1, <4>2
      <3>2. CASE j = i
        <4>1. m + 1 \in 1 .. m + 1
          OBVIOUS
        <4> QED
          BY <1>3, <1>7, <2>4, <3>2, <4>1
      <3> QED
        BY <1>6, <3>1, <3>2
    <2>7. s.sent = p /\ s.resend = w /\ Len(w) = m + 1
      BY <1>18, <2>1, <2>3, <2>4
    <2> QED
      BY <2>5, <2>6, <2>7 DEF Sorted
  <1>21. ASSUME s.giveUp
         PROVE  \E c \in Times : Source(list, i, c) /\ Expired(c, t)
    <2>1. CASE r.giveUp
      BY <1>8, <1>11, <2>1
    <2>2. CASE GivesUp(e, o, t)
      <3>1. Expired(e, t)
        BY <2>2 DEF GivesUp, Expired
      <3> QED
        BY <1>10, <1>12, <3>1
    <2> QED
      BY <1>15, <1>18, <1>21, <2>1, <2>2
  <1>22. ASSUME First(list, k, r)
         PROVE  First(list, i, s)
    <2>1. CASE r.sent = <<>>
      BY <1>13, <1>18, <2>1 DEF First
    <2>2. CASE r.sent # <<>>
      BY <1>13, <1>18, <1>22, <2>2 DEF First
    <2> QED
      BY <2>1, <2>2
  <1>23. Loop(list, t, i, s)
    BY <1>12, <1>18, <1>19, <1>20, <1>21 DEF Loop
  <1> QED
    BY <1>4, <1>5, <1>22, <1>23

LEMMA ExamineInTime ==
  ASSUME NEW list \in Seq(Command), NEW t \in Times, NEW k \in 0 .. Len(list) - 1, NEW r,
         Types, Loop(list, t, k, r), ~Late(list[k + 1], t)
  PROVE  Loop(list, t, k + 1, Examine(list, k + 1, t, r))
         /\ (First(list, k, r) => First(list, k + 1, Examine(list, k + 1, t, r)))
  <1>1. PICK o : o = list[k + 1]
    OBVIOUS
  <1>2. PICK s : s = Examine(list, k + 1, t, r)
    OBVIOUS
  <1>3. PICK i : i = k + 1
    OBVIOUS
  <1>4. /\ k \in Nat /\ i \in 1 .. Len(list) /\ 1 .. k \subseteq 1 .. i /\ i \in 1 .. i
        /\ k < Len(list) /\ \A j \in 1 .. i : j \in 1 .. k \/ j = i
    BY <1>3
  <1>5. o \in Command /\ o = list[i]
    BY <1>1, <1>3, <1>4
  <1>6. /\ r \in Examined /\ Sorted(list, k, r) /\ Source(list, k, r.earliest)
        /\ r.giveUp => \E d \in Times : Source(list, k, d) /\ Expired(d, t)
    BY DEF Loop
  <1>7. s = [r EXCEPT !.sent = Append(r.sent, o)]
    BY <1>1, <1>2, <1>3 DEF Examine
  <1>8. /\ s.giveUp = r.giveUp /\ s.resend = r.resend /\ s.sent = Append(r.sent, o)
        /\ s.earliest = r.earliest /\ s.next = r.next
    BY <1>6, <1>7 DEF Examined
  <1>9. s \in Examined
    <2>1. PICK v : v = Append(r.sent, o)
      OBVIOUS
    <2>2. v \in Seq(Command)
      BY <1>5, <1>6, <2>1 DEF Examined
    <2>3. s = [r EXCEPT !.sent = v]
      BY <1>7, <2>1
    <2> QED
      BY <1>6, <2>2, <2>3 DEF Examined
  <1>10. \A d : Source(list, k, d) => Source(list, i, d)
    BY <1>4 DEF Source
  <1>11. PICK q \in Seq(Command), p \in Seq(Command) : q = r.resend /\ p = r.sent
    BY <1>6 DEF Examined
  <1>12. PICK m \in Nat : m = Len(p)
    OBVIOUS
  <1>13. PICK w : w = Append(p, o)
    OBVIOUS
  <1>14. Len(w) = m + 1 /\ w[m + 1] = o /\ \A j \in 1 .. m : w[j] = p[j]
    BY <1>5, <1>12, <1>13
  <1>15. Sorted(list, i, s)
    <2>1. ASSUME NEW j \in 1 .. m + 1
          PROVE  \E h \in 1 .. i : w[j] = list[h]
      <3>1. CASE j \in 1 .. m
        <4>1. \E h \in 1 .. k : p[j] = list[h]
          BY <1>6, <1>11, <1>12, <3>1 DEF Sorted
        <4> QED
          BY <1>4, <1>14, <3>1, <4>1
      <3>2. CASE j = m + 1
        BY <1>4, <1>5, <1>14, <3>2
      <3> QED
        BY <3>1, <3>2
    <2>2. ASSUME NEW j \in 1 .. i
          PROVE  \/ \E h \in 1 .. m + 1 : w[h] = list[j]
                 \/ \E h \in 1 .. Len(q) : q[h] = BackedOff(list[j])
      <3>1. CASE j \in 1 .. k
        <4>1. \/ \E h \in 1 .. m : p[h] = list[j]
              \/ \E h \in 1 .. Len(q) : q[h] = BackedOff(list[j])
          BY <1>6, <1>11, <1>12, <3>1 DEF Sorted
        <4>2. \A h \in 1 .. m : h \in 1 .. m + 1
          OBVIOUS
        <4> QED
          BY <1>14, <4>1, <4>2
      <3>2. CASE j = i
        <4>1. m + 1 \in 1 .. m + 1
          OBVIOUS
        <4> QED
          BY <1>5, <1>14, <3>2, <4>1
      <3> QED
        BY <1>4, <3>1, <3>2
    <2>3. s.sent = w /\ s.resend = q /\ Len(w) = m + 1
      BY <1>8, <1>11, <1>13, <1>14
    <2> QED
      BY <2>1, <2>2, <2>3 DEF Sorted
  <1>16. ASSUME First(list, k, r)
         PROVE  First(list, i, s)
    <2>1. w # <<>> /\ Len(p) = m
      BY <1>12, <1>14
    <2>2. s.next = Deadline(w[1])
      <3>1. CASE p = <<>>
        <4>1. m = 0 /\ w[1] = o
          BY <1>12, <1>14, <3>1
        <4>2. r.next = Deadline(list[k + 1])
          BY <1>4, <1>11, <1>16, <3>1 DEF First
        <4> QED
          BY <1>1, <1>8, <4>1, <4>2
      <3>2. CASE p # <<>>
        <4>1. 1 \in 1 .. m
          BY <1>12, <3>2
        <4>2. r.next = Deadline(p[1])
          BY <1>11, <1>16, <3>2 DEF First
        <4> QED
          BY <1>8, <1>14, <4>1, <4>2
      <3> QED
        BY <3>1, <3>2
    <2> QED
      BY <1>8, <1>11, <1>13, <2>1, <2>2 DEF First
  <1>17. Loop(list, t, i, s)
    BY <1>6, <1>8, <1>9, <1>10, <1>15 DEF Loop
  <1> QED
    BY <1>2, <1>3, <1>16, <1>17

\* What the loop makes of the list.
LEMMA LoopEnds ==
  ASSUME NEW list \in Seq(Command), NEW t \in Times, NEW n \in Nat, n = Len(list), Types
  PROVE  /\ Loop(list, t, n, CheckTimeouts(t, list))
         /\ First(list, 0, Unchecked(<<>>)) => First(list, n, CheckTimeouts(t, list))
  <1>1. PICK u : Passes(list, t, n, u)
    BY LoopRuns
  <1>2. /\ u[0] = Unchecked(<<>>) /\ CheckTimeouts(t, list) = u[n]
        /\ \A k \in 0 .. n - 1 : u[k + 1] = Examine(list, k + 1, t, u[k])
    BY <1>1 DEF Passes
  <1>3. PICK T : T = {k \in 0 .. n : /\ Loop(list, t, k, u[k])
                                     /\ First(list, 0, u[0]) => First(list, k, u[k])}
    OBVIOUS
  <1>4. 0 \in T
    <2>1. PICK r : r = Unchecked(<<>>)
      OBVIOUS
    <2>2. r = [giveUp |-> FALSE, resend |-> <<>>, sent |-> <<>>, earliest |-> earliest, next |-> next]
      BY <2>1 DEF Unchecked
    <2>3. <<>> \in Seq(Command)
      OBVIOUS
    <2>4. r \in Examined
      BY <2>2, <2>3 DEF Examined, Types
    <2>5. Sorted(list, 0, r)
      BY <2>2 DEF Sorted
    <2>6. Source(list, 0, r.earliest)
      BY <2>2 DEF Source
    <2>7. ~r.giveUp
      BY <2>2
    <2>8. Loop(list, t, 0, r)
      BY <2>4, <2>5, <2>6, <2>7 DEF Loop
    <2>9. 0 \in 0 .. n
      OBVIOUS
    <2> QED
      BY <1>2, <1>3, <2>1, <2>8, <2>9
  <1>5. ASSUME NEW k \in 0 .. n - 1, k \in T
        PROVE  k + 1 \in T
    <2>1. PICK r : r = u[k]
      OBVIOUS
    <2>2. Loop(list, t, k, r) /\ (First(list, 0, u[0]) => First(list, k, r))
      BY <1>3, <1>5, <2>1
    <2>3. /\ Loop(list, t, k + 1, Examine(list, k + 1, t, r))
          /\ (First(list, k, r) => First(list, k + 1, Examine(list, k + 1, t, r)))
      BY <2>2, ExamineLate, ExamineInTime
    <2>4. k + 1 \in 0 .. n
      OBVIOUS
    <2>5. u[k + 1] = Examine(list, k + 1, t, r)
      BY <1>2, <2>1
    <2> QED
      BY <1>3, <2>2, <2>3, <2>4, <2>5
  <1>6. n \in T
    BY <1>4, <1>5, UpToInduction
  <1> QED
    BY <1>2, <1>3, <1>6

--------------------------------------------------------------------------------
(* Times that are not long ago. *)

\* The clock showed e no longer than a before it shows t, however often it wrapped around.
Since(e, a, t) == \E d, q \in Nat : d <= a /\ e + d = t + q * Clock

LEMMA Wrapped ==
  ASSUME NEW a \in Times, NEW d \in Nat, d < Overflow
  PROVE  /\ a + d < Clock => Later(a, d) = a + d
         /\ a + d >= Clock => Later(a, d) = a + d - Clock
         /\ Later(a, d) \in Times
  <1>1. Clock \in Nat /\ Clock > 0 /\ a \in 0 .. Clock - 1 /\ d < Clock
    BY Clocks DEF Times
  <1>2. PICK b \in Nat : b = a + d
    BY <1>1
  <1>3. b < Clock => b % Clock = b
    BY <1>1
  <1>4. b >= Clock => b % Clock = b - Clock
    <2>1. SUFFICES ASSUME b >= Clock
                   PROVE  b % Clock = b - Clock
      OBVIOUS
    <2>2. b - Clock \in 0 .. Clock - 1 /\ b = 1 * Clock + (b - Clock)
      BY <1>1, <1>2, <2>1
    <2> QED
      BY <1>1, <2>2
  <1> QED
    BY <1>1, <1>2, <1>3, <1>4 DEF Later, Times

LEMMA SinceNow ==
  ASSUME NEW t \in Times, NEW a \in Nat
  PROVE  Since(t, a, t)
  <1>1. t \in Int /\ Clock \in Nat
    BY Clocks DEF Times
  <1>2. t + 0 = t + 0 * Clock /\ 0 <= a
    BY <1>1
  <1> QED
    BY <1>2 DEF Since

LEMMA SinceLater ==
  ASSUME NEW e \in Times, NEW a \in Nat, NEW t \in Times, NEW d \in Nat, d < Overflow,
         Since(e, a, t)
  PROVE  Since(e, a + d, Later(t, d))
  <1>1. e \in Int /\ t \in Int /\ Clock \in Nat
    BY Clocks DEF Times
  <1>2. PICK b \in Nat, q \in Nat : b <= a /\ e + b = t + q * Clock
    BY DEF Since
  <1>3. PICK w \in Nat : w = q * Clock
    BY <1>1
  <1>4. b + d \in Nat /\ b + d <= a + d
    BY <1>2
  <1>5. CASE t + d < Clock
    <2>1. Later(t, d) = t + d
      BY <1>5, Wrapped
    <2>2. e + (b + d) = Later(t, d) + q * Clock
      BY <1>1, <1>2, <1>3, <2>1
    <2> QED
      BY <1>4, <2>2 DEF Since
  <1>6. CASE t + d >= Clock
    <2>1. Later(t, d) = t + d - Clock
      BY <1>6, Wrapped
    <2>2. (q + 1) * Clock = w + Clock
      BY <1>1, <1>3
    <2>3. e + (b + d) = Later(t, d) + (q + 1) * Clock
      BY <1>1, <1>2, <1>3, <2>1, <2>2
    <2> QED
      BY <1>4, <2>3 DEF Since
  <1> QED
    BY <1>1, <1>5, <1>6

\* Since compares like ENET_TIME_DIFFERENCE as long as the time is shorter than a day.
LEMMA SinceLong ==
  ASSUME NEW e \in Times, NEW a \in Nat, NEW t \in Times, Since(e, a, t), Expired(e, t)
  PROVE  a >= Minimum \/ a >= Maximum
  <1>1. e \in Int /\ t \in Int /\ Clock \in Nat /\ e >= 0 /\ e < Clock /\ t >= 0 /\ t < Clock
    BY Clocks DEF Times
  <1>2. PICK b \in Nat, q \in Nat : b <= a /\ e + b = t + q * Clock
    BY DEF Since
  <1>3. PICK m : m = (t - e) % Clock
    OBVIOUS
  <1>4. m \in Nat /\ m <= b
    <2>1. CASE t >= e
      <3>1. m = t - e
        <4>1. t - e \in 0 .. Clock - 1
          BY <1>1, <2>1
        <4> QED
          BY <1>1, <1>3, <4>1
      <3>2. q * Clock \in Nat /\ q * Clock >= 0
        BY <1>1
      <3> QED
        BY <1>1, <1>2, <2>1, <3>1, <3>2
    <2>2. CASE t < e
      <3>1. m = t - e + Clock
        <4>1. t - e + Clock \in 0 .. Clock - 1 /\ t - e = (0 - 1) * Clock + (t - e + Clock)
          BY <1>1, <2>2
        <4> QED
          BY <1>1, <1>3, <4>1
      <3>2. q # 0
        BY <1>1, <1>2, <2>2
      <3>3. PICK p \in Nat : q = p + 1
        <4>1. q - 1 \in Nat /\ q = (q - 1) + 1
          BY <3>2
        <4> QED
          BY <4>1
      <3>4. PICK w \in Nat : w = p * Clock
        BY <1>1
      <3>5. q * Clock = w + Clock
        BY <1>1, <3>3, <3>4
      <3> QED
        BY <1>1, <1>2, <2>2, <3>1, <3>5
    <2> QED
      BY <1>1, <2>1, <2>2
  <1>5. CASE m >= Overflow
    BY <1>2, <1>4, <1>5, Clocks
  <1>6. CASE m < Overflow
    <2>1. Difference(t, e) = m
      BY <1>3, <1>4, <1>6, Clocks DEF Difference
    <2> QED
      BY <1>2, <1>4, <2>1, Clocks DEF Expired
  <1> QED
    BY <1>4, <1>5, <1>6, Clocks

LEMMA LeastOfTwo ==
  ASSUME NEW a \in Nat, a >= Minimum \/ a >= Maximum
  PROVE  a >= Min({Minimum, Maximum})
  <1>1. Minimum \in Nat /\ Maximum \in Nat
    BY Clocks
  <1>2. \E x \in {Minimum, Maximum} : \A y \in {Minimum, Maximum} : x <= y
    BY <1>1
  <1>3. PICK x : x = Min({Minimum, Maximum})
    OBVIOUS
  <1>4. x \in {Minimum, Maximum} /\ \A y \in {Minimum, Maximum} : x <= y
    BY <1>2, <1>3 DEF Min
  <1> QED
    BY <1>1, <1>3, <1>4

LEMMA DifferenceOfStep ==
  ASSUME NEW t \in Times, NEW d \in 1 .. MaxStep
  PROVE  d \in Nat /\ d < Overflow /\ Difference(Later(t, d), t) = d
  <1>1. d \in Nat /\ d < Overflow /\ d < Clock /\ t \in Int /\ t >= 0 /\ t < Clock /\ Clock \in Nat
    BY Clocks DEF Times
  <1>2. PICK u \in Times : u = Later(t, d)
    BY <1>1, Wrapped
  <1>3. (u - t) % Clock = d
    <2>1. CASE t + d < Clock
      <3>1. u - t = d
        BY <1>1, <1>2, <2>1, Wrapped
      <3>2. d \in 0 .. Clock - 1
        BY <1>1
      <3> QED
        BY <1>1, <3>1, <3>2
    <2>2. CASE t + d >= Clock
      <3>1. u - t = (0 - 1) * Clock + d
        BY <1>1, <1>2, <2>2, Wrapped
      <3>2. d \in 0 .. Clock - 1
        BY <1>1
      <3> QED
        BY <1>1, <3>1, <3>2
    <2> QED
      BY <1>1, <2>1, <2>2
  <1> QED
    BY <1>1, <1>2, <1>3, Clocks DEF Difference

--------------------------------------------------------------------------------
(* The inductive invariant. *)

\* A command that was sent and is not acknowledged: one of s or of q.
Open(s, q, o) ==
  /\ o.timeout > 0
  /\ \/ \E i \in 1 .. Len(s) : s[i] = o
     \/ \E i \in 1 .. Len(q) : q[i] = o

\* The commands in transit were sent no longer ago than their age.
Ages ==
  \A i \in 1 .. Len(sent) : sent[i].timeout > 0 /\ Since(sent[i].time, sent[i].age, now)

\* earliestTimeout is the time of some retransmission of a command that is still open.
EarliestOpen ==
  up /\ earliest # 0 =>
    \E o \in Command : Open(sent, outgoing, o) /\ Since(earliest, o.age, now)

IInv == Types /\ NextIsFirst /\ Ages /\ EarliestOpen

LEMMA OpenIsUnacknowledged ==
  ASSUME Types, NEW o, Open(sent, outgoing, o)
  PROVE  o \in Unacknowledged
  <1>1. PICK s \in Seq(Command), q \in Seq(Command) : s = sent /\ q = outgoing
    BY DEF Types
  <1>2. PICK m \in Nat, n \in Nat : m = Len(s) /\ n = Len(q)
    OBVIOUS
  <1>3. PICK w : w = s \o q
    OBVIOUS
  <1>4. /\ w \in Seq(Command) /\ Len(w) = m + n
        /\ \A i \in 1 .. m : w[i] = s[i]
        /\ \A i \in 1 .. n : w[m + i] = q[i]
    BY <1>2, <1>3
  <1>5. \E i \in 1 .. Len(w) : w[i] = o
    <2>1. CASE \E i \in 1 .. m : s[i] = o
      <3>1. \A i \in 1 .. m : i \in 1 .. Len(w)
        BY <1>4
      <3> QED
        BY <1>4, <2>1, <3>1
    <2>2. CASE \E i \in 1 .. n : q[i] = o
      <3>1. \A i \in 1 .. n : m + i \in 1 .. Len(w)
        BY <1>4
      <3> QED
        BY <1>4, <2>2, <3>1
    <2> QED
      BY <1>1, <1>2, <2>1, <2>2 DEF Open
  <1>6. o \in Range(w)
    BY <1>4, <1>5 DEF Range
  <1> QED
    BY <1>1, <1>3, <1>6 DEF Unacknowledged, Open

LEMMA AgedType ==
  ASSUME NEW s \in Seq(Command), NEW d \in Nat
  PROVE  /\ Aged(s, d) \in Seq(Command) /\ Len(Aged(s, d)) = Len(s)
         /\ \A i \in 1 .. Len(s) : /\ Aged(s, d)[i].time = s[i].time
                                   /\ Aged(s, d)[i].timeout = s[i].timeout
                                   /\ Aged(s, d)[i] \in Command
                                   /\ s[i].timeout > 0 => Aged(s, d)[i].age = s[i].age + d
  <1>1. PICK n \in Nat : n = Len(s)
    OBVIOUS
  <1>2. PICK a : a = Aged(s, d)
    OBVIOUS
  <1>3. a = [i \in 1 .. n |-> IF s[i].timeout = 0 THEN s[i] ELSE [s[i] EXCEPT !.age = @ + d]]
    BY <1>1, <1>2 DEF Aged
  <1>4. ASSUME NEW i \in 1 .. n
        PROVE  /\ a[i].time = s[i].time /\ a[i].timeout = s[i].timeout /\ a[i] \in Command
               /\ s[i].timeout > 0 => a[i].age = s[i].age + d
    <2>1. PICK o \in Command : o = s[i]
      BY <1>1
    <2>2. a[i] = IF o.timeout = 0 THEN o ELSE [o EXCEPT !.age = o.age + d]
      BY <1>3, <2>1
    <2>3. o.age + d \in Nat
      BY DEF Command
    <2>4. CASE o.timeout = 0
      BY <2>1, <2>2, <2>4 DEF Command
    <2>5. CASE o.timeout # 0
      <3>1. a[i] = [o EXCEPT !.age = o.age + d]
        BY <2>2, <2>5
      <3>2. a[i] \in Command /\ a[i].time = o.time /\ a[i].timeout = o.timeout /\ a[i].age = o.age + d
        BY <2>3, <3>1 DEF Command
      <3> QED
        BY <2>1, <3>2
    <2> QED
      BY <2>4, <2>5
  <1>5. a \in Seq(Command) /\ Len(a) = n
    <2>1. a \in [1 .. n -> Command]
      BY <1>3, <1>4
    <2> QED
      BY <2>1
  <1> QED
    BY <1>1, <1>2, <1>4, <1>5

LEMMA PutType ==
  ASSUME NEW o \in Command, NEW t \in Times, NEW first \in FirstTimeouts
  PROVE  /\ Put(o, t, first) \in Command /\ Put(o, t, first).time = t
         /\ Put(o, t, first).timeout > 0 /\ Put(o, t, first).age = o.age
  <1>1. first \in Nat /\ first > 0
    BY Clocks
  <1>2. Limit * first \in Nat
    BY <1>1, TimeAssumption
  <1>3. PICK l \in Nat, f \in Nat : /\ l = IF o.timeout = 0 THEN Limit * first ELSE o.limit
                                    /\ f = IF o.timeout = 0 THEN first ELSE o.timeout
    <2>1. o.limit \in Nat /\ o.timeout \in Nat
      BY DEF Command
    <2> QED
      BY <1>1, <1>2, <2>1
  <1>4. f > 0
    BY <1>1, <1>3
  <1>5. Put(o, t, first) = [o EXCEPT !.time = t, !.timeout = f, !.limit = l]
    BY <1>3 DEF Put, Command
  <1> QED
    BY <1>4, <1>5 DEF Command

LEMMA UncheckedType ==
  ASSUME Types, NEW s \in Seq(Command)
  PROVE  Unchecked(s) \in Examined
  <1>1. PICK q \in Seq(Command) : q = <<>>
    <2>1. <<>> \in Seq(Command)
      OBVIOUS
    <2> QED
      BY <2>1
  <1>2. PICK e \in Times, n \in Times : e = earliest /\ n = next
    BY DEF Types
  <1>3. Unchecked(s) = [giveUp |-> FALSE, resend |-> q, sent |-> s, earliest |-> e, next |-> n]
    BY <1>1, <1>2 DEF Unchecked
  <1> QED
    BY <1>3 DEF Examined

\* What is known after the timeouts were looked at, or were not due.
LEMMA Checked ==
  ASSUME IInv, NEW t \in Times, NEW d \in Nat, NEW s, s = Aged(sent, d),
         NEW r, r = IF Due(t, s) THEN CheckTimeouts(t, s) ELSE Unchecked(s)
  PROVE  Loop(s, t, Len(s), r) /\ First(s, Len(s), r)
  <1>1. /\ s \in Seq(Command) /\ Len(s) = Len(sent) /\ Len(s) \in Nat
        /\ \A i \in 1 .. Len(s) : s[i].time = sent[i].time /\ s[i].timeout = sent[i].timeout
    <2>1. sent \in Seq(Command) /\ Len(sent) \in Nat
      BY DEF IInv, Types
    <2> QED
      BY <2>1, AgedType
  <1>2. Len(s) > 0 => next = Deadline(s[1])
    <2>1. SUFFICES ASSUME Len(s) > 0
                   PROVE  next = Deadline(s[1])
      OBVIOUS
    <2>2. 1 \in 1 .. Len(s) /\ sent # <<>>
      BY <1>1, <2>1
    <2>3. next = Deadline(sent[1])
      BY <2>2 DEF IInv, NextIsFirst
    <2> QED
      BY <1>1, <2>2, <2>3 DEF Deadline
  <1>3. CASE Due(t, s)
    <2>1. First(s, 0, Unchecked(<<>>))
      <3>1. Unchecked(<<>>).sent = <<>> /\ Unchecked(<<>>).next = next
        BY DEF Unchecked
      <3> QED
        BY <1>2, <3>1 DEF First
    <2>2. PICK n \in Nat : n = Len(s)
      BY <1>1
    <2> QED
      BY <1>1, <1>3, <2>1, <2>2, LoopEnds DEF IInv
  <1>4. CASE ~Due(t, s)
    <2>1. r = [giveUp |-> FALSE, resend |-> <<>>, sent |-> s, earliest |-> earliest, next |-> next]
      BY <1>4 DEF Unchecked
    <2>2. r \in Examined
      <3>1. r = Unchecked(s)
        BY <1>4
      <3> QED
        BY <1>1, <3>1, UncheckedType DEF IInv
    <2>3. Sorted(s, Len(s), r)
      BY <1>1, <2>1 DEF Sorted
    <2>4. Source(s, Len(s), r.earliest) /\ ~r.giveUp
      BY <2>1 DEF Source
    <2>5. First(s, Len(s), r)
      <3>1. s # <<>> => Len(s) > 0
        BY <1>1
      <3> QED
        BY <1>1, <1>2, <2>1, <3>1 DEF First
    <2> QED
      BY <2>2, <2>3, <2>4, <2>5 DEF Loop
  <1> QED
    BY <1>3, <1>4

\* A time from which earliestTimeout may be set is that of an open command.
LEMMA SourceOpen ==
  ASSUME IInv, up, NEW d \in 1 .. MaxStep, NEW t, t = Later(now, d), NEW s, s = Aged(sent, d),
         NEW e \in Times, e # 0, Source(s, Len(s), e)
  PROVE  \E o \in Command : Open(sent, outgoing, o) /\ Since(e, o.age + d, t)
  <1>1. d \in Nat /\ d < Overflow /\ now \in Times /\ sent \in Seq(Command)
    BY DifferenceOfStep DEF IInv, Types
  <1>2. CASE e = earliest
    <2>1. PICK o \in Command : Open(sent, outgoing, o) /\ Since(e, o.age, now)
      BY <1>2 DEF IInv, EarliestOpen
    <2>2. o.age \in Nat
      BY DEF Command
    <2>3. Since(e, o.age + d, t)
      BY <1>1, <2>1, <2>2, SinceLater
    <2> QED
      BY <2>1, <2>3
  <1>3. CASE \E j \in 1 .. Len(s) : e = s[j].time
    <2>1. PICK j \in 1 .. Len(s) : e = s[j].time
      BY <1>3
    <2>2. j \in 1 .. Len(sent) /\ s[j].time = sent[j].time
      BY <1>1, <2>1, AgedType
    <2>3. PICK o \in Command : o = sent[j]
      BY <1>1, <2>2
    <2>4. o.timeout > 0 /\ Since(e, o.age, now)
      BY <2>1, <2>2, <2>3 DEF IInv, Ages
    <2>5. o.age \in Nat
      BY DEF Command
    <2>6. Since(e, o.age + d, t)
      BY <1>1, <2>4, <2>5, SinceLater
    <2> QED
      BY <2>2, <2>3, <2>4, <2>6 DEF Open
  <1> QED
    BY <1>2, <1>3 DEF Source

--------------------------------------------------------------------------------
(* A call of enet_host_service(). *)

\* The first k commands of q are sent at time t, as new; rest are the others.
Split(q, k, t, new, rest) ==
  /\ new \in Seq(Command) /\ Len(new) = k /\ rest \in Seq(Command)
  /\ \A i \in 1 .. k : new[i].time = t /\ new[i].timeout > 0 /\ new[i].age \in Nat
  /\ \A i \in 1 .. Len(q) : q[i].timeout > 0 =>
       \/ \E j \in 1 .. Len(rest) : rest[j] = q[i]
       \/ \E j \in 1 .. k : new[j].age = q[i].age

\* The sequence v is p, then w.
Join(p, w, v) ==
  /\ v \in Seq(Command) /\ Len(v) = Len(p) + Len(w)
  /\ \A i \in 1 .. Len(p) : i \in 1 .. Len(v) /\ v[i] = p[i]
  /\ \A i \in 1 .. Len(w) : Len(p) + i \in 1 .. Len(v) /\ v[Len(p) + i] = w[i]
  /\ \A i \in 1 .. Len(v) : \/ \E j \in 1 .. Len(p) : v[i] = p[j]
                            \/ \E j \in 1 .. Len(w) : v[i] = w[j]

LEMMA Splits ==
  ASSUME NEW q \in Seq(Command), NEW k \in 0 .. Len(q), NEW t \in Times, NEW first \in FirstTimeouts,
         NEW new, new = [i \in 1 .. k |-> Put(q[i], t, first)],
         NEW rest, rest = SubSeq(q, k + 1, Len(q))
  PROVE  Split(q, k, t, new, rest)
  <1>1. PICK n \in Nat : n = Len(q) /\ k \in Nat /\ k <= n
    OBVIOUS
  <1>2. ASSUME NEW i \in 1 .. k
        PROVE  /\ new[i] = Put(q[i], t, first) /\ new[i] \in Command
               /\ new[i].time = t /\ new[i].timeout > 0 /\ new[i].age = q[i].age
               /\ q[i].age \in Nat
    <2>1. q[i] \in Command
      BY <1>1
    <2>2. new[i] = Put(q[i], t, first)
      OBVIOUS
    <2>3. q[i].age \in Nat
      BY <2>1 DEF Command
    <2> QED
      BY <2>1, <2>2, <2>3, PutType
  <1>3. new \in Seq(Command) /\ Len(new) = k
    <2>1. new \in [1 .. k -> Command]
      BY <1>2
    <2> QED
      BY <1>1, <2>1
  <1>4. /\ rest \in Seq(Command) /\ Len(rest) = n - k
        /\ \A j \in 1 .. n - k : rest[j] = q[k + j]
    BY <1>1
  <1>5. ASSUME NEW i \in 1 .. n
        PROVE  \/ \E j \in 1 .. Len(rest) : rest[j] = q[i]
               \/ \E j \in 1 .. k : new[j].age = q[i].age
    <2>1. CASE i \in 1 .. k
      BY <1>1, <1>2, <2>1
    <2>2. CASE i \notin 1 .. k
      <3>1. i - k \in 1 .. n - k /\ k + (i - k) = i
        BY <1>1, <2>2
      <3>2. i - k \in 1 .. Len(rest) /\ rest[i - k] = q[i]
        BY <1>4, <3>1
      <3> QED
        BY <3>2
    <2> QED
      BY <2>1, <2>2
  <1> QED
    BY <1>1, <1>2, <1>3, <1>4, <1>5 DEF Split

LEMMA Joined ==
  ASSUME NEW p \in Seq(Command), NEW w \in Seq(Command), NEW v, v = p \o w
  PROVE  Join(p, w, v)
  <1>1. PICK m \in Nat, n \in Nat : m = Len(p) /\ n = Len(w)
    OBVIOUS
  <1>2. /\ v \in Seq(Command) /\ Len(v) = m + n
        /\ \A i \in 1 .. m : v[i] = p[i]
        /\ \A i \in 1 .. n : v[m + i] = w[i]
    BY <1>1
  <1>3. ASSUME NEW i \in 1 .. m + n
        PROVE  \/ \E j \in 1 .. m : v[i] = p[j]
               \/ \E j \in 1 .. n : v[i] = w[j]
    <2>1. CASE i \in 1 .. m
      <3>1. v[i] = p[i]
        BY <1>2, <2>1
      <3> QED
        BY <2>1, <3>1
    <2>2. CASE i \notin 1 .. m
      <3>1. i - m \in 1 .. n /\ m + (i - m) = i
        BY <2>2
      <3>2. v[i] = w[i - m]
        BY <1>2, <3>1
      <3> QED
        BY <3>1, <3>2
    <2> QED
      BY <2>1, <2>2
  <1>4. /\ \A i \in 1 .. m : i \in 1 .. m + n
        /\ \A i \in 1 .. n : m + i \in 1 .. m + n
    OBVIOUS
  <1> QED
    BY <1>1, <1>2, <1>3, <1>4 DEF Join

\* When nobody is given up: the lists after the call.
LEMMA ServiceKeeps ==
  ASSUME IInv, NEW d \in 1 .. MaxStep, NEW k \in 0 .. MaxCommands, NEW first \in FirstTimeouts,
         Service(d, k, first), up'
  PROVE  IInv'
  <1>1. PICK t : t = Later(now, d)
    OBVIOUS
  <1>2. PICK s : s = Aged(sent, d)
    OBVIOUS
  <1>3. PICK r : r = IF Due(t, s) THEN CheckTimeouts(t, s) ELSE Unchecked(s)
    OBVIOUS
  <1>4. PICK a : a = Aged(outgoing, d)
    OBVIOUS
  <1>5. PICK q : q = r.resend \o a
    OBVIOUS
  <1>6. PICK new : new = [i \in 1 .. k |-> Put(q[i], t, first)]
    OBVIOUS
  <1>7. PICK rest : rest = SubSeq(q, k + 1, Len(q))
    OBVIOUS
  <1>8. /\ up /\ k <= Len(q) /\ now' = t /\ up' = ~r.giveUp
        /\ IF r.giveUp
           THEN outgoing' = <<>> /\ sent' = <<>> /\ UNCHANGED <<next, earliest>>
           ELSE /\ outgoing' = rest /\ sent' = r.sent \o new
                /\ next' = IF r.sent = <<>> /\ k > 0 THEN Deadline(new[1]) ELSE r.next
                /\ earliest' = r.earliest
    BY <1>1, <1>2, <1>3, <1>4, <1>5, <1>6, <1>7 DEF Service
  <1>9. /\ outgoing' = rest /\ sent' = r.sent \o new /\ earliest' = r.earliest
        /\ next' = IF r.sent = <<>> /\ k > 0 THEN Deadline(new[1]) ELSE r.next
    BY <1>8
  <1>10. /\ d \in Nat /\ d < Overflow /\ now \in Times /\ t \in Times
         /\ sent \in Seq(Command) /\ outgoing \in Seq(Command) /\ k \in Nat
    <2>1. now \in Times /\ sent \in Seq(Command) /\ outgoing \in Seq(Command)
      BY DEF IInv, Types
    <2> QED
      BY <1>1, <2>1, DifferenceOfStep, Wrapped
  <1>11. Loop(s, t, Len(s), r) /\ First(s, Len(s), r)
    BY <1>2, <1>3, <1>10, Checked
  <1>12. PICK p \in Seq(Command), e \in Seq(Command) : p = r.sent /\ e = r.resend
    BY <1>11 DEF Loop, Examined
  <1>13. s \in Seq(Command) /\ a \in Seq(Command) /\ Len(s) = Len(sent) /\ Len(a) = Len(outgoing)
    BY <1>2, <1>4, <1>10, AgedType
  <1>14. q \in Seq(Command) /\ k \in 0 .. Len(q) /\ Join(e, a, q)
    <2>1. q \in Seq(Command) /\ Join(e, a, q)
      <3>1. q = e \o a
        BY <1>5, <1>12
      <3>2. Join(e, a, q)
        BY <1>12, <1>13, <3>1, Joined
      <3> QED
        BY <3>2 DEF Join
    <2>2. Len(q) \in Nat
      BY <2>1
    <2> QED
      BY <1>8, <1>10, <2>1, <2>2 DEF Join
  <1>15. /\ new \in Seq(Command) /\ Len(new) = k /\ rest \in Seq(Command)
         /\ \A i \in 1 .. k : new[i].time = t /\ new[i].timeout > 0 /\ new[i].age \in Nat
         /\ \A i \in 1 .. Len(q) : q[i].timeout > 0 =>
              \/ \E j \in 1 .. Len(rest) : rest[j] = q[i]
              \/ \E j \in 1 .. k : new[j].age = q[i].age
    <2>1. Split(q, k, t, new, rest)
      BY <1>6, <1>7, <1>10, <1>14, Splits
    <2> QED
      BY <2>1 DEF Split
  <1>16. PICK v : v = p \o new
    OBVIOUS
  <1>17. /\ v \in Seq(Command) /\ Len(v) = Len(p) + k
         /\ \A i \in 1 .. Len(p) : i \in 1 .. Len(v) /\ v[i] = p[i]
         /\ \A i \in 1 .. k : Len(p) + i \in 1 .. Len(v) /\ v[Len(p) + i] = new[i]
         /\ \A i \in 1 .. Len(v) : \/ \E j \in 1 .. Len(p) : v[i] = p[j]
                                   \/ \E j \in 1 .. k : v[i] = new[j]
    <2>1. Join(p, new, v)
      BY <1>12, <1>15, <1>16, Joined
    <2> QED
      BY <1>15, <2>1 DEF Join
  <1>18. sent' = v /\ outgoing' = rest /\ now' = t
    BY <1>8, <1>9, <1>12, <1>16
  \* What became of each command that was open.
  <1>19. ASSUME NEW o \in Command, Open(sent, outgoing, o)
         PROVE  \E c \in Command : Open(v, rest, c) /\ c.age = o.age + d
    <2>1. CASE \E i \in 1 .. Len(sent) : sent[i] = o
      <3>1. PICK i \in 1 .. Len(sent) : sent[i] = o
        BY <2>1
      <3>2. PICK g : g = s[i]
        OBVIOUS
      <3>3. o.timeout > 0
        BY <1>19 DEF Open
      <3>4. g \in Command /\ g.timeout > 0 /\ g.age = o.age + d
        BY <1>2, <1>10, <3>1, <3>2, <3>3, AgedType
      <3>5. i \in 1 .. Len(s)
        BY <1>13
      <3>6. CASE \E j \in 1 .. Len(p) : p[j] = g
        BY <1>17, <3>4, <3>6 DEF Open
      <3>7. CASE \E j \in 1 .. Len(e) : e[j] = BackedOff(g)
        <4>1. PICK j \in 1 .. Len(e) : e[j] = BackedOff(g)
          BY <3>7
        <4>2. PICK c : c = BackedOff(g)
          OBVIOUS
        <4>3. c \in Command /\ c.timeout > 0 /\ c.age = g.age
          BY <3>4, <4>2, BackedOffType
        <4>4. j \in 1 .. Len(q) /\ q[j] = c
          BY <1>14, <4>1, <4>2 DEF Join
        <4>5. \/ \E h \in 1 .. Len(rest) : rest[h] = c
              \/ \E h \in 1 .. k : new[h].age = c.age
          BY <1>15, <4>3, <4>4
        <4>6. CASE \E h \in 1 .. Len(rest) : rest[h] = c
          BY <3>4, <4>3, <4>6 DEF Open
        <4>7. CASE \E h \in 1 .. k : new[h].age = c.age
          <5>1. PICK h \in 1 .. k : new[h].age = c.age
            BY <4>7
          <5>2. PICK b : b = new[h]
            OBVIOUS
          <5>3. b \in Command /\ b.timeout > 0 /\ b.age = o.age + d
            BY <1>15, <3>4, <4>3, <5>1, <5>2
          <5>4. \E l \in 1 .. Len(v) : v[l] = b
            BY <1>17, <5>2
          <5> QED
            BY <5>3, <5>4 DEF Open
        <4> QED
          BY <4>5, <4>6, <4>7
      <3> QED
        BY <1>11, <1>12, <3>2, <3>5, <3>6, <3>7 DEF Loop, Sorted
    <2>2. CASE \E i \in 1 .. Len(outgoing) : outgoing[i] = o
      <3>1. PICK i \in 1 .. Len(outgoing) : outgoing[i] = o
        BY <2>2
      <3>2. PICK c : c = a[i]
        OBVIOUS
      <3>3. o.timeout > 0
        BY <1>19 DEF Open
      <3>4. c \in Command /\ c.timeout > 0 /\ c.age = o.age + d
        BY <1>4, <1>10, <3>1, <3>2, <3>3, AgedType
      <3>5. PICK j \in 1 .. Len(q) : q[j] = c
        <4>1. i \in 1 .. Len(a)
          BY <1>13
        <4> QED
          BY <1>14, <3>2, <4>1 DEF Join
      <3>6. \/ \E h \in 1 .. Len(rest) : rest[h] = c
            \/ \E h \in 1 .. k : new[h].age = c.age
        BY <1>15, <3>4, <3>5
      <3>7. CASE \E h \in 1 .. Len(rest) : rest[h] = c
        BY <3>4, <3>7 DEF Open
      <3>8. CASE \E h \in 1 .. k : new[h].age = c.age
        <4>1. PICK h \in 1 .. k : new[h].age = c.age
          BY <3>8
        <4>2. PICK b : b = new[h]
          OBVIOUS
        <4>3. b \in Command /\ b.timeout > 0 /\ b.age = o.age + d
          BY <1>15, <3>4, <4>1, <4>2
        <4>4. \E l \in 1 .. Len(v) : v[l] = b
          BY <1>17, <4>2
        <4> QED
          BY <4>3, <4>4 DEF Open
      <3> QED
        BY <3>6, <3>7, <3>8
    <2> QED
      BY <1>19, <2>1, <2>2 DEF Open
  <1>20. Types'
    <2>1. earliest' \in Times /\ r.next \in Times
      BY <1>9, <1>11 DEF Loop, Examined
    <2>2. next' \in Times
      <3>1. CASE r.sent = <<>> /\ k > 0
        <4>1. 1 \in 1 .. k
          BY <1>10, <3>1
        <4>2. new[1] \in Command
          BY <1>15, <4>1
        <4> QED
          BY <1>9, <3>1, <4>2, DeadlineType
      <3>2. CASE ~(r.sent = <<>> /\ k > 0)
        BY <1>9, <2>1, <3>2
      <3> QED
        BY <3>1, <3>2
    <2> QED
      BY <1>10, <1>15, <1>17, <1>18, <2>1, <2>2 DEF Types
  <1>21. NextIsFirst'
    <2>1. SUFFICES ASSUME v # <<>>
                   PROVE  next' = Deadline(v[1])
      BY <1>18 DEF NextIsFirst, Deadline
    <2>2. CASE p = <<>>
      <3>1. Len(p) = 0 /\ k > 0
        BY <1>10, <1>17, <2>1, <2>2
      <3>2. v[1] = new[1]
        <4>1. 1 \in 1 .. k /\ 0 + 1 = 1
          BY <1>10, <3>1
        <4> QED
          BY <1>17, <3>1, <4>1
      <3> QED
        BY <1>9, <1>12, <2>2, <3>1, <3>2
    <2>3. CASE p # <<>>
      <3>1. 1 \in 1 .. Len(p)
        BY <1>12, <2>3
      <3>2. r.next = Deadline(p[1])
        BY <1>11, <1>12, <2>3 DEF First
      <3> QED
        BY <1>9, <1>12, <1>17, <2>3, <3>1, <3>2
    <2> QED
      BY <2>2, <2>3
  <1>22. Ages'
    <2>1. ASSUME NEW i \in 1 .. Len(v)
          PROVE  v[i].timeout > 0 /\ Since(v[i].time, v[i].age, t)
      <3>1. CASE \E j \in 1 .. Len(p) : v[i] = p[j]
        <4>1. PICK h \in 1 .. Len(s) : v[i] = s[h]
          BY <1>11, <1>12, <3>1 DEF Loop, Sorted
        <4>2. h \in 1 .. Len(sent)
          BY <1>13
        <4>3. PICK o \in Command : o = sent[h]
          BY <1>10, <4>2
        <4>4. o.timeout > 0 /\ Since(o.time, o.age, now)
          BY <4>2, <4>3 DEF IInv, Ages
        <4>5. s[h].time = o.time /\ s[h].timeout = o.timeout /\ s[h].age = o.age + d
          BY <1>2, <1>10, <4>2, <4>3, <4>4, AgedType
        <4>6. o.age \in Nat /\ o.time \in Times
          BY DEF Command
        <4>7. Since(o.time, o.age + d, t)
          BY <1>1, <1>10, <4>4, <4>6, SinceLater
        <4> QED
          BY <4>1, <4>4, <4>5, <4>7
      <3>2. CASE \E j \in 1 .. k : v[i] = new[j]
        <4>1. PICK j \in 1 .. k : v[i] = new[j]
          BY <3>2
        <4> QED
          BY <1>10, <1>15, <4>1, SinceNow
      <3> QED
        BY <1>17, <3>1, <3>2
    <2> QED
      BY <1>18, <2>1 DEF Ages
  <1>23. EarliestOpen'
    <2>1. SUFFICES ASSUME r.earliest # 0
                   PROVE  \E c \in Command : Open(v, rest, c) /\ Since(r.earliest, c.age, t)
      BY <1>9, <1>18 DEF EarliestOpen
    <2>2. Source(s, Len(s), r.earliest) /\ r.earliest \in Times
      BY <1>11 DEF Loop, Examined
    <2>3. PICK o \in Command : Open(sent, outgoing, o) /\ Since(r.earliest, o.age + d, t)
      BY <1>1, <1>2, <1>8, <2>1, <2>2, SourceOpen
    <2> QED
      BY <1>19, <2>3
  <1> QED
    BY <1>20, <1>21, <1>22, <1>23 DEF IInv

--------------------------------------------------------------------------------
(* Acknowledgements, and the theorems. *)

LEMMA Removed ==
  ASSUME NEW s \in Seq(Command), NEW i \in 1 .. Len(s), NEW w, w = RemoveAt(s, i)
  PROVE  w \in Seq(Command) /\ \A j \in 1 .. Len(w) : \E h \in 1 .. Len(s) : w[j] = s[h]
  <1>1. PICK n \in Nat : n = Len(s)
    OBVIOUS
  <1>2. PICK p, q : p = SubSeq(s, 1, i - 1) /\ q = SubSeq(s, i + 1, n)
    OBVIOUS
  <1>3. /\ p \in Seq(Command) /\ Len(p) = i - 1
        /\ \A j \in 1 .. i - 1 : p[j] = s[j] /\ j \in 1 .. n
    BY <1>1, <1>2
  <1>4. /\ q \in Seq(Command) /\ Len(q) = n - i
        /\ \A j \in 1 .. n - i : q[j] = s[i + j] /\ i + j \in 1 .. n
    BY <1>1, <1>2
  <1>5. w = p \o q
    BY <1>1, <1>2 DEF RemoveAt
  <1>6. Join(p, q, w)
    BY <1>3, <1>4, <1>5, Joined
  <1>7. ASSUME NEW j \in 1 .. Len(w)
        PROVE  \E h \in 1 .. n : w[j] = s[h]
    <2>1. CASE \E h \in 1 .. Len(p) : w[j] = p[h]
      BY <1>3, <2>1
    <2>2. CASE \E h \in 1 .. Len(q) : w[j] = q[h]
      BY <1>4, <2>2
    <2> QED
      BY <1>6, <2>1, <2>2 DEF Join
  <1> QED
    BY <1>1, <1>6, <1>7 DEF Join

LEMMA SendKeeps ==
  ASSUME IInv, Send
  PROVE  IInv'
  <1>1. PICK q \in Seq(Command) : q = outgoing
    BY DEF IInv, Types
  <1>2. PICK w : w = Append(q, NewCommand)
    OBVIOUS
  <1>3. NewCommand \in Command
    <2>1. 0 \in Times
      BY Clocks DEF Times
    <2> QED
      BY <2>1 DEF NewCommand, Command
  <1>4. w \in Seq(Command) /\ Len(w) = Len(q) + 1 /\ \A i \in 1 .. Len(q) : w[i] = q[i] /\ i \in 1 .. Len(w)
    BY <1>1, <1>2, <1>3
  <1>5. outgoing' = w /\ UNCHANGED <<now, up, sent, next, earliest>>
    BY <1>1, <1>2 DEF Send
  <1>6. Types' /\ NextIsFirst' /\ Ages'
    BY <1>4, <1>5 DEF IInv, Types, NextIsFirst, Ages, Deadline
  <1>7. EarliestOpen'
    <2>1. SUFFICES ASSUME up, earliest # 0
                   PROVE  \E o \in Command : Open(sent, w, o) /\ Since(earliest, o.age, now)
      BY <1>5 DEF EarliestOpen
    <2>2. PICK o \in Command : Open(sent, q, o) /\ Since(earliest, o.age, now)
      BY <1>1, <1>2, <2>1 DEF IInv, EarliestOpen
    <2>3. Open(sent, w, o)
      BY <1>4, <2>2 DEF Open
    <2> QED
      BY <2>2, <2>3
  <1> QED
    BY <1>6, <1>7 DEF IInv

LEMMA AckSentKeeps ==
  ASSUME IInv, NEW i, AckSent(i)
  PROVE  IInv'
  <1>1. PICK s \in Seq(Command) : s = sent
    BY DEF IInv, Types
  <1>2. PICK w : w = RemoveAt(s, i)
    OBVIOUS
  <1>3. i \in 1 .. Len(s)
    BY <1>1, <1>2 DEF AckSent
  <1>4. w \in Seq(Command) /\ \A j \in 1 .. Len(w) : \E h \in 1 .. Len(s) : w[j] = s[h]
    BY <1>1, <1>2, <1>3, Removed
  <1>5. /\ sent' = w /\ next' = (IF w = <<>> THEN next ELSE Deadline(w[1]))
        /\ earliest' = 0 /\ UNCHANGED <<now, up, outgoing>>
    BY <1>1, <1>2 DEF AckSent, NextAfterAck, EarliestAfterAck
  <1>6. next' \in Times
    <2>1. CASE w = <<>>
      BY <1>5, <2>1 DEF IInv, Types
    <2>2. CASE w # <<>>
      <3>1. w[1] \in Command
        BY <1>4, <2>2
      <3> QED
        BY <1>5, <2>2, <3>1, DeadlineType
    <2> QED
      BY <2>1, <2>2
  <1>7. Types'
    <2>1. 0 \in Times
      BY Clocks DEF Times
    <2> QED
      BY <1>4, <1>5, <1>6, <2>1 DEF IInv, Types
  <1>8. NextIsFirst'
    BY <1>5 DEF NextIsFirst, Deadline
  <1>9. Ages'
    <2>1. \A j \in 1 .. Len(w) : w[j].timeout > 0 /\ Since(w[j].time, w[j].age, now)
      BY <1>1, <1>2, <1>4 DEF IInv, Ages
    <2> QED
      BY <1>5, <2>1 DEF Ages
  <1>10. EarliestOpen'
    BY <1>5 DEF EarliestOpen
  <1> QED
    BY <1>7, <1>8, <1>9, <1>10 DEF IInv

LEMMA AckResendKeeps ==
  ASSUME IInv, NEW i, AckResend(i)
  PROVE  IInv'
  <1>1. PICK q \in Seq(Command) : q = outgoing
    BY DEF IInv, Types
  <1>2. PICK w : w = RemoveAt(q, i)
    OBVIOUS
  <1>3. i \in 1 .. Len(q)
    BY <1>1, <1>2 DEF AckResend
  <1>4. w \in Seq(Command)
    BY <1>1, <1>2, <1>3, Removed
  <1>5. /\ outgoing' = w /\ next' = (IF sent = <<>> THEN next ELSE Deadline(sent[1]))
        /\ earliest' = 0 /\ UNCHANGED <<now, up, sent>>
    BY <1>1, <1>2 DEF AckResend, NextAfterAck, EarliestAfterAck
  <1>6. next' = next
    BY <1>5 DEF IInv, NextIsFirst
  <1>7. 0 \in Times
    BY Clocks DEF Times
  <1>8. Types' /\ NextIsFirst' /\ Ages'
    BY <1>4, <1>5, <1>6, <1>7 DEF IInv, Types, NextIsFirst, Ages, Deadline
  <1>9. EarliestOpen'
    BY <1>5 DEF EarliestOpen
  <1> QED
    BY <1>8, <1>9 DEF IInv

LEMMA AckAgainKeeps ==
  ASSUME IInv, AckAgain
  PROVE  IInv'
  <1>1. earliest' = 0 /\ UNCHANGED <<now, up, outgoing, sent, next>>
    BY DEF AckAgain, EarliestAfterAck
  <1>2. 0 \in Times
    BY Clocks DEF Times
  <1> QED
    BY <1>1, <1>2 DEF IInv, Types, NextIsFirst, Ages, Deadline, EarliestOpen

\* When the peer is given up.
LEMMA ServiceGivesUp ==
  ASSUME IInv, NEW d \in 1 .. MaxStep, NEW k, NEW first, Service(d, k, first), ~up'
  PROVE  /\ IInv'
         /\ \E o \in Unacknowledged : o.age + Difference(now', now) >= Min({Minimum, Maximum})
  <1>1. PICK t : t = Later(now, d)
    OBVIOUS
  <1>2. PICK s : s = Aged(sent, d)
    OBVIOUS
  <1>3. PICK r : r = IF Due(t, s) THEN CheckTimeouts(t, s) ELSE Unchecked(s)
    OBVIOUS
  <1>4. up /\ now' = t /\ up' = ~r.giveUp
    BY <1>1, <1>2, <1>3 DEF Service
  <1>5. r.giveUp
    BY <1>4
  <1>6. outgoing' = <<>> /\ sent' = <<>> /\ UNCHANGED <<next, earliest>>
    BY <1>1, <1>2, <1>3, <1>5 DEF Service
  <1>7. d \in Nat /\ d < Overflow /\ now \in Times /\ t \in Times /\ Difference(t, now) = d
    <2>1. now \in Times
      BY DEF IInv, Types
    <2> QED
      BY <1>1, <2>1, DifferenceOfStep, Wrapped
  <1>8. Loop(s, t, Len(s), r)
    BY <1>2, <1>3, <1>7, Checked
  <1>9. PICK e \in Times : Source(s, Len(s), e) /\ Expired(e, t)
    BY <1>5, <1>8 DEF Loop
  <1>10. e # 0
    BY <1>9 DEF Expired
  <1>11. PICK o \in Command : Open(sent, outgoing, o) /\ Since(e, o.age + d, t)
    BY <1>1, <1>2, <1>4, <1>9, <1>10, SourceOpen
  <1>12. PICK a \in Nat : a = o.age + d
    BY <1>7 DEF Command
  <1>13. a >= Minimum \/ a >= Maximum
    BY <1>7, <1>9, <1>11, <1>12, SinceLong
  <1>14. a >= Min({Minimum, Maximum})
    BY <1>13, LeastOfTwo
  <1>15. o \in Unacknowledged
    BY <1>11, OpenIsUnacknowledged DEF IInv
  <1>16. \E c \in Unacknowledged : c.age + Difference(now', now) >= Min({Minimum, Maximum})
    <2>1. Difference(now', now) = d
      BY <1>4, <1>7
    <2> QED
      BY <1>12, <1>14, <1>15, <2>1
  <1>17. IInv'
    <2>1. <<>> \in Seq(Command) /\ Len(<<>>) = 0
      OBVIOUS
    <2>2. Types'
      BY <1>4, <1>6, <1>7, <2>1 DEF IInv, Types
    <2>3. NextIsFirst' /\ Ages'
      BY <1>6, <2>1 DEF NextIsFirst, Ages
    <2>4. EarliestOpen'
      BY DEF EarliestOpen
    <2> QED
      BY <2>2, <2>3, <2>4 DEF IInv
  <1> QED
    BY <1>16, <1>17

LEMMA InvStep ==
  ASSUME IInv, [Next]_vars
  PROVE  /\ IInv'
         /\ up /\ ~up' =>
              \E o \in Unacknowledged : o.age + Difference(now', now) >= Min({Minimum, Maximum})
  <1>1. CASE Send
    <2>1. up' = up
      BY <1>1 DEF Send
    <2> QED
      BY <1>1, <2>1, SendKeeps
  <1>2. ASSUME NEW d \in 1 .. MaxStep, NEW k \in 0 .. MaxCommands, NEW first \in FirstTimeouts,
               Service(d, k, first)
        PROVE  /\ IInv'
               /\ up /\ ~up' =>
                    \E o \in Unacknowledged : o.age + Difference(now', now) >= Min({Minimum, Maximum})
    <2>1. CASE up'
      BY <1>2, <2>1, ServiceKeeps
    <2>2. CASE ~up'
      BY <1>2, <2>2, ServiceGivesUp
    <2> QED
      BY <2>1, <2>2
  <1>3. ASSUME NEW i \in 1 .. MaxCommands, AckSent(i) \/ AckResend(i)
        PROVE  IInv' /\ up' = up
    <2>1. up' = up
      BY <1>3 DEF AckSent, AckResend
    <2> QED
      BY <1>3, <2>1, AckSentKeeps, AckResendKeeps
  <1>4. CASE AckAgain
    <2>1. up' = up
      BY <1>4 DEF AckAgain
    <2> QED
      BY <1>4, <2>1, AckAgainKeeps
  <1>5. CASE UNCHANGED vars
    <2>1. UNCHANGED <<now, up, outgoing, sent, next, earliest>>
      BY <1>5 DEF vars
    <2>2. IInv'
      BY <2>1 DEF IInv, Types, NextIsFirst, Ages, Deadline, EarliestOpen
    <2> QED
      BY <2>1, <2>2
  <1> QED
    BY <1>1, <1>2, <1>3, <1>4, <1>5 DEF Next

LEMMA Inductive == Spec => []IInv
  <1>1. Init => IInv
    <2>1. SUFFICES ASSUME Init
                   PROVE  IInv
      OBVIOUS
    <2>2. <<>> \in Seq(Command) /\ Len(<<>>) = 0 /\ 0 \in Times
      BY Clocks DEF Times
    <2>3. Types
      BY <2>1, <2>2 DEF Init, Types, Times
    <2>4. NextIsFirst /\ Ages /\ EarliestOpen
      BY <2>1, <2>2 DEF Init, NextIsFirst, Ages, EarliestOpen
    <2> QED
      BY <2>3, <2>4 DEF IInv
  <1>2. IInv /\ [Next]_vars => IInv'
    BY InvStep
  <1> QED
    BY <1>1, <1>2, PTL DEF Spec

\* nextTimeout, the only time that is looked at before enet_protocol_check_timeouts(), is
\* that of the first command in sentReliableCommands, whatever is sent again or acknowledged.
THEOREM NextTimeoutIsFirst == Spec => []NextIsFirst
  <1>1. IInv => NextIsFirst
    BY DEF IInv
  <1> QED
    BY <1>1, Inductive, PTL

\* A peer is given up only if some command was first sent, and not acknowledged since, the
\* shorter of timeoutMinimum and timeoutMaximum ago, however the clock wraps around.
THEOREM GivenUpInTime == Spec => NotGivenUpEarly
  <1>1. IInv /\ [Next]_vars =>
          [up /\ ~up' => \E o \in Unacknowledged :
                           o.age + Difference(now', now) >= Min({Minimum, Maximum})]_vars
    BY InvStep
  <1> QED
    BY <1>1, Inductive, PTL DEF Spec, NotGivenUpEarly

--------------------------------------------------------------------------------
(* How long ago: ages that are shorter than a day, on the clock. *)

Elapsed(t, e) == (t - e) % Clock

LEMMA ElapsedIs ==
  ASSUME NEW t \in Times, NEW e \in Times
  PROVE  /\ t >= e => Elapsed(t, e) = t - e
         /\ t < e => Elapsed(t, e) = t - e + Clock
         /\ Elapsed(t, e) \in Nat /\ Elapsed(t, e) < Clock
         /\ t \in Int /\ e \in Int /\ 0 <= t /\ t < Clock /\ 0 <= e /\ e < Clock /\ Clock \in Nat
  <1>1. t \in Int /\ e \in Int /\ Clock \in Nat /\ e >= 0 /\ e < Clock /\ t >= 0 /\ t < Clock
    BY Clocks DEF Times
  <1>2. PICK m : m = (t - e) % Clock
    OBVIOUS
  <1>3. CASE t >= e
    <2>1. t - e \in 0 .. Clock - 1
      BY <1>1, <1>3
    <2>2. m = t - e
      BY <1>1, <1>2, <2>1
    <2> QED
      BY <1>1, <1>2, <1>3, <2>2 DEF Elapsed
  <1>4. CASE t < e
    <2>1. t - e + Clock \in 0 .. Clock - 1 /\ t - e = (0 - 1) * Clock + (t - e + Clock)
      BY <1>1, <1>4
    <2>2. m = t - e + Clock
      BY <1>1, <1>2, <2>1
    <2> QED
      BY <1>1, <1>2, <1>4, <2>2 DEF Elapsed
  <1> QED
    BY <1>1, <1>3, <1>4

LEMMA ElapsedNow ==
  ASSUME NEW t \in Times
  PROVE  Elapsed(t, t) = 0
  <1>1. /\ t >= t => Elapsed(t, t) = t - t
        /\ t \in Int
    BY ElapsedIs
  <1> QED
    BY <1>1

LEMMA ElapsedLater ==
  ASSUME NEW t \in Times, NEW e \in Times, NEW d \in Nat, d < Overflow,
         Elapsed(t, e) + d < Clock
  PROVE  Elapsed(Later(t, d), e) = Elapsed(t, e) + d
  <1>1. PICK x : x = Elapsed(t, e)
    OBVIOUS
  <1>2. /\ t >= e => x = t - e
        /\ t < e => x = t - e + Clock
        /\ t \in Int /\ e \in Int /\ 0 <= t /\ t < Clock /\ 0 <= e /\ e < Clock /\ Clock \in Nat
    BY <1>1, ElapsedIs
  <1>3. PICK u : u = Later(t, d)
    OBVIOUS
  <1>4. /\ t + d < Clock => u = t + d
        /\ t + d >= Clock => u = t + d - Clock
        /\ u \in Times
    BY <1>3, Wrapped
  <1>5. PICK y : y = Elapsed(u, e)
    OBVIOUS
  <1>6. /\ u >= e => y = u - e
        /\ u < e => y = u - e + Clock
        /\ u \in Int
    BY <1>4, <1>5, ElapsedIs
  <1>7. x + d < Clock
    BY <1>1
  <1>8. y = x + d
    BY <1>2, <1>4, <1>6, <1>7
  <1> QED
    BY <1>1, <1>3, <1>5, <1>8

\* ENET_TIME_DIFFERENCE is the time elapsed.
LEMMA DifferenceIs ==
  ASSUME NEW t \in Times, NEW e \in Times, Elapsed(t, e) < Overflow
  PROVE  Difference(t, e) = Elapsed(t, e)
  BY Clocks, ElapsedIs DEF Difference, Elapsed

\* ENET_TIME_LESS tells which of two times was earlier.
LEMMA LessIs ==
  ASSUME NEW t \in Times, NEW a \in Times, NEW b \in Times,
         Elapsed(t, a) < Overflow, Elapsed(t, b) < Overflow
  PROVE  Less(a, b) <=> Elapsed(t, a) > Elapsed(t, b)
  <1>1. PICK x, y, z : x = Elapsed(t, a) /\ y = Elapsed(t, b) /\ z = Elapsed(a, b)
    OBVIOUS
  <1>2. /\ t >= a => x = t - a
        /\ t < a => x = t - a + Clock
        /\ t \in Int /\ a \in Int /\ 0 <= t /\ t < Clock /\ 0 <= a /\ a < Clock
    BY <1>1, ElapsedIs
  <1>3. /\ t >= b => y = t - b
        /\ t < b => y = t - b + Clock
        /\ b \in Int /\ 0 <= b /\ b < Clock
    BY <1>1, ElapsedIs
  <1>4. /\ a >= b => z = a - b
        /\ a < b => z = a - b + Clock
    BY <1>1, ElapsedIs
  <1>5. x < Overflow /\ y < Overflow /\ Clock \in Nat /\ Overflow \in Nat /\ 2 * Overflow <= Clock
    BY <1>1, Clocks
  <1>6. z >= Overflow <=> x > y
    BY <1>2, <1>3, <1>4, <1>5
  <1>7. Less(a, b) <=> z >= Overflow
    BY <1>1 DEF Less, Elapsed
  <1> QED
    BY <1>1, <1>6, <1>7

\* Nothing is due before the timeout of the command that nextTimeout is of.
LEMMA DueIs ==
  ASSUME NEW t \in Times, NEW o \in Command, Elapsed(t, o.time) < Overflow, o.timeout < Overflow
  PROVE  Less(t, Deadline(o)) <=> Elapsed(t, o.time) < o.timeout
  <1>1. PICK e \in Times, d \in Nat : e = o.time /\ d = o.timeout
    BY DEF Command
  <1>2. PICK u : u = Later(e, d)
    OBVIOUS
  <1>3. /\ e + d < Clock => u = e + d
        /\ e + d >= Clock => u = e + d - Clock
        /\ u \in Times
    BY <1>1, <1>2, Wrapped
  <1>4. PICK x, z : x = Elapsed(t, e) /\ z = Elapsed(t, u)
    OBVIOUS
  <1>5. /\ t >= e => x = t - e
        /\ t < e => x = t - e + Clock
        /\ t \in Int /\ e \in Int /\ 0 <= t /\ t < Clock /\ 0 <= e /\ e < Clock
    BY <1>4, ElapsedIs
  <1>6. /\ t >= u => z = t - u
        /\ t < u => z = t - u + Clock
        /\ u \in Int
    BY <1>3, <1>4, ElapsedIs
  <1>7. x < Overflow /\ d < Overflow /\ Clock \in Nat /\ Overflow \in Nat /\ 2 * Overflow <= Clock
    BY <1>1, <1>4, Clocks
  <1>8. z >= Overflow <=> x < d
    BY <1>3, <1>5, <1>6, <1>7
  <1>9. Less(t, Deadline(o)) <=> z >= Overflow
    BY <1>1, <1>2, <1>4 DEF Less, Deadline, Elapsed
  <1> QED
    BY <1>1, <1>4, <1>8, <1>9

--------------------------------------------------------------------------------
(* A silent host. *)

\* No first timeout is longer than twice timeoutMaximum.
ShortRoundTrips == \A f \in FirstTimeouts : f <= 2 * Maximum

\* No command in transit was sent at the time 0, which earliestTimeout takes for none.
NoneAtZero == \A i \in 1 .. Len(sent) : sent[i].time # 0

Short(s) == \A i \in 1 .. Len(s) : s[i].timeout <= 2 * Maximum
Recent(s, t) == \A i \in 1 .. Len(s) : Elapsed(t, s[i].time) < 2 * Maximum

\* Commands are in the order in which they were sent.
Ordered(s, t) ==
  \A i, j \in 1 .. Len(s) : i <= j => Elapsed(t, s[j].time) <= Elapsed(t, s[i].time)

\* What the loop of enet_protocol_check_timeouts() starts with.
Starts(list, t) ==
  /\ Short(list) /\ Ordered(list, t)
  /\ \A i \in 1 .. Len(list) : list[i].time # 0 /\ Elapsed(t, list[i].time) < Overflow
  /\ earliest # 0 => Elapsed(t, earliest) < Overflow

\* A time that earliestTimeout has, at least a ago.
Back(e, t, a) == e # 0 /\ a <= Elapsed(t, e)

\* earliestTimeout only goes back, and not behind a late command.
GoesBack(list, t, i, r) ==
  /\ r.earliest # 0 => Elapsed(t, r.earliest) < Overflow
  /\ earliest # 0 => Back(r.earliest, t, Elapsed(t, earliest))
  /\ i > 0 /\ Late(list[1], t) => Back(r.earliest, t, Elapsed(t, list[1].time)) /\ r.resend # <<>>

\* Unless the peer is given up timeoutMaximum has not passed, and no timeout that has
\* is longer.
GoesOn(t, r) ==
  ~r.giveUp =>
    /\ Short(r.resend)
    /\ r.resend # <<>> => r.earliest # 0 /\ Elapsed(t, r.earliest) < Maximum

\* The commands that stay.
Stays(list, t, i, r) ==
  /\ Short(r.sent) /\ Recent(r.sent, t) /\ Ordered(r.sent, t)
  /\ \A k \in 1 .. Len(r.sent), j \in i + 1 .. Len(list) :
       Elapsed(t, list[j].time) <= Elapsed(t, r.sent[k].time)

Looked(list, t, i, r) == GoesBack(list, t, i, r) /\ GoesOn(t, r) /\ Stays(list, t, i, r)

\* A late command: earliestTimeout.
LEMMA EarlierIs ==
  ASSUME NEW t \in Times, NEW o \in Command, NEW e \in Times,
         o.time # 0, Elapsed(t, o.time) < Overflow, e # 0 => Elapsed(t, e) < Overflow
  PROVE  /\ Earlier(e, o) \in Times /\ Elapsed(t, Earlier(e, o)) < Overflow
         /\ Back(Earlier(e, o), t, Elapsed(t, o.time))
         /\ e # 0 => Back(Earlier(e, o), t, Elapsed(t, e))
  <1>1. PICK b \in Times : b = o.time
    BY DEF Command
  <1>2. Elapsed(t, b) \in Nat /\ Elapsed(t, e) \in Nat
    BY ElapsedIs
  <1>3. e # 0 => (Less(b, e) <=> Elapsed(t, b) > Elapsed(t, e))
    BY <1>1, LessIs
  <1>4. PICK f : f = Earlier(e, o)
    OBVIOUS
  <1>5. f = IF e = 0 \/ Less(b, e) THEN b ELSE e
    BY <1>1, <1>4 DEF Earlier
  <1>6. /\ f \in Times /\ Elapsed(t, f) < Overflow /\ f # 0 /\ Elapsed(t, b) <= Elapsed(t, f)
        /\ e # 0 => Elapsed(t, e) <= Elapsed(t, f)
    <2>1. CASE e = 0
      BY <1>1, <1>2, <1>5, <2>1
    <2>2. CASE e # 0 /\ Less(b, e)
      BY <1>1, <1>2, <1>3, <1>5, <2>2
    <2>3. CASE e # 0 /\ ~Less(b, e)
      BY <1>1, <1>2, <1>3, <1>5, <2>3
    <2> QED
      BY <2>1, <2>2, <2>3
  <1> QED
    BY <1>1, <1>4, <1>6 DEF Back

\* A late command that does not end in giving up: its timeout was shorter than timeoutMaximum.
LEMMA LateInTime ==
  ASSUME NEW t \in Times, NEW o \in Command, NEW e \in Times, Late(o, t), ~GivesUp(e, o, t),
         Back(e, t, Elapsed(t, o.time)), Elapsed(t, e) < Overflow, Elapsed(t, o.time) < Overflow
  PROVE  Elapsed(t, e) < Maximum /\ BackedOff(o).timeout <= 2 * Maximum
  <1>1. PICK b \in Times : b = o.time
    BY DEF Command
  <1>2. PICK x \in Nat, y \in Nat : x = Elapsed(t, b) /\ y = Elapsed(t, e)
    BY ElapsedIs
  <1>3. Difference(t, e) = y /\ Difference(t, b) = x
    BY <1>1, <1>2, DifferenceIs
  <1>4. e # 0 /\ x <= y
    BY <1>1, <1>2 DEF Back
  <1>5. PICK d \in Nat : d = o.timeout
    BY DEF Command
  <1>6. x >= d
    BY <1>1, <1>3, <1>5 DEF Late
  <1>7. ~(y >= Maximum)
    BY <1>3, <1>4 DEF GivesUp
  <1>8. y < Maximum
    BY <1>7, Clocks
  <1>9. BackedOff(o).timeout = 2 * d
    BY <1>5 DEF BackedOff, Command
  <1>10. 2 * d <= 2 * Maximum
    BY <1>4, <1>6, <1>8, Clocks
  <1> QED
    BY <1>2, <1>8, <1>9, <1>10

LEMMA LookedLate ==
  ASSUME Types, NEW list \in Seq(Command), NEW t \in Times, NEW k \in 0 .. Len(list) - 1,
         NEW r \in Examined, Starts(list, t), Looked(list, t, k, r), Late(list[k + 1], t)
  PROVE  Looked(list, t, k + 1, Examine(list, k + 1, t, r))
  <1>1. PICK o : o = list[k + 1]
    OBVIOUS
  <1>2. PICK e : e = Earlier(r.earliest, o)
    OBVIOUS
  <1>3. PICK b : b = BackedOff(o)
    OBVIOUS
  <1>4. PICK s : s = Examine(list, k + 1, t, r)
    OBVIOUS
  <1>5. PICK q \in Seq(Command) : q = r.resend
    BY DEF Examined
  <1>6. PICK w : w = Append(q, b)
    OBVIOUS
  <1>7. PICK g : g = (r.giveUp \/ GivesUp(e, o, t))
    OBVIOUS
  <1>8. s.giveUp = g /\ s.resend = w /\ s.sent = r.sent /\ s.earliest = e
    BY <1>1, <1>2, <1>3, <1>4, <1>5, <1>6, <1>7 DEF Examine, Examined
  <1>9. /\ o \in Command /\ o.time # 0 /\ Elapsed(t, o.time) < Overflow /\ Late(o, t)
        /\ k \in Nat /\ k + 1 \in 1 .. Len(list)
    BY <1>1 DEF Starts
  <1>10. PICK f \in Times : f = r.earliest
    BY DEF Examined
  <1>11. /\ e \in Times /\ Elapsed(t, e) < Overflow /\ Back(e, t, Elapsed(t, o.time))
         /\ f # 0 => Back(e, t, Elapsed(t, f))
    BY <1>2, <1>9, <1>10, EarlierIs DEF Looked, GoesBack
  <1>12. b \in Command
    BY <1>3, <1>9, BackedOffType
  <1>13. /\ w \in Seq(Command) /\ Len(w) = Len(q) + 1 /\ w[Len(q) + 1] = b
         /\ \A i \in 1 .. Len(q) : w[i] = q[i]
    BY <1>6, <1>12
  <1>14. w # <<>>
    BY <1>13
  \* What was back by as much before still is.
  <1>15. ASSUME NEW a \in Nat, Back(f, t, a)
         PROVE  Back(e, t, a)
    <2>1. Elapsed(t, e) \in Nat /\ Elapsed(t, f) \in Nat
      BY <1>11, ElapsedIs
    <2> QED
      BY <1>11, <1>15, <2>1 DEF Back
  <1>16. GoesBack(list, t, k + 1, s)
    <2>1. ASSUME earliest # 0
          PROVE  Back(e, t, Elapsed(t, earliest))
      <3>1. Elapsed(t, earliest) \in Nat
        BY ElapsedIs DEF Types
      <3>2. Back(f, t, Elapsed(t, earliest))
        BY <1>10, <2>1 DEF Looked, GoesBack
      <3> QED
        BY <1>15, <3>1, <3>2
    <2>2. ASSUME Late(list[1], t)
          PROVE  Back(e, t, Elapsed(t, list[1].time))
      <3>1. CASE k = 0
        BY <1>1, <1>11, <3>1
      <3>2. CASE k > 0
        <4>1. Back(f, t, Elapsed(t, list[1].time))
          BY <1>10, <2>2, <3>2 DEF Looked, GoesBack
        <4>2. 1 \in 1 .. Len(list)
          BY <1>9
        <4>3. list[1].time \in Times
          <5>1. list[1] \in Command
            BY <4>2
          <5> QED
            BY <5>1 DEF Command
        <4>4. Elapsed(t, list[1].time) \in Nat
          BY <4>3, ElapsedIs
        <4> QED
          BY <1>15, <4>1, <4>4
      <3> QED
        BY <1>9, <3>1, <3>2
    <2> QED
      BY <1>8, <1>11, <1>14, <2>1, <2>2 DEF GoesBack
  <1>17. GoesOn(t, s)
    <2>1. SUFFICES ASSUME ~g
                   PROVE  Short(w) /\ e # 0 /\ Elapsed(t, e) < Maximum
      BY <1>8 DEF GoesOn
    <2>2. ~r.giveUp /\ ~GivesUp(e, o, t)
      BY <1>7, <2>1
    <2>3. Elapsed(t, e) < Maximum /\ b.timeout <= 2 * Maximum
      BY <1>3, <1>9, <1>11, <2>2, LateInTime
    <2>4. Short(q)
      BY <1>5, <2>2 DEF Looked, GoesOn
    <2>5. Short(w)
      BY <1>13, <2>3, <2>4 DEF Short
    <2> QED
      BY <1>11, <2>3, <2>5 DEF Back
  <1>18. Stays(list, t, k + 1, s)
    <2>1. \A j \in (k + 1) + 1 .. Len(list) : j \in k + 1 .. Len(list)
      BY <1>9
    <2> QED
      BY <1>8, <2>1 DEF Looked, Stays
  <1> QED
    BY <1>4, <1>16, <1>17, <1>18 DEF Looked

LEMMA LookedInTime ==
  ASSUME NEW list \in Seq(Command), NEW t \in Times, NEW k \in 0 .. Len(list) - 1,
         NEW r \in Examined, Starts(list, t), Looked(list, t, k, r), ~Late(list[k + 1], t)
  PROVE  Looked(list, t, k + 1, Examine(list, k + 1, t, r))
  <1>1. PICK o : o = list[k + 1]
    OBVIOUS
  <1>2. PICK s : s = Examine(list, k + 1, t, r)
    OBVIOUS
  <1>3. PICK p \in Seq(Command) : p = r.sent
    BY DEF Examined
  <1>4. PICK w : w = Append(p, o)
    OBVIOUS
  <1>5. /\ s.giveUp = r.giveUp /\ s.resend = r.resend /\ s.sent = w /\ s.earliest = r.earliest
    BY <1>1, <1>2, <1>3, <1>4 DEF Examine, Examined
  <1>6. k \in Nat /\ k + 1 \in 1 .. Len(list) /\ Len(list) \in Nat
    OBVIOUS
  <1>7. /\ o \in Command /\ Elapsed(t, o.time) < Overflow /\ ~Late(o, t)
        /\ o.timeout <= 2 * Maximum
    BY <1>1, <1>6 DEF Starts, Short
  <1>8. PICK m \in Nat : m = Len(p)
    OBVIOUS
  <1>9. Len(w) = m + 1 /\ w[m + 1] = o /\ \A i \in 1 .. m : w[i] = p[i]
    BY <1>4, <1>7, <1>8
  <1>10. Elapsed(t, o.time) \in Nat /\ Elapsed(t, o.time) < 2 * Maximum
    <2>1. PICK e \in Times, d \in Nat : e = o.time /\ d = o.timeout
      BY <1>7 DEF Command
    <2>2. PICK x \in Nat : x = Elapsed(t, e)
      BY ElapsedIs
    <2>3. Difference(t, e) = x
      BY <1>7, <2>1, <2>2, DifferenceIs
    <2>4. x < d
      BY <1>7, <2>1, <2>3 DEF Late
    <2> QED
      BY <1>7, <2>1, <2>2, <2>4, Clocks
  <1>11. GoesBack(list, t, k + 1, s)
    <2>1. ASSUME Late(list[1], t)
          PROVE  k > 0
      BY <1>1, <1>6, <1>7, <2>1
    <2> QED
      BY <1>5, <2>1 DEF Looked, GoesBack
  <1>12. GoesOn(t, s)
    BY <1>5 DEF Looked, GoesOn
  <1>13. /\ Short(p) /\ Recent(p, t) /\ Ordered(p, t)
         /\ \A i \in 1 .. m, j \in k + 1 .. Len(list) :
              Elapsed(t, list[j].time) <= Elapsed(t, p[i].time)
    BY <1>3, <1>8 DEF Looked, Stays
  <1>14. \A i \in 1 .. m + 1 : i \in 1 .. m \/ i = m + 1
    OBVIOUS
  <1>15. Short(w) /\ Recent(w, t)
    BY <1>7, <1>8, <1>9, <1>10, <1>13, <1>14 DEF Short, Recent
  <1>16. Ordered(w, t)
    <2>1. ASSUME NEW i \in 1 .. m + 1, NEW j \in 1 .. m + 1, i <= j
          PROVE  Elapsed(t, w[j].time) <= Elapsed(t, w[i].time)
      <3>1. CASE j \in 1 .. m
        <4>1. i \in 1 .. m
          BY <2>1, <3>1
        <4> QED
          BY <1>8, <1>9, <1>13, <2>1, <3>1, <4>1 DEF Ordered
      <3>2. CASE j = m + 1 /\ i \in 1 .. m
        <4>1. k + 1 \in k + 1 .. Len(list)
          BY <1>6
        <4>2. Elapsed(t, list[k + 1].time) <= Elapsed(t, p[i].time)
          BY <1>13, <3>2, <4>1
        <4> QED
          BY <1>1, <1>9, <3>2, <4>2
      <3>3. CASE j = m + 1 /\ i = m + 1
        BY <1>9, <1>10, <3>3
      <3> QED
        BY <1>14, <3>1, <3>2, <3>3
    <2> QED
      BY <1>9, <2>1 DEF Ordered
  <1>17. ASSUME NEW i \in 1 .. m + 1, NEW j \in (k + 1) + 1 .. Len(list)
         PROVE  Elapsed(t, list[j].time) <= Elapsed(t, w[i].time)
    <2>1. j \in k + 1 .. Len(list) /\ j \in 1 .. Len(list) /\ k + 1 <= j
      BY <1>6
    <2>2. CASE i \in 1 .. m
      BY <1>9, <1>13, <2>1, <2>2
    <2>3. CASE i = m + 1
      BY <1>1, <1>6, <1>9, <2>1, <2>3 DEF Starts, Ordered
    <2> QED
      BY <1>14, <2>2, <2>3
  <1>18. Stays(list, t, k + 1, s)
    BY <1>5, <1>9, <1>15, <1>16, <1>17 DEF Stays
  <1> QED
    BY <1>2, <1>11, <1>12, <1>18 DEF Looked

LEMMA LookedEnds ==
  ASSUME Types, NEW list \in Seq(Command), NEW t \in Times, Starts(list, t)
  PROVE  Looked(list, t, Len(list), CheckTimeouts(t, list)) /\ CheckTimeouts(t, list) \in Examined
  <1>1. PICK n \in Nat : n = Len(list)
    OBVIOUS
  <1>2. PICK u : Passes(list, t, n, u)
    BY <1>1, LoopRuns
  <1>3. /\ u[0] = Unchecked(<<>>) /\ CheckTimeouts(t, list) = u[n]
        /\ \A k \in 0 .. n - 1 : u[k + 1] = Examine(list, k + 1, t, u[k])
    BY <1>2 DEF Passes
  <1>4. PICK T : T = {k \in 0 .. n : Loop(list, t, k, u[k]) /\ Looked(list, t, k, u[k])}
    OBVIOUS
  <1>5. 0 \in T
    <2>1. PICK r : r = Unchecked(<<>>)
      OBVIOUS
    <2>2. r = [giveUp |-> FALSE, resend |-> <<>>, sent |-> <<>>, earliest |-> earliest, next |-> next]
      BY <2>1 DEF Unchecked
    <2>3. r \in Examined
      <3>1. <<>> \in Seq(Command)
        OBVIOUS
      <3> QED
        BY <2>1, <3>1, UncheckedType
    <2>4. Loop(list, t, 0, r)
      BY <2>2, <2>3 DEF Loop, Sorted, Source
    <2>5. GoesBack(list, t, 0, r)
      <3>1. earliest # 0 => Back(earliest, t, Elapsed(t, earliest))
        <4>1. Elapsed(t, earliest) \in Nat
          BY ElapsedIs DEF Types
        <4> QED
          BY <4>1 DEF Back
      <3> QED
        BY <2>2, <3>1 DEF GoesBack, Starts
    <2>6. GoesOn(t, r)
      BY <2>2 DEF GoesOn, Short
    <2>7. Stays(list, t, 0, r)
      BY <2>2 DEF Stays, Short, Recent, Ordered
    <2>8. 0 \in 0 .. n
      OBVIOUS
    <2> QED
      BY <1>3, <1>4, <2>1, <2>4, <2>5, <2>6, <2>7, <2>8 DEF Looked
  <1>6. ASSUME NEW k \in 0 .. n - 1, k \in T
        PROVE  k + 1 \in T
    <2>1. PICK r : r = u[k]
      OBVIOUS
    <2>2. Loop(list, t, k, r) /\ Looked(list, t, k, r)
      BY <1>4, <1>6, <2>1
    <2>3. r \in Examined
      BY <2>2 DEF Loop
    <2>4. k \in 0 .. Len(list) - 1
      BY <1>1
    <2>5. Loop(list, t, k + 1, Examine(list, k + 1, t, r))
      BY <2>2, <2>4, ExamineLate, ExamineInTime
    <2>6. Looked(list, t, k + 1, Examine(list, k + 1, t, r))
      BY <2>2, <2>3, <2>4, LookedLate, LookedInTime
    <2>7. k + 1 \in 0 .. n /\ u[k + 1] = Examine(list, k + 1, t, r)
      BY <1>3, <2>1
    <2> QED
      BY <1>4, <2>5, <2>6, <2>7
  <1>7. n \in T
    BY <1>5, <1>6, UpToInduction
  <1>8. Loop(list, t, n, u[n]) /\ Looked(list, t, n, u[n])
    BY <1>4, <1>7
  <1> QED
    BY <1>1, <1>3, <1>8 DEF Loop

LEMMA PutShort ==
  ASSUME ShortRoundTrips, NEW o \in Command, o.timeout <= 2 * Maximum,
         NEW t \in Times, NEW first \in FirstTimeouts
  PROVE  Put(o, t, first).timeout <= 2 * Maximum
  <1>1. first \in Nat /\ first <= 2 * Maximum
    BY Clocks DEF ShortRoundTrips
  <1>2. Limit * first \in Nat
    BY <1>1, TimeAssumption
  <1>3. PICK l \in Nat, f \in Nat : /\ l = IF o.timeout = 0 THEN Limit * first ELSE o.limit
                                    /\ f = IF o.timeout = 0 THEN first ELSE o.timeout
    <2>1. o.limit \in Nat /\ o.timeout \in Nat
      BY DEF Command
    <2> QED
      BY <1>1, <1>2, <2>1
  <1>4. Put(o, t, first) = [o EXCEPT !.time = t, !.timeout = f, !.limit = l]
    BY <1>3 DEF Put, Command
  <1>5. Put(o, t, first).timeout = f
    BY <1>4 DEF Command
  <1> QED
    BY <1>1, <1>3, <1>5

\* The commands p that stay are followed in v by k that are sent, and the rest waits.
SendsOn(p, k, t, v, rest) ==
  /\ v \in Seq(Command) /\ Short(v) /\ Short(rest) /\ Recent(v, t) /\ Ordered(v, t)
  /\ p # <<>> => v # <<>> /\ v[1] = p[1]
  /\ p = <<>> /\ k > 0 => v # <<>> /\ Elapsed(t, v[1].time) = 0
  /\ p = <<>> /\ k = 0 => v = <<>>

LEMMA SentOn ==
  ASSUME ShortRoundTrips, NEW q \in Seq(Command), Short(q), NEW k \in 0 .. Len(q),
         NEW t \in Times, NEW first \in FirstTimeouts,
         NEW new, new = [i \in 1 .. k |-> Put(q[i], t, first)],
         NEW rest, rest = SubSeq(q, k + 1, Len(q)),
         NEW p \in Seq(Command), Short(p), Recent(p, t), Ordered(p, t), NEW v, v = p \o new
  PROVE  SendsOn(p, k, t, v, rest)
  <1>1. PICK n \in Nat, m \in Nat : n = Len(q) /\ m = Len(p) /\ k \in Nat /\ k <= n
    OBVIOUS
  <1>2. ASSUME NEW i \in 1 .. k
        PROVE  /\ new[i] \in Command /\ new[i].time = t /\ new[i].timeout <= 2 * Maximum
               /\ Elapsed(t, new[i].time) = 0
    <2>1. PICK o \in Command : o = q[i]
      BY <1>1
    <2>2. o.timeout <= 2 * Maximum
      BY <1>1, <2>1 DEF Short
    <2>3. new[i] = Put(o, t, first)
      BY <2>1
    <2>4. new[i] \in Command /\ new[i].time = t
      BY <2>3, PutType
    <2>5. new[i].timeout <= 2 * Maximum
      BY <2>2, <2>3, PutShort
    <2> QED
      BY <2>4, <2>5, ElapsedNow
  <1>3. new \in Seq(Command) /\ Len(new) = k
    <2>1. new \in [1 .. k -> Command]
      BY <1>2
    <2> QED
      BY <1>1, <2>1
  <1>4. Short(rest)
    <2>1. Len(rest) = n - k /\ \A j \in 1 .. n - k : rest[j] = q[k + j] /\ k + j \in 1 .. n
      BY <1>1
    <2> QED
      BY <1>1, <2>1 DEF Short
  <1>5. /\ v \in Seq(Command) /\ Len(v) = m + k
        /\ \A i \in 1 .. m : v[i] = p[i]
        /\ \A i \in 1 .. k : v[m + i] = new[i]
    BY <1>1, <1>3
  <1>6. \A i \in 1 .. m + k : i \notin 1 .. m => \E j \in 1 .. k : i = m + j
    <2>1. SUFFICES ASSUME NEW i \in 1 .. m + k, i \notin 1 .. m
                   PROVE  \E j \in 1 .. k : i = m + j
      OBVIOUS
    <2>2. i - m \in 1 .. k /\ i = m + (i - m)
      BY <1>1, <2>1
    <2> QED
      BY <2>2
  <1>7. ASSUME NEW i \in 1 .. m + k
        PROVE  /\ v[i].timeout <= 2 * Maximum /\ Elapsed(t, v[i].time) < 2 * Maximum
               /\ Elapsed(t, v[i].time) \in Nat
               /\ i \notin 1 .. m => Elapsed(t, v[i].time) = 0
    <2>1. CASE i \in 1 .. m
      <3>1. p[i] \in Command
        BY <1>1, <2>1
      <3>2. p[i].time \in Times
        BY <3>1 DEF Command
      <3>3. Elapsed(t, p[i].time) \in Nat
        BY <3>2, ElapsedIs
      <3> QED
        BY <1>1, <1>5, <2>1, <3>3 DEF Short, Recent
    <2>2. CASE i \notin 1 .. m
      <3>1. PICK j \in 1 .. k : i = m + j
        BY <1>6, <2>2
      <3>2. v[i] = new[j]
        BY <1>5, <3>1
      <3>3. PICK c : c = new[j]
        OBVIOUS
      <3>5. 0 < 2 * Maximum
        <4>1. Maximum \in {Limit, Minimum, Maximum, MaxStep, MaxCommands}
          OBVIOUS
        <4>2. Maximum \in Nat /\ Maximum # 0
          BY <4>1, TimeAssumption
        <4> QED
          BY <4>2
      <3>4. PICK x, y : x = Elapsed(t, c.time) /\ y = c.timeout
        OBVIOUS
      <3>6. y <= 2 * Maximum /\ x = 0
        BY <1>2, <3>3, <3>4
      <3>7. Elapsed(t, v[i].time) = x /\ v[i].timeout = y
        BY <3>2, <3>3, <3>4
      <3>8. x < 2 * Maximum /\ x \in Nat
        BY <3>5, <3>6
      <3> QED
        BY <3>6, <3>7, <3>8
    <2> QED
      BY <2>1, <2>2
  <1>8. Short(v) /\ Recent(v, t)
    BY <1>5, <1>7 DEF Short, Recent
  <1>9. Ordered(v, t)
    <2>1. ASSUME NEW i \in 1 .. m + k, NEW j \in 1 .. m + k, i <= j
          PROVE  Elapsed(t, v[j].time) <= Elapsed(t, v[i].time)
      <3>1. CASE j \in 1 .. m
        <4>1. i \in 1 .. m
          BY <2>1, <3>1
        <4>2. Elapsed(t, p[j].time) <= Elapsed(t, p[i].time)
          BY <1>1, <2>1, <3>1, <4>1 DEF Ordered
        <4> QED
          BY <1>5, <3>1, <4>1, <4>2
      <3>2. CASE j \notin 1 .. m
        <4>1. PICK x \in Nat : x = Elapsed(t, v[i].time)
          BY <1>7
        <4>2. PICK y \in Nat : y = Elapsed(t, v[j].time)
          BY <1>7
        <4>3. y = 0
          <5>1. Elapsed(t, v[j].time) = 0
            BY <1>7, <3>2
          <5> QED
            BY <4>2, <5>1
        <4>4. y <= x
          BY <4>3
        <4> QED
          BY <4>1, <4>2, <4>4
      <3> QED
        BY <3>1, <3>2
    <2> QED
      BY <1>5, <2>1 DEF Ordered
  <1>10. ASSUME p # <<>>
         PROVE  v # <<>> /\ v[1] = p[1]
    <2>1. 1 \in 1 .. m
      BY <1>1, <1>10
    <2> QED
      BY <1>5, <2>1
  <1>11. ASSUME p = <<>>, k > 0
         PROVE  v # <<>> /\ Elapsed(t, v[1].time) = 0
    <2>1. m = 0 /\ 1 \in 1 .. m + k /\ 1 \notin 1 .. m
      BY <1>1, <1>11
    <2>2. Elapsed(t, v[1].time) = 0
      BY <1>7, <2>1
    <2> QED
      BY <1>5, <2>1, <2>2
  <1>12. ASSUME p = <<>>, k = 0
         PROVE  v = <<>>
    BY <1>1, <1>5, <1>12
  <1> QED
    BY <1>4, <1>5, <1>8, <1>9, <1>10, <1>11, <1>12 DEF SendsOn

\* How long the host has been silent.
Waits ==
  /\ sent = <<>> => quiet = 0 /\ earliest = 0
  /\ earliest = 0 /\ sent # <<>> => quiet <= Elapsed(now, sent[1].time) + MaxStep
  /\ earliest # 0 => /\ quiet <= Elapsed(now, earliest) + MaxStep
                     /\ Elapsed(now, earliest) < Maximum + Elapsed(now, sent[1].time)

SilenceInv ==
  /\ quiet \in Nat /\ Short(sent) /\ Short(outgoing)
  /\ up => Recent(sent, now) /\ Ordered(sent, now) /\ Waits

LEMMA Limits ==
  /\ Maximum \in Nat /\ MaxStep \in Nat /\ Maximum > 0 /\ MaxStep > 0
  /\ 4 * Maximum + 4 * MaxStep < Overflow /\ Overflow \in Nat
  <1>1. Maximum \in Nat \ {0} /\ MaxStep \in Nat \ {0}
    BY TimeAssumption
  <1>2. 4 * (Maximum + MaxStep) < Overflow /\ Overflow \in Nat
    BY TimeAssumption
  <1> QED
    BY <1>1, <1>2

\* The commands in transit, d later.
LEMMA AfterStep ==
  ASSUME IInv, SilenceInv, NoneAtZero, up, NEW d \in 1 .. MaxStep, NEW t, t = Later(now, d),
         NEW s, s = Aged(sent, d)
  PROVE  /\ s \in Seq(Command) /\ Len(s) = Len(sent) /\ t \in Times /\ Starts(s, t)
         /\ \A i \in 1 .. Len(sent) : /\ Elapsed(t, s[i].time) = Elapsed(now, sent[i].time) + d
                                      /\ s[i].timeout = sent[i].timeout
                                      /\ s[i].time = sent[i].time
         /\ earliest # 0 => Elapsed(t, earliest) = Elapsed(now, earliest) + d
  <1>1. /\ d \in Nat /\ d <= MaxStep /\ d < Overflow /\ now \in Times /\ earliest \in Times
        /\ sent \in Seq(Command) /\ t \in Times
    <2>1. now \in Times /\ earliest \in Times /\ sent \in Seq(Command)
      BY DEF IInv, Types
    <2>2. d \in Nat /\ d <= MaxStep /\ d < Overflow
      BY Limits
    <2> QED
      BY <2>1, <2>2, Wrapped
  <1>2. /\ s \in Seq(Command) /\ Len(s) = Len(sent)
        /\ \A i \in 1 .. Len(sent) : s[i].time = sent[i].time /\ s[i].timeout = sent[i].timeout
    BY <1>1, AgedType
  <1>3. ASSUME NEW i \in 1 .. Len(sent)
        PROVE  /\ sent[i].time \in Times
               /\ Elapsed(now, sent[i].time) \in Nat /\ Elapsed(now, sent[i].time) < 2 * Maximum
               /\ Elapsed(t, sent[i].time) = Elapsed(now, sent[i].time) + d
               /\ Elapsed(t, sent[i].time) < Overflow
    <2>1. PICK e \in Times : e = sent[i].time
      <3>1. sent[i] \in Command
        BY <1>1
      <3> QED
        BY <3>1 DEF Command
    <2>2. PICK x \in Nat : x = Elapsed(now, e)
      BY <1>1, ElapsedIs
    <2>3. x < 2 * Maximum
      BY <2>1, <2>2 DEF SilenceInv, Recent
    <2>4. x + d < Overflow /\ x + d < Clock
      BY <1>1, <2>3, Limits, Clocks
    <2>5. Elapsed(t, e) = x + d
      BY <1>1, <2>2, <2>4, ElapsedLater
    <2> QED
      BY <2>1, <2>2, <2>3, <2>4, <2>5
  <1>4. ASSUME earliest # 0
        PROVE  /\ Elapsed(t, earliest) = Elapsed(now, earliest) + d
               /\ Elapsed(t, earliest) < Overflow
    <2>1. sent # <<>>
      BY <1>4 DEF SilenceInv, Waits
    <2>2. 1 \in 1 .. Len(sent)
      BY <1>1, <2>1
    <2>3. PICK y \in Nat : y = Elapsed(now, sent[1].time)
      BY <1>3, <2>2
    <2>4. y < 2 * Maximum
      BY <1>3, <2>2, <2>3
    <2>5. PICK x \in Nat : x = Elapsed(now, earliest)
      BY <1>1, ElapsedIs
    <2>6. x < Maximum + y
      BY <1>4, <2>3, <2>5 DEF SilenceInv, Waits
    <2>7. x + d < Overflow /\ x + d < Clock
      BY <1>1, <2>4, <2>6, Limits, Clocks
    <2>8. Elapsed(t, earliest) = x + d
      BY <1>1, <2>5, <2>7, ElapsedLater
    <2> QED
      BY <2>5, <2>7, <2>8
  <1>5. Ordered(s, t)
    <2>1. ASSUME NEW i \in 1 .. Len(sent), NEW j \in 1 .. Len(sent), i <= j
          PROVE  Elapsed(t, s[j].time) <= Elapsed(t, s[i].time)
      <3>1. PICK x \in Nat, y \in Nat :
              x = Elapsed(now, sent[i].time) /\ y = Elapsed(now, sent[j].time)
        BY <1>3
      <3>2. y <= x
        BY <2>1, <3>1 DEF SilenceInv, Ordered
      <3>3. Elapsed(t, s[i].time) = x + d /\ Elapsed(t, s[j].time) = y + d
        BY <1>2, <1>3, <3>1
      <3>4. y + d <= x + d
        BY <1>1, <3>2
      <3> QED
        BY <3>3, <3>4
    <2> QED
      BY <1>2, <2>1 DEF Ordered
  <1>6. Starts(s, t)
    <2>1. Short(s)
      BY <1>2 DEF SilenceInv, Short
    <2>2. \A i \in 1 .. Len(s) : s[i].time # 0 /\ Elapsed(t, s[i].time) < Overflow
      BY <1>2, <1>3 DEF NoneAtZero
    <2> QED
      BY <1>4, <1>5, <2>1, <2>2 DEF Starts
  <1> QED
    BY <1>1, <1>2, <1>3, <1>4, <1>6

\* What is left when the timeouts have been looked at, or were not due, at time t, d later.
Left(t, d, r) ==
  /\ Short(r.sent) /\ Recent(r.sent, t) /\ Ordered(r.sent, t)
  /\ Short(r.resend)
  /\ r.earliest # 0 =>
       /\ quiet + d <= Elapsed(t, r.earliest) + MaxStep
       /\ r.sent # <<>> \/ r.resend # <<>>
       /\ \/ Elapsed(t, r.earliest) < Maximum
          \/ r.sent # <<>> /\ Elapsed(t, r.earliest) < Maximum + Elapsed(t, r.sent[1].time)
  /\ r.earliest = 0 /\ sent # <<>> =>
       r.sent # <<>> /\ quiet + d <= Elapsed(t, r.sent[1].time) + MaxStep
  /\ sent = <<>> => r.sent = <<>> /\ r.resend = <<>> /\ r.earliest = 0

\* The timeouts are looked at: the first command is late.
LEMMA LeftAfterCheck ==
  ASSUME IInv, SilenceInv, NoneAtZero, up, NEW d \in 1 .. MaxStep, NEW t, t = Later(now, d),
         NEW s, s = Aged(sent, d), Due(t, s), NEW r, r = CheckTimeouts(t, s), ~r.giveUp
  PROVE  Left(t, d, r)
  <1>1. /\ s \in Seq(Command) /\ Len(s) = Len(sent) /\ t \in Times /\ Starts(s, t)
        /\ \A i \in 1 .. Len(sent) : /\ Elapsed(t, s[i].time) = Elapsed(now, sent[i].time) + d
                                     /\ s[i].timeout = sent[i].timeout
                                     /\ s[i].time = sent[i].time
        /\ earliest # 0 => Elapsed(t, earliest) = Elapsed(now, earliest) + d
    BY AfterStep
  <1>2. now \in Times /\ earliest \in Times /\ sent \in Seq(Command) /\ d \in Nat
    BY DEF IInv, Types
  <1>3. Looked(s, t, Len(s), r) /\ r \in Examined
    BY <1>1, LookedEnds DEF IInv
  <1>4. Len(s) > 0 /\ 1 \in 1 .. Len(s) /\ sent # <<>>
    <2>1. s # <<>>
      BY DEF Due
    <2> QED
      BY <1>1, <1>2, <2>1
  <1>5. PICK o \in Command : o = s[1]
    BY <1>1, <1>4
  <1>6. /\ Elapsed(t, o.time) < Overflow /\ o.timeout <= 2 * Maximum /\ o.timeout \in Nat
        /\ o.time \in Times
    <2>1. o.timeout \in Nat /\ o.time \in Times
      BY DEF Command
    <2> QED
      BY <1>1, <1>4, <1>5, <2>1 DEF Starts, Short
  <1>7. PICK x \in Nat : x = Elapsed(t, o.time)
    BY <1>1, <1>6, ElapsedIs
  <1>8. Late(s[1], t)
    <2>1. next = Deadline(o)
      <3>1. next = Deadline(sent[1])
        BY <1>4 DEF IInv, NextIsFirst
      <3> QED
        BY <1>1, <1>4, <1>5, <3>1 DEF Deadline
    <2>2. ~Less(t, Deadline(o))
      BY <2>1 DEF Due
    <2>3. o.timeout < Overflow
      BY <1>6, Limits
    <2>4. ~(x < o.timeout)
      BY <1>1, <1>6, <1>7, <2>2, <2>3, DueIs
    <2>5. Difference(t, o.time) = x
      BY <1>1, <1>6, <1>7, DifferenceIs
    <2> QED
      BY <1>5, <1>6, <1>7, <2>4, <2>5 DEF Late
  <1>9. PICK e \in Times : e = r.earliest
    BY <1>3 DEF Examined
  <1>10. /\ Back(e, t, x) /\ r.resend # <<>>
         /\ earliest # 0 => Back(e, t, Elapsed(t, earliest))
    BY <1>3, <1>4, <1>5, <1>7, <1>8, <1>9 DEF Looked, GoesBack
  <1>11. PICK y \in Nat : y = Elapsed(t, e)
    BY <1>1, ElapsedIs
  <1>12. e # 0 /\ y < Maximum /\ x <= y /\ Short(r.resend)
    BY <1>3, <1>9, <1>10, <1>11 DEF Looked, GoesOn, Back
  <1>13. quiet + d <= y + MaxStep
    <2>1. PICK w \in Nat : w = quiet
      BY DEF SilenceInv
    <2>2. CASE earliest = 0
      <3>1. PICK z : z = Elapsed(now, sent[1].time)
        OBVIOUS
      <3>2. z \in Nat
        <4>1. sent[1] \in Command
          BY <1>1, <1>2, <1>4
        <4>2. sent[1].time \in Times
          BY <4>1 DEF Command
        <4> QED
          BY <1>2, <3>1, <4>2, ElapsedIs
      <3>3. w <= z + MaxStep
        BY <1>4, <2>1, <2>2, <3>1 DEF SilenceInv, Waits
      <3>4. x = z + d
        BY <1>1, <1>4, <1>5, <1>7, <3>1
      <3> QED
        BY <1>2, <1>12, <2>1, <3>2, <3>3, <3>4, Limits
    <2>3. CASE earliest # 0
      <3>1. PICK z \in Nat : z = Elapsed(now, earliest)
        BY <1>2, ElapsedIs
      <3>2. w <= z + MaxStep
        BY <2>1, <2>3, <3>1 DEF SilenceInv, Waits
      <3>3. z + d <= y
        BY <1>1, <1>10, <1>11, <2>3, <3>1 DEF Back
      <3> QED
        BY <1>2, <2>1, <3>1, <3>2, <3>3, Limits
    <2> QED
      BY <2>2, <2>3
  <1>14. Short(r.sent) /\ Recent(r.sent, t) /\ Ordered(r.sent, t)
    BY <1>3 DEF Looked, Stays
  <1> QED
    BY <1>4, <1>9, <1>10, <1>11, <1>12, <1>13, <1>14 DEF Left

\* The timeouts are not due: the first command, and so each, has time left.
LEMMA LeftInTime ==
  ASSUME IInv, SilenceInv, NoneAtZero, up, NEW d \in 1 .. MaxStep, NEW t, t = Later(now, d),
         NEW s, s = Aged(sent, d), ~Due(t, s), NEW r, r = Unchecked(s)
  PROVE  Left(t, d, r)
  <1>1. /\ s \in Seq(Command) /\ Len(s) = Len(sent) /\ t \in Times /\ Starts(s, t)
        /\ \A i \in 1 .. Len(sent) : /\ Elapsed(t, s[i].time) = Elapsed(now, sent[i].time) + d
                                     /\ s[i].timeout = sent[i].timeout
                                     /\ s[i].time = sent[i].time
        /\ earliest # 0 => Elapsed(t, earliest) = Elapsed(now, earliest) + d
    BY AfterStep
  <1>2. /\ now \in Times /\ earliest \in Times /\ sent \in Seq(Command) /\ d \in Nat
        /\ d <= MaxStep
    <2>1. d \in Nat /\ d <= MaxStep
      BY Limits
    <2> QED
      BY <2>1 DEF IInv, Types
  <1>3. r.sent = s /\ r.resend = <<>> /\ r.earliest = earliest
    BY DEF Unchecked
  <1>4. Short(s) /\ Ordered(s, t) /\ Short(r.resend)
    BY <1>1, <1>3 DEF Starts, Short
  <1>5. PICK w \in Nat : w = quiet
    BY DEF SilenceInv
  <1>6. CASE sent = <<>>
    <2>1. s = <<>>
      BY <1>1, <1>6
    <2>2. earliest = 0
      BY <1>6 DEF SilenceInv, Waits
    <2>3. Recent(s, t)
      BY <2>1 DEF Recent
    <2> QED
      BY <1>3, <1>4, <1>6, <2>1, <2>2, <2>3 DEF Left
  <1>7. CASE sent # <<>>
    <2>1. Len(sent) > 0 /\ 1 \in 1 .. Len(sent) /\ s # <<>>
      BY <1>1, <1>2, <1>7
    <2>2. PICK o \in Command : o = s[1]
      BY <1>1, <2>1
    <2>3. /\ Elapsed(t, o.time) < Overflow /\ o.timeout <= 2 * Maximum /\ o.timeout \in Nat
          /\ o.time \in Times
      <3>1. o.timeout \in Nat /\ o.time \in Times
        BY DEF Command
      <3> QED
        BY <1>1, <2>1, <2>2, <3>1 DEF Starts, Short
    <2>4. PICK x \in Nat : x = Elapsed(t, o.time)
      BY <1>1, <2>3, ElapsedIs
    <2>5. x < 2 * Maximum
      <3>1. next = Deadline(o)
        <4>1. next = Deadline(sent[1])
          BY <1>7 DEF IInv, NextIsFirst
        <4> QED
          BY <1>1, <2>1, <2>2, <4>1 DEF Deadline
      <3>2. Less(t, Deadline(o))
        BY <2>1, <3>1 DEF Due
      <3>3. o.timeout < Overflow
        BY <2>3, Limits
      <3>4. x < o.timeout
        BY <1>1, <2>3, <2>4, <3>2, <3>3, DueIs
      <3> QED
        BY <2>3, <3>4, Limits
    <2>6. Recent(s, t)
      <3>1. ASSUME NEW i \in 1 .. Len(s)
            PROVE  Elapsed(t, s[i].time) < 2 * Maximum
        <4>1. Elapsed(t, s[i].time) <= x
          BY <1>1, <1>4, <2>1, <2>2, <2>4 DEF Ordered
        <4>2. s[i].time \in Times
          <5>1. s[i] \in Command
            BY <1>1
          <5> QED
            BY <5>1 DEF Command
        <4>3. PICK y \in Nat : y = Elapsed(t, s[i].time)
          BY <1>1, <4>2, ElapsedIs
        <4>4. y < 2 * Maximum
          BY <2>5, <4>1, <4>3, Limits
        <4> QED
          BY <4>3, <4>4
      <3> QED
        BY <3>1 DEF Recent
    <2>7. PICK z : z = Elapsed(now, sent[1].time)
      OBVIOUS
    <2>10. z \in Nat /\ x = z + d
      <3>1. sent[1] \in Command
        BY <1>2, <2>1
      <3>2. sent[1].time \in Times
        BY <3>1 DEF Command
      <3>3. Elapsed(now, sent[1].time) \in Nat
        BY <1>2, <3>2, ElapsedIs
      <3>4. x = Elapsed(now, sent[1].time) + d
        BY <1>1, <2>1, <2>2, <2>4
      <3> QED
        BY <2>7, <3>3, <3>4
    <2>8. CASE earliest = 0
      <3>1. w <= z + MaxStep
        BY <1>5, <1>7, <2>7, <2>8 DEF SilenceInv, Waits
      <3>2. w + d <= x + MaxStep
        BY <1>2, <2>10, <3>1, Limits
      <3> QED
        BY <1>3, <1>4, <1>5, <1>7, <2>1, <2>2, <2>4, <2>6, <2>8, <3>2 DEF Left
    <2>9. CASE earliest # 0
      <3>1. PICK y \in Nat : y = Elapsed(now, earliest)
        BY <1>2, ElapsedIs
      <3>2. w <= y + MaxStep /\ y < Maximum + z
        BY <1>5, <2>7, <2>9, <3>1 DEF SilenceInv, Waits
      <3>3. w + d <= (y + d) + MaxStep /\ y + d < Maximum + x
        BY <1>2, <2>10, <3>2, Limits
      <3>4. Elapsed(t, earliest) = y + d
        BY <1>1, <2>9, <3>1
      <3> QED
        BY <1>3, <1>4, <1>5, <1>7, <2>1, <2>2, <2>4, <2>6, <2>9, <3>3, <3>4 DEF Left
    <2> QED
      BY <2>8, <2>9
  <1> QED
    BY <1>6, <1>7

LEMMA NoCommand ==
  ASSUME NEW q \in Seq(Command), Len(q) = 0
  PROVE  q = <<>>
  OBVIOUS

LEMMA ServiceIsSilent ==
  ASSUME IInv, SilenceInv, NoneAtZero, ShortRoundTrips,
         NEW d \in 1 .. MaxStep, NEW k \in 0 .. MaxCommands, NEW first \in FirstTimeouts,
         Service(d, k, first), up'
  PROVE  SilenceInv'
  <1>1. PICK t : t = Later(now, d)
    OBVIOUS
  <1>2. PICK s : s = Aged(sent, d)
    OBVIOUS
  <1>3. PICK r : r = IF Due(t, s) THEN CheckTimeouts(t, s) ELSE Unchecked(s)
    OBVIOUS
  <1>4. PICK a : a = Aged(outgoing, d)
    OBVIOUS
  <1>5. PICK q : q = r.resend \o a
    OBVIOUS
  <1>6. PICK new : new = [i \in 1 .. k |-> Put(q[i], t, first)]
    OBVIOUS
  <1>7. PICK rest : rest = SubSeq(q, k + 1, Len(q))
    OBVIOUS
  <1>8. /\ up /\ k <= Len(q) /\ now' = t /\ up' = ~r.giveUp
        /\ q # <<>> /\ r.sent = <<>> => k > 0
        /\ quiet' = IF Unacknowledged = {} THEN 0 ELSE quiet + d
        /\ IF r.giveUp
           THEN outgoing' = <<>> /\ sent' = <<>> /\ UNCHANGED <<next, earliest>>
           ELSE /\ outgoing' = rest /\ sent' = r.sent \o new
                /\ next' = IF r.sent = <<>> /\ k > 0 THEN Deadline(new[1]) ELSE r.next
                /\ earliest' = r.earliest
    BY <1>1, <1>2, <1>3, <1>4, <1>5, <1>6, <1>7 DEF Service
  <1>9. /\ ~r.giveUp /\ outgoing' = rest /\ sent' = r.sent \o new /\ earliest' = r.earliest
    BY <1>8
  <1>10. /\ d \in Nat /\ d <= MaxStep /\ now \in Times /\ t \in Times
         /\ sent \in Seq(Command) /\ outgoing \in Seq(Command) /\ k \in Nat
    <2>1. now \in Times /\ sent \in Seq(Command) /\ outgoing \in Seq(Command)
      BY DEF IInv, Types
    <2>2. d \in Nat /\ d <= MaxStep /\ d < Overflow
      BY Limits
    <2> QED
      BY <1>1, <2>1, <2>2, Wrapped
  <1>11. Left(t, d, r)
    <2>1. CASE Due(t, s)
      BY <1>1, <1>2, <1>3, <1>8, <1>9, <2>1, LeftAfterCheck
    <2>2. CASE ~Due(t, s)
      BY <1>1, <1>2, <1>3, <1>8, <2>2, LeftInTime
    <2> QED
      BY <2>1, <2>2
  <1>12. PICK p \in Seq(Command), e \in Seq(Command), f \in Times :
           p = r.sent /\ e = r.resend /\ f = r.earliest
    <2>1. Loop(s, t, Len(s), r)
      BY <1>2, <1>3, <1>10, Checked
    <2> QED
      BY <2>1 DEF Loop, Examined
  <1>13. /\ Short(p) /\ Recent(p, t) /\ Ordered(p, t) /\ Short(e)
    BY <1>11, <1>12 DEF Left
  <1>14. a \in Seq(Command) /\ Len(a) = Len(outgoing) /\ Short(a)
    <2>1. /\ a \in Seq(Command) /\ Len(a) = Len(outgoing)
          /\ \A i \in 1 .. Len(outgoing) : a[i].timeout = outgoing[i].timeout
      BY <1>4, <1>10, AgedType
    <2> QED
      BY <1>8, <2>1 DEF SilenceInv, Short
  <1>15. q \in Seq(Command) /\ Len(q) = Len(e) + Len(a) /\ Short(q)
    <2>1. q = e \o a
      BY <1>5, <1>12
    <2>2. Join(e, a, q)
      BY <1>12, <1>14, <2>1, Joined
    <2>3. Short(q)
      BY <1>13, <1>14, <2>2 DEF Short, Join
    <2> QED
      BY <2>2, <2>3 DEF Join
  <1>16. k \in 0 .. Len(q)
    <2>1. Len(q) \in Nat
      BY <1>15
    <2> QED
      BY <1>8, <1>10, <2>1
  <1>17. PICK v : v = p \o new
    OBVIOUS
  <1>18. /\ v \in Seq(Command) /\ Short(v) /\ Short(rest) /\ Recent(v, t) /\ Ordered(v, t)
         /\ p # <<>> => v # <<>> /\ v[1] = p[1]
         /\ p = <<>> /\ k > 0 => v # <<>> /\ Elapsed(t, v[1].time) = 0
         /\ p = <<>> /\ k = 0 => v = <<>>
    <2>1. SendsOn(p, k, t, v, rest)
      BY <1>6, <1>7, <1>10, <1>12, <1>13, <1>15, <1>16, <1>17, SentOn
    <2> QED
      BY <2>1 DEF SendsOn
  <1>19. sent' = v /\ outgoing' = rest /\ now' = t /\ earliest' = f
    BY <1>8, <1>9, <1>12, <1>17
  <1>20. PICK w \in Nat, z \in Nat : w = quiet /\ z = quiet' /\ z <= w + d
    <2>1. PICK w \in Nat : w = quiet
      BY DEF SilenceInv
    <2>2. quiet' = 0 \/ quiet' = w + d
      BY <1>8, <2>1
    <2>3. w + d \in Nat /\ 0 <= w + d
      BY <1>10, <2>1
    <2> QED
      BY <2>1, <2>2, <2>3
  \* The time since the first command was sent.
  <1>21. ASSUME v # <<>>
         PROVE  Elapsed(t, v[1].time) \in Nat
    <2>1. v[1] \in Command
      BY <1>18, <1>21
    <2>2. v[1].time \in Times
      BY <2>1 DEF Command
    <2> QED
      BY <1>10, <2>2, ElapsedIs
  <1>22. ASSUME v = <<>>
         PROVE  z = 0 /\ f = 0
    <2>1. p = <<>> /\ k = 0
      <3>1. p = <<>>
        BY <1>18, <1>22
      <3>2. ~(k > 0)
        BY <1>18, <1>22, <3>1
      <3> QED
        BY <1>10, <3>1, <3>2
    <2>2. q = <<>>
      BY <1>8, <1>12, <2>1
    <2>3. e = <<>> /\ Len(a) = 0
      <3>1. PICK l \in Nat, m \in Nat : l = Len(e) /\ m = Len(a)
        BY <1>12, <1>14
      <3>2. l + m = 0
        BY <1>15, <2>2, <3>1
      <3>3. l = 0 /\ m = 0
        BY <3>2
      <3> QED
        BY <1>12, <3>1, <3>3, NoCommand
    <2>4. f = 0
      BY <1>11, <1>12, <2>1, <2>3 DEF Left
    <2>5. sent = <<>>
      BY <1>11, <1>12, <2>1, <2>4 DEF Left
    <2>6. outgoing = <<>>
      BY <1>10, <1>14, <2>3, NoCommand
    <2>7. Unacknowledged = {}
      <3>1. sent \o outgoing = <<>>
        BY <2>5, <2>6
      <3>2. Range(<<>>) = {}
        BY DEF Range
      <3> QED
        BY <3>1, <3>2 DEF Unacknowledged
    <2> QED
      BY <1>8, <1>20, <2>4, <2>7
  <1>23. ASSUME v # <<>>, f = 0
         PROVE  z <= Elapsed(t, v[1].time) + MaxStep
    <2>1. PICK x \in Nat : x = Elapsed(t, v[1].time)
      BY <1>21, <1>23
    <2>2. CASE sent = <<>>
      <3>1. w = 0
        BY <1>8, <1>20, <2>2 DEF SilenceInv, Waits
      <3> QED
        BY <1>10, <1>20, <2>1, <3>1, Limits
    <2>3. CASE sent # <<>>
      <3>1. p # <<>> /\ w + d <= Elapsed(t, p[1].time) + MaxStep
        BY <1>11, <1>12, <1>20, <1>23, <2>3 DEF Left
      <3>2. w + d <= x + MaxStep
        BY <1>18, <2>1, <3>1
      <3> QED
        BY <1>10, <1>20, <2>1, <3>2, Limits
    <2> QED
      BY <2>2, <2>3
  <1>24. ASSUME f # 0
         PROVE  /\ z <= Elapsed(t, f) + MaxStep
                /\ Elapsed(t, f) < Maximum + Elapsed(t, v[1].time)
    <2>1. PICK y \in Nat : y = Elapsed(t, f)
      BY <1>10, <1>12, ElapsedIs
    <2>2. v # <<>>
      BY <1>22, <1>24
    <2>3. PICK x \in Nat : x = Elapsed(t, v[1].time)
      BY <1>21, <2>2
    <2>4. /\ w + d <= y + MaxStep
          /\ \/ y < Maximum
             \/ p # <<>> /\ y < Maximum + Elapsed(t, p[1].time)
      BY <1>11, <1>12, <1>20, <1>24, <2>1 DEF Left
    <2>5. y < Maximum + x
      <3>1. CASE y < Maximum
        BY <2>1, <2>3, <3>1, Limits
      <3>2. CASE p # <<>> /\ y < Maximum + Elapsed(t, p[1].time)
        BY <1>18, <2>3, <3>2
      <3> QED
        BY <2>4, <3>1, <3>2
    <2>6. z <= y + MaxStep
      BY <1>10, <1>20, <2>1, <2>4, Limits
    <2> QED
      BY <2>1, <2>3, <2>5, <2>6
  <1>25. Waits'
    BY <1>19, <1>20, <1>22, <1>23, <1>24 DEF Waits, Elapsed
  <1>26. quiet' \in Nat /\ Short(sent') /\ Recent(sent', now') /\ Ordered(sent', now') /\ Short(outgoing')
    BY <1>18, <1>19, <1>20
  <1> QED
    BY <1>25, <1>26 DEF SilenceInv, Short, Recent, Ordered, Elapsed

LEMMA RemovedShort ==
  ASSUME NEW s \in Seq(Command), NEW i \in 1 .. Len(s), NEW w, w = RemoveAt(s, i), Short(s)
  PROVE  Short(w)
  <1>1. \A j \in 1 .. Len(w) : \E h \in 1 .. Len(s) : w[j] = s[h]
    BY Removed
  <1> QED
    BY <1>1 DEF Short

LEMMA RemovedInOrder ==
  ASSUME NEW s \in Seq(Command), NEW i \in 1 .. Len(s), NEW w, w = RemoveAt(s, i), NEW t,
         Recent(s, t), Ordered(s, t)
  PROVE  Recent(w, t) /\ Ordered(w, t)
  <1>1. PICK n \in Nat : n = Len(s)
    OBVIOUS
  <1>2. PICK p, q : p = SubSeq(s, 1, i - 1) /\ q = SubSeq(s, i + 1, n)
    OBVIOUS
  <1>3. p \in Seq(Command) /\ Len(p) = i - 1 /\ \A j \in 1 .. i - 1 : p[j] = s[j]
    BY <1>1, <1>2
  <1>4. q \in Seq(Command) /\ Len(q) = n - i /\ \A j \in 1 .. n - i : q[j] = s[i + j]
    BY <1>1, <1>2
  <1>5. w = p \o q
    BY <1>1, <1>2 DEF RemoveAt
  <1>6. /\ Len(w) = n - 1
        /\ \A j \in 1 .. i - 1 : w[j] = p[j]
        /\ \A j \in 1 .. n - i : w[(i - 1) + j] = q[j]
    BY <1>1, <1>3, <1>4, <1>5
  <1>7. PICK from : from = [j \in 1 .. n - 1 |-> IF j < i THEN j ELSE j + 1]
    OBVIOUS
  <1>8. ASSUME NEW j \in 1 .. n - 1
        PROVE  from[j] \in 1 .. n /\ w[j] = s[from[j]]
    <2>1. CASE j < i
      <3>1. from[j] = j /\ j \in 1 .. i - 1
        BY <1>7, <2>1
      <3> QED
        BY <1>3, <1>6, <3>1
    <2>2. CASE j >= i
      <3>1. from[j] = j + 1 /\ j + 1 - i \in 1 .. n - i
        BY <1>1, <1>7, <2>2
      <3>2. (i - 1) + (j + 1 - i) = j /\ i + (j + 1 - i) = j + 1
        BY <1>1, <2>2
      <3>3. w[j] = q[j + 1 - i]
        BY <1>6, <3>1, <3>2
      <3>4. q[j + 1 - i] = s[j + 1]
        BY <1>4, <3>1, <3>2
      <3> QED
        BY <3>1, <3>3, <3>4
    <2> QED
      BY <2>1, <2>2
  <1>9. ASSUME NEW j \in 1 .. n - 1, NEW l \in 1 .. n - 1, j <= l
        PROVE  from[j] <= from[l]
    BY <1>7, <1>9
  <1>10. Recent(w, t)
    BY <1>1, <1>6, <1>8 DEF Recent
  <1>11. Ordered(w, t)
    <2>1. ASSUME NEW j \in 1 .. n - 1, NEW l \in 1 .. n - 1, j <= l
          PROVE  Elapsed(t, w[l].time) <= Elapsed(t, w[j].time)
      <3>1. PICK g \in 1 .. n, h \in 1 .. n : g = from[j] /\ h = from[l] /\ g <= h
        BY <1>8, <1>9, <2>1
      <3>2. w[j] = s[g] /\ w[l] = s[h]
        BY <1>8, <3>1
      <3> QED
        BY <1>1, <3>1, <3>2 DEF Ordered
    <2> QED
      BY <1>6, <2>1 DEF Ordered
  <1> QED
    BY <1>10, <1>11

\* Nothing has been waited for when an acknowledgement has just arrived.
LEMMA AnsweredNow ==
  ASSUME NEW t \in Times, NEW s \in Seq(Command), s # <<>>
  PROVE  0 <= Elapsed(t, s[1].time) + MaxStep
  <1>1. s[1] \in Command
    OBVIOUS
  <1>2. s[1].time \in Times
    BY <1>1 DEF Command
  <1>3. PICK x \in Nat : x = Elapsed(t, s[1].time)
    BY <1>2, ElapsedIs
  <1> QED
    BY <1>3, Limits

LEMMA SendIsSilent ==
  ASSUME IInv, SilenceInv, Send
  PROVE  SilenceInv'
  <1>1. PICK q \in Seq(Command) : q = outgoing
    BY DEF IInv, Types
  <1>2. PICK w : w = Append(q, NewCommand)
    OBVIOUS
  <1>3. NewCommand \in Command /\ NewCommand.timeout <= 2 * Maximum
    <2>1. 0 \in Times
      BY Clocks DEF Times
    <2> QED
      BY <2>1, Limits DEF NewCommand, Command
  <1>4. /\ Len(w) = Len(q) + 1 /\ w[Len(q) + 1] = NewCommand
        /\ \A i \in 1 .. Len(q) : w[i] = q[i]
    BY <1>2, <1>3
  <1>5. up /\ outgoing' = w /\ UNCHANGED <<now, up, sent, next, earliest, quiet>>
    BY <1>1, <1>2 DEF Send
  <1>6. Short(w)
    <2>1. Short(q)
      BY <1>1, <1>5 DEF SilenceInv
    <2> QED
      BY <1>3, <1>4, <2>1 DEF Short
  <1>7. Short(outgoing')
    BY <1>5, <1>6
  <1> QED
    BY <1>5, <1>7 DEF SilenceInv, Waits, Short, Recent, Ordered, Elapsed

LEMMA AckIsSilent ==
  ASSUME IInv, SilenceInv, NEW i, AckSent(i) \/ AckResend(i) \/ AckAgain
  PROVE  SilenceInv'
  <1>1. PICK s \in Seq(Command), q \in Seq(Command) : s = sent /\ q = outgoing
    BY DEF IInv, Types
  <1>2. now \in Times
    BY DEF IInv, Types
  <1>3. earliest' = 0 /\ quiet' = 0 /\ now' = now /\ up' = up
    BY DEF AckSent, AckResend, AckAgain, EarliestAfterAck
  <1>4. PICK v \in Seq(Command) : /\ sent' = v
                                  /\ Short(v) /\ (up => Recent(v, now) /\ Ordered(v, now))
    <2>1. CASE AckSent(i)
      <3>1. PICK w : w = RemoveAt(s, i)
        OBVIOUS
      <3>2. i \in 1 .. Len(s) /\ sent' = w
        BY <1>1, <2>1, <3>1 DEF AckSent
      <3>3. w \in Seq(Command)
        BY <3>1, <3>2, Removed
      <3>4. Short(w) /\ (up => Recent(w, now) /\ Ordered(w, now))
        BY <1>1, <3>1, <3>2, RemovedShort, RemovedInOrder DEF SilenceInv
      <3> QED
        BY <3>2, <3>3, <3>4
    <2>2. CASE ~AckSent(i)
      <3>1. sent' = s
        BY <1>1, <2>2 DEF AckResend, AckAgain
      <3> QED
        BY <1>1, <3>1 DEF SilenceInv
    <2> QED
      BY <2>1, <2>2
  <1>5. PICK w \in Seq(Command) : outgoing' = w /\ Short(w)
    <2>1. CASE AckResend(i)
      <3>1. PICK w : w = RemoveAt(q, i)
        OBVIOUS
      <3>2. i \in 1 .. Len(q) /\ outgoing' = w
        BY <1>1, <2>1, <3>1 DEF AckResend
      <3>3. w \in Seq(Command)
        BY <3>1, <3>2, Removed
      <3>4. Short(w)
        BY <1>1, <3>1, <3>2, RemovedShort DEF SilenceInv
      <3> QED
        BY <3>2, <3>3, <3>4
    <2>2. CASE ~AckResend(i)
      <3>1. outgoing' = q
        BY <1>1, <2>2 DEF AckSent, AckAgain
      <3> QED
        BY <1>1, <3>1 DEF SilenceInv
    <2> QED
      BY <2>1, <2>2
  <1>6. v # <<>> => 0 <= Elapsed(now, v[1].time) + MaxStep
    BY <1>2, AnsweredNow
  <1>7. Waits'
    BY <1>3, <1>4, <1>6 DEF Waits, Elapsed
  <1>8. /\ Short(sent') /\ Short(outgoing')
        /\ up' => Recent(sent', now') /\ Ordered(sent', now')
    BY <1>3, <1>4, <1>5
  <1> QED
    BY <1>3, <1>7, <1>8 DEF SilenceInv, Short, Recent, Ordered, Elapsed

LEMMA SilenceStep ==
  ASSUME IInv, SilenceInv, NoneAtZero, ShortRoundTrips, [Next]_vars
  PROVE  SilenceInv'
  <1>1. CASE Send
    BY <1>1, SendIsSilent
  <1>2. ASSUME NEW d \in 1 .. MaxStep, NEW k \in 0 .. MaxCommands, NEW first \in FirstTimeouts,
               Service(d, k, first)
        PROVE  SilenceInv'
    <2>1. CASE up'
      BY <1>2, <2>1, ServiceIsSilent
    <2>2. CASE ~up'
      <3>1. PICK w \in Nat : w = quiet
        BY DEF SilenceInv
      <3>2. d \in Nat /\ w + d \in Nat
        BY Limits
      <3>3. quiet' = 0 \/ quiet' = w + d
        BY <1>2, <3>1 DEF Service
      <3>4. quiet' \in Nat
        BY <3>2, <3>3
      <3>5. outgoing' = <<>> /\ sent' = <<>>
        BY <1>2, <2>2 DEF Service
      <3> QED
        BY <2>2, <3>4, <3>5 DEF SilenceInv, Short
    <2> QED
      BY <2>1, <2>2
  <1>3. ASSUME NEW i \in 1 .. MaxCommands, AckSent(i) \/ AckResend(i)
        PROVE  SilenceInv'
    BY <1>3, AckIsSilent
  <1>4. CASE AckAgain
    BY <1>4, AckIsSilent
  <1>5. CASE UNCHANGED vars
    <2>1. UNCHANGED <<now, up, outgoing, sent, next, earliest, quiet>>
      BY <1>5 DEF vars
    <2> QED
      BY <2>1 DEF SilenceInv, Waits, Short, Recent, Ordered, Elapsed
  <1> QED
    BY <1>1, <1>2, <1>3, <1>4, <1>5 DEF Next

LEMMA Silence ==
  ASSUME ShortRoundTrips
  PROVE  Spec /\ []NoneAtZero => []SilenceInv
  <1>1. Init => SilenceInv
    <2>1. SUFFICES ASSUME Init
                   PROVE  SilenceInv
      OBVIOUS
    <2>2. sent = <<>> /\ outgoing = <<>> /\ quiet = 0 /\ earliest = 0 /\ Len(<<>>) = 0
      BY <2>1 DEF Init
    <2> QED
      BY <2>2 DEF SilenceInv, Waits, Short, Recent, Ordered
  <1>2. IInv /\ SilenceInv /\ NoneAtZero /\ [Next]_vars => SilenceInv'
    BY SilenceStep
  <1> QED
    BY <1>1, <1>2, Inductive, PTL DEF Spec

LEMMA EndsInTime ==
  ASSUME IInv, SilenceInv
  PROVE  SilenceEnds
  <1>1. SUFFICES ASSUME up
                 PROVE  quiet < 3 * Maximum + MaxStep
    BY DEF SilenceEnds
  <1>2. PICK w \in Nat : w = quiet
    BY DEF SilenceInv
  <1>3. CASE sent = <<>>
    <2>1. w = 0
      BY <1>1, <1>2, <1>3 DEF SilenceInv, Waits
    <2> QED
      BY <1>2, <2>1, Limits
  <1>4. CASE sent # <<>>
    <2>1. now \in Times /\ earliest \in Times /\ sent \in Seq(Command)
      BY DEF IInv, Types
    <2>2. sent[1].time \in Times /\ 1 \in 1 .. Len(sent)
      <3>1. sent[1] \in Command /\ 1 \in 1 .. Len(sent)
        BY <1>4, <2>1
      <3> QED
        BY <3>1 DEF Command
    <2>3. PICK x \in Nat, y \in Nat : x = Elapsed(now, sent[1].time) /\ y = Elapsed(now, earliest)
      BY <2>1, <2>2, ElapsedIs
    <2>4. x < 2 * Maximum
      BY <1>1, <2>2, <2>3 DEF SilenceInv, Recent
    <2>5. \/ w <= x + MaxStep
          \/ w <= y + MaxStep /\ y < Maximum + x
      BY <1>1, <1>2, <1>4, <2>3 DEF SilenceInv, Waits
    <2> QED
      BY <1>2, <2>4, <2>5, Limits
  <1> QED
    BY <1>3, <1>4

LEMMA TypesInTime ==
  ASSUME IInv, SilenceInv
  PROVE  TimeoutInv
  <1>1. PICK s \in Seq(Command), q \in Seq(Command) : s = sent /\ q = outgoing
    BY DEF IInv, Types
  <1>2. ASSUME NEW o \in Command, o.timeout <= 2 * Maximum
        PROVE  o \in CommandSet
    <2>1. o.timeout \in Nat
      BY DEF Command
    <2>2. o.timeout \in 0 .. Overflow
      BY <1>2, <2>1, Limits
    <2> QED
      BY <2>2 DEF Command, CommandSet
  <1>3. ASSUME NEW i \in DOMAIN s
        PROVE  s[i] \in CommandSet /\ s[i].timeout > 0
    <2>1. i \in 1 .. Len(s)
      BY <1>3
    <2>2. s[i] \in Command /\ s[i].timeout <= 2 * Maximum
      BY <1>1, <2>1 DEF SilenceInv, Short
    <2>3. s[i].timeout > 0
      BY <1>1, <2>1 DEF IInv, Ages
    <2> QED
      BY <1>2, <2>2, <2>3
  <1>4. ASSUME NEW i \in DOMAIN q
        PROVE  q[i] \in CommandSet
    <2>1. i \in 1 .. Len(q)
      BY <1>4
    <2>2. q[i] \in Command /\ q[i].timeout <= 2 * Maximum
      BY <1>1, <2>1 DEF SilenceInv, Short
    <2> QED
      BY <1>2, <2>2
  <1>5. now \in Times /\ next \in Times /\ earliest \in Times /\ up \in BOOLEAN /\ quiet \in Nat
    BY DEF IInv, Types, SilenceInv
  <1> QED
    BY <1>1, <1>3, <1>4, <1>5 DEF TypeOK, TimeoutInv, IInv

\* While nothing is acknowledged, each timeout that ends looks at timeoutMaximum, and the
\* next one is at most twice as long: a host that has fallen silent is given up within
\* three times timeoutMaximum and one late call, whatever the clock, the number of
\* commands and the order in which they wait behind each other.
THEOREM SilentHostGivenUp ==
  ASSUME ShortRoundTrips
  PROVE  Spec /\ []NoneAtZero => []SilenceEnds
  <1>1. IInv /\ SilenceInv => SilenceEnds
    BY EndsInTime
  <1> QED
    BY <1>1, Inductive, Silence, PTL

\* No timeout grows beyond twice timeoutMaximum, so that no deadline is as far away as
\* ENET_TIME_OVERFLOW, and nextTimeout is that of the first command.
THEOREM TimeoutsStayShort ==
  ASSUME ShortRoundTrips
  PROVE  Spec /\ []NoneAtZero => []TimeoutInv
  <1>1. IInv /\ SilenceInv => TimeoutInv
    BY TypesInTime
  <1> QED
    BY <1>1, Inductive, Silence, PTL

================================================================================
