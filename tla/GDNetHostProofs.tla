--------------------------- MODULE GDNetHostProofs ---------------------------
(***************************************************************************)
(* Proofs about GDNetHost for every number of peers, foreign hosts and     *)
(* messages and every queue capacity: mutual exclusion, the lifetime of    *)
(* the host and the mutexes, and the queues across bindings.  GDNetHost    *)
(* takes a queue operation for one step; that GDNetQueue justifies it, for *)
(* every buffer size, every set of items and either choice of the thread   *)
(* that clears, is proved in the second half.                              *)
(***************************************************************************)
EXTENDS GDNetHost, GDNetQueue, SequenceTheorems, TLAPS

\* The part of the state that decides who runs where.
Control ==
    /\ spc \in ScriptLabels /\ npc \in NetLabels
    /\ bound \in BOOLEAN /\ running \in BOOLEAN /\ mutexes \in BOOLEAN
    /\ access \in {NoThread, "script", "net"}
    /\ hostm \in {NoThread, "script", "net"}
    /\ MutexOwners
    /\ Lifetime

LEMMA ControlInit == Init => Control
  BY HostAssumption
  DEF Init, Control, ScriptLabels, NetLabels, MutexOwners, Lifetime, ScriptInside, NetInside

\* Steps of the script thread.
LEMMA ControlScript ==
  ASSUME Control, ScriptBegin \/ OpLockAccess \/ ScriptStep
  PROVE  Control'
  <1> USE HostAssumption DEF Control, ScriptLabels, NetLabels, MutexOwners, Lifetime,
          ScriptInside, NetInside, locks, queues
  <1>1. CASE Bind
    BY <1>1 DEF Bind
  <1>2. CASE UnbindStop
    BY <1>2 DEF UnbindStop
  <1>3. CASE UnbindJoin
    <2>1. MutexOwners'
      BY <1>3 DEF UnbindJoin
    <2>2. Lifetime'
      BY <1>3 DEF UnbindJoin
    <2>3. /\ spc' \in ScriptLabels /\ npc' \in NetLabels
          /\ bound' \in BOOLEAN /\ running' \in BOOLEAN /\ mutexes' \in BOOLEAN
          /\ access' \in {NoThread, "script", "net"}
          /\ hostm' \in {NoThread, "script", "net"}
      BY <1>3 DEF UnbindJoin
    <2> HIDE DEF MutexOwners, Lifetime
    <2> QED
      BY <2>1, <2>2, <2>3
  <1>4. CASE UnbindDestroy
    BY <1>4 DEF UnbindDestroy
  <1>5. CASE UnbindClear
    BY <1>5 DEF UnbindClear
  <1>6. CASE GetEvent \/ \E to \in Slots \cup {Everyone} : SendMessage(to)
    <2>1. UNCHANGED <<bound, running, mutexes, access, hostm, spc, npc>>
      BY <1>6 DEF GetEvent, SendMessage
    <2> QED
      BY <2>1
  <1>7. CASE \E op \in Ops, p \in Slots : OpBegin(op, p)
    BY <1>7 DEF OpBegin
  <1>8. CASE OpLockAccess
    BY <1>8 DEF OpLockAccess
  <1>9. CASE OpLockHost
    BY <1>9 DEF OpLockHost
  <1>10. CASE OpUnlockAccess
    BY <1>10 DEF OpUnlockAccess
  <1>11. CASE OpApply
    BY <1>11 DEF OpApply
  <1>12. CASE OpRelease
    BY <1>12 DEF OpRelease
  <1>13. CASE \E a \in Remotes : ConnectScan(a)
    BY <1>13 DEF ConnectScan
  <1>14. CASE ConnectClaim \/ ConnectReturn
    BY <1>14 DEF ConnectClaim, ConnectReturn
  <1> QED
    BY <1>1, <1>2, <1>3, <1>4, <1>6, <1>7, <1>8, <1>9, <1>10, <1>11, <1>12, <1>13, <1>14,
       <1>5
    DEF ScriptBegin, ScriptStep

\* Steps of the network thread.
LEMMA ControlNet ==
  ASSUME Control, NetStep \/ NetWork
  PROVE  Control'
  <1> USE HostAssumption DEF Control, ScriptLabels, NetLabels, MutexOwners, Lifetime,
          ScriptInside, NetInside, locks, queues
  <1>1. CASE NetCheck
    BY <1>1 DEF NetCheck
  <1>2. CASE NetLockAccess
    BY <1>2 DEF NetLockAccess
  <1>3. CASE NetLockHost
    BY <1>3 DEF NetLockHost
  <1>4. CASE NetUnlockAccess
    BY <1>4 DEF NetUnlockAccess
  <1>5. CASE NetSend \/ NetSent
    BY <1>5 DEF NetSend, NetSent
  <1>6. CASE NetServed \/ NetPush
    BY <1>6 DEF NetServed, NetPush
  <1>7. CASE NetRelease
    BY <1>7 DEF NetRelease
  <1>8. CASE \E a \in Remotes : NetClaim(a)
    BY <1>8 DEF NetClaim
  <1>9. CASE NetScan
    BY <1>9 DEF NetScan
  <1>10. CASE \E p \in Slots : NetServe(p)
    BY <1>10 DEF NetServe
  <1> QED
    BY <1>1, <1>2, <1>3, <1>4, <1>5, <1>6, <1>7, <1>8, <1>9, <1>10 DEF NetStep, NetWork

LEMMA ControlNext == Control /\ [Next]_vars => Control'
  <1>1. ASSUME Control, UNCHANGED vars PROVE Control'
    BY <1>1 DEF vars, Control, MutexOwners, Lifetime
  <1> QED
    BY <1>1, ControlScript, ControlNet DEF Next

LEMMA ControlInvariant == Spec => []Control
  BY ControlInit, ControlNext, PTL DEF Spec

\* A GDNetPeer operation and the network thread never run in ENet together.
THEOREM Exclusion == Spec => []GuardedExclusion
  <1>1. Control => GuardedExclusion
    BY HostAssumption DEF Control, MutexOwners, GuardedExclusion
  <1> QED
    BY <1>1, ControlInvariant, PTL

\* Neither thread uses the ENet host or a mutex that unbind() has deleted.
THEOREM HostOutlivesItsUsers == Spec => []Lifetime
  <1>1. Control => Lifetime
    BY DEF Control
  <1> QED
    BY <1>1, ControlInvariant, PTL

\* While the script waits for _hostMutex behind the turnstile, the network
\* thread cannot take the mutex before it.
THEOREM TurnstileHolds == Spec => Turnstile
  <1>1. Control /\ [Next]_vars => [spc = "host" => ~(npc = "host" /\ npc' = "unaccess")]_vars
    BY DEF Control, MutexOwners
  <1> QED
    BY <1>1, ControlInvariant, PTL DEF Spec, Turnstile

-----------------------------------------------------------------------------
(* Types, and the queues across bindings. *)

Event == [slot : Slots, kind : {"CONNECT", "DISCONNECT", "RECEIVE"}, binding : {0, 1}]
Message == [id : Nat, to : Slots \cup {Everyone}, binding : {0, 1}]

\* What the queues hold has the right type.
QueueTypes == /\ binding \in {0, 1}
              /\ pending \in Seq(Event) /\ evs \in Seq(Event) /\ msgs \in Seq(Message)
              /\ nextId \in Nat
              /\ call.slot \in Slots

QueueInv == Control /\ QueueTypes /\ QueuesBelong

\* A push keeps a queue of well-typed items of one binding.
LEMMA PushKeeps ==
  ASSUME NEW S, NEW queue \in Seq(S), NEW v \in S, NEW b,
         \A i \in 1 .. Len(queue) : queue[i].binding = b, v.binding = b
  PROVE  /\ Push(queue, v) \in Seq(S)
         /\ \A i \in 1 .. Len(Push(queue, v)) : Push(queue, v)[i].binding = b
  <1>1. CASE Len(queue) < QueueCap
    <2>1. Push(queue, v) = Append(queue, v)
      BY <1>1 DEF Push
    <2>2. /\ Append(queue, v) \in Seq(S)
          /\ Len(Append(queue, v)) = Len(queue) + 1
          /\ \A i \in 1 .. Len(queue) : Append(queue, v)[i] = queue[i]
          /\ Append(queue, v)[Len(queue) + 1] = v
      BY AppendProperties
    <2>3. Len(queue) \in Nat
      BY LenProperties
    <2> SUFFICES ASSUME NEW i \in 1 .. Len(queue) + 1
                 PROVE  Append(queue, v)[i].binding = b
      BY <2>1, <2>2
    <2>4. i \in 1 .. Len(queue) \/ i = Len(queue) + 1
      BY <2>3
    <2> QED
      BY <2>2, <2>4
  <1>2. CASE ~(Len(queue) < QueueCap)
    BY <1>2 DEF Push
  <1> QED
    BY <1>1, <1>2

\* Taking the head of a queue keeps it, too.
LEMMA TailKeeps ==
  ASSUME NEW S, NEW queue \in Seq(S), queue # <<>>, NEW b,
         \A i \in 1 .. Len(queue) : queue[i].binding = b
  PROVE  /\ Tail(queue) \in Seq(S)
         /\ \A i \in 1 .. Len(Tail(queue)) : Tail(queue)[i].binding = b
         /\ Head(queue) \in S
         /\ Head(queue).binding = b
         /\ Len(queue) = 1 <=> Tail(queue) = <<>>
  <1>1. /\ Head(queue) \in S
        /\ Tail(queue) \in Seq(S)
        /\ Len(Tail(queue)) = Len(queue) - 1
        /\ \A i \in 1 .. Len(Tail(queue)) : Tail(queue)[i] = queue[i + 1]
    BY HeadTailProperties
  <1>2. Len(queue) \in Nat /\ Len(queue) > 0
    BY EmptySeq, LenProperties
  <1>3. Head(queue) = queue[1]
    BY <1>2
  <1>4. \A i \in 1 .. Len(Tail(queue)) : i + 1 \in 1 .. Len(queue)
    BY <1>1, <1>2
  <1>5. Len(queue) = 1 <=> Tail(queue) = <<>>
    <2>1. Len(queue) = 1 <=> Len(Tail(queue)) = 0
      BY <1>1, <1>2
    <2>2. Tail(queue) = <<>> <=> Len(Tail(queue)) = 0
      BY <1>1, EmptySeq
    <2> QED
      BY <2>1, <2>2
  <1> QED
    BY <1>1, <1>2, <1>3, <1>4, <1>5

LEMMA QueueInit == Init => QueueInv
  <1> SUFFICES ASSUME Init PROVE QueueInv
    OBVIOUS
  <1>1. 0 \in Slots
    BY HostAssumption DEF Slots
  <1>2. QueueTypes
    BY <1>1, EmptySeq DEF Init, QueueTypes, NoCall
  <1>3. QueuesBelong
    BY EmptySeq DEF Init, QueuesBelong
  <1> QED
    BY <1>2, <1>3, ControlInit DEF QueueInv

\* Steps that leave the queues and the binding alone.
LEMMA QueueQuiet ==
  ASSUME QueueInv, Control', UNCHANGED <<binding, pending, evs, msgs, nextId>>,
         call'.slot \in Slots,
         spc' = "idle" /\ ~bound' => spc = "idle" /\ ~bound,
         npc' \notin {"service", "accept", "push"} =>
            npc \notin {"service", "accept", "push"} \/ pending = <<>>,
         npc' = "push" => npc = "push" \/ pending # <<>>
  PROVE  QueueInv'
  BY DEF QueueInv, QueueTypes, QueuesBelong

LEMMA QueueScript ==
  ASSUME QueueInv, Control', ScriptBegin \/ OpLockAccess \/ ScriptStep
  PROVE  QueueInv'
  <1>1. 0 \in Slots
    BY HostAssumption DEF Slots
  <1>2. CASE Bind
    <2>1. npc = "none" /\ spc = "idle" /\ ~bound
      BY <1>2 DEF Bind, QueueInv, Control, Lifetime
    <2>2. evs = <<>> /\ msgs = <<>> /\ pending = <<>>
      BY <2>1 DEF QueueInv, QueuesBelong
    <2>3. evs' = <<>> /\ msgs' = <<>> /\ pending' = <<>> /\ nextId' = nextId /\ call' = call
      BY <1>2, <2>2 DEF Bind, queues
    <2>4. QueueTypes'
      BY <1>2, <2>3, EmptySeq DEF Bind, QueueInv, QueueTypes
    <2>5. QueuesBelong'
      <3>1. npc' = "check"
        BY <1>2 DEF Bind
      <3> QED
        BY <2>3, <3>1, EmptySeq DEF QueuesBelong
    <2> QED
      BY <2>4, <2>5 DEF QueueInv
  <1>3. CASE UnbindStop \/ UnbindJoin \/ UnbindDestroy
    BY <1>3, QueueQuiet DEF UnbindStop, UnbindJoin, UnbindDestroy, queues, QueueInv,
       QueueTypes, QueuesBelong
  <1>4. CASE UnbindClear
    <2>1. evs' = <<>> /\ msgs' = <<>> /\ UNCHANGED <<pending, nextId, call, npc, binding>>
      BY <1>4 DEF UnbindClear
    <2>2. QueueTypes'
      BY <2>1, EmptySeq DEF QueueInv, QueueTypes
    <2>3. QueuesBelong'
      BY <2>1, EmptySeq DEF QueueInv, QueuesBelong
    <2> QED
      BY <2>2, <2>3 DEF QueueInv
  <1>5. CASE GetEvent
    <2>1. /\ evs # <<>> /\ evs' = Tail(evs)
          /\ UNCHANGED <<pending, msgs, nextId, call, npc, binding, spc, bound>>
      BY <1>5 DEF GetEvent
    <2>2. /\ Tail(evs) \in Seq(Event)
          /\ \A i \in 1 .. Len(Tail(evs)) : Tail(evs)[i].binding = binding
      BY <2>1, TailKeeps DEF QueueInv, QueueTypes, QueuesBelong
    <2>3. ~(spc = "idle" /\ ~bound)
      BY <2>1 DEF QueueInv, QueuesBelong
    <2>4. QueueTypes'
      BY <2>1, <2>2 DEF QueueInv, QueueTypes
    <2>5. QueuesBelong'
      BY <2>1, <2>2, <2>3 DEF QueueInv, QueuesBelong
    <2> QED
      BY <2>4, <2>5 DEF QueueInv
  <1>6. ASSUME NEW to \in Slots \cup {Everyone}, SendMessage(to) PROVE QueueInv'
    <2> DEFINE m == [id |-> nextId, to |-> to, binding |-> binding]
    <2>1. /\ msgs' = Push(msgs, m) /\ nextId' = nextId + 1 /\ bound
          /\ UNCHANGED <<pending, evs, call, npc, binding, spc, bound>>
      BY <1>6 DEF SendMessage
    <2>2. m \in Message /\ m.binding = binding
      BY <1>6 DEF Message, QueueInv, QueueTypes
    <2>3. /\ msgs' \in Seq(Message)
          /\ \A i \in 1 .. Len(msgs') : msgs'[i].binding = binding
      <3>1. msgs \in Seq(Message) /\ \A i \in 1 .. Len(msgs) : msgs[i].binding = binding
        BY DEF QueueInv, QueueTypes, QueuesBelong
      <3> HIDE DEF m
      <3>2. /\ Push(msgs, m) \in Seq(Message)
            /\ \A i \in 1 .. Len(Push(msgs, m)) : Push(msgs, m)[i].binding = binding
        BY <2>2, <3>1, PushKeeps
      <3> QED
        BY <2>1, <3>2
    <2>4. QueueTypes'
      BY <2>1, <2>3 DEF QueueInv, QueueTypes
    <2>5. QueuesBelong'
      BY <2>1, <2>3 DEF QueueInv, QueuesBelong
    <2> QED
      BY <2>4, <2>5 DEF QueueInv
  <1>7. CASE \E op \in Ops, p \in Slots : OpBegin(op, p)
    BY <1>7, QueueQuiet DEF OpBegin, queues
  <1>8. CASE OpLockAccess \/ OpLockHost \/ OpUnlockAccess \/ OpApply
    BY <1>8, QueueQuiet DEF OpLockAccess, OpLockHost, OpUnlockAccess, OpApply, queues,
       QueueInv, QueueTypes
  <1>9. CASE OpRelease \/ ConnectReturn
    <2>1. bound
      BY <1>9 DEF OpRelease, ConnectReturn, QueueInv, Control, Lifetime
    <2>2. UNCHANGED <<binding, pending, evs, msgs, nextId, bound, npc>> /\ call' = NoCall
      BY <1>9 DEF OpRelease, ConnectReturn, queues
    <2>3. call'.slot \in Slots
      BY <1>1, <2>2 DEF NoCall
    <2>4. npc' \notin {"service", "accept", "push"} => npc \notin {"service", "accept", "push"}
      BY <2>2
    <2>5. bound'
      BY <2>1, <2>2
    <2> QED
      BY <2>2, <2>3, <2>4, <2>5, QueueQuiet DEF QueueInv
  <1>10. CASE \E a \in Remotes : ConnectScan(a)
    BY <1>10, QueueQuiet DEF ConnectScan, queues
  <1>11. CASE ConnectClaim
    BY <1>11, QueueQuiet DEF ConnectClaim, queues, QueueInv, QueueTypes
  <1> QED
    BY <1>2, <1>3, <1>4, <1>5, <1>6, <1>7, <1>8, <1>9, <1>10, <1>11
    DEF ScriptBegin, ScriptStep

LEMMA QueueNet ==
  ASSUME QueueInv, Control', NetStep \/ NetWork
  PROVE  QueueInv'
  <1>1. CASE \/ NetCheck \/ NetLockAccess \/ NetLockHost \/ NetUnlockAccess
             \/ NetSent \/ NetServed \/ NetRelease \/ NetScan
             \/ \E a \in Remotes : NetClaim(a)
    BY <1>1, QueueQuiet DEF NetCheck, NetLockAccess, NetLockHost, NetUnlockAccess, NetSent,
       NetServed, NetRelease, NetScan, NetClaim, queues, QueueInv, QueueTypes
  <1>2. CASE NetSend
    <2>1. /\ msgs # <<>> /\ msgs' = Tail(msgs)
          /\ UNCHANGED <<pending, evs, nextId, call, npc, binding, spc, bound>>
      BY <1>2 DEF NetSend
    <2>2. /\ Tail(msgs) \in Seq(Message)
          /\ \A i \in 1 .. Len(Tail(msgs)) : Tail(msgs)[i].binding = binding
      BY <2>1, TailKeeps DEF QueueInv, QueueTypes, QueuesBelong
    <2>3. ~(spc = "idle" /\ ~bound)
      BY <2>1 DEF QueueInv, QueuesBelong
    <2>4. QueueTypes'
      BY <2>1, <2>2 DEF QueueInv, QueueTypes
    <2>5. QueuesBelong'
      BY <2>1, <2>2, <2>3 DEF QueueInv, QueuesBelong
    <2> QED
      BY <2>4, <2>5 DEF QueueInv
  <1>3. CASE NetPush
    <2>1. /\ evs' = Push(evs, Head(pending)) /\ pending' = Tail(pending)
          /\ npc = "push"
          /\ npc' = IF Len(pending) = 1 THEN "release" ELSE "push"
          /\ UNCHANGED <<msgs, nextId, call, binding, spc, bound>>
      BY <1>3 DEF NetPush
    <2>2. bound
      BY <2>1 DEF QueueInv, Control, Lifetime
    <2>3. pending # <<>>
      BY <2>1 DEF QueueInv, QueuesBelong
    <2>4. /\ Tail(pending) \in Seq(Event)
          /\ \A i \in 1 .. Len(Tail(pending)) : Tail(pending)[i].binding = binding
          /\ Head(pending) \in Event /\ Head(pending).binding = binding
          /\ Len(pending) = 1 <=> Tail(pending) = <<>>
      BY <2>3, TailKeeps, SMTT(30) DEF QueueInv, QueueTypes, QueuesBelong
    <2>5. /\ evs' \in Seq(Event)
          /\ \A i \in 1 .. Len(evs') : evs'[i].binding = binding
      <3>1. evs \in Seq(Event) /\ \A i \in 1 .. Len(evs) : evs[i].binding = binding
        BY DEF QueueInv, QueueTypes, QueuesBelong
      <3> DEFINE e == Head(pending)
      <3>2. e \in Event /\ e.binding = binding
        BY <2>4
      <3> HIDE DEF e
      <3>3. /\ Push(evs, e) \in Seq(Event)
            /\ \A i \in 1 .. Len(Push(evs, e)) : Push(evs, e)[i].binding = binding
        BY <3>1, <3>2, PushKeeps
      <3> QED
        BY <2>1, <3>3 DEF e
    <2>6. QueueTypes'
      BY <2>1, <2>4, <2>5 DEF QueueInv, QueueTypes
    <2>7. QueuesBelong'
      BY <2>1, <2>2, <2>4, <2>5 DEF QueueInv, QueuesBelong
    <2> QED
      BY <2>6, <2>7 DEF QueueInv
  <1>4. ASSUME NEW p \in Slots, NetServe(p) PROVE QueueInv'
    <2>1. /\ npc = "service" /\ npc' = npc
          /\ UNCHANGED <<msgs, evs, nextId, call, binding, spc, bound>>
      BY <1>4 DEF NetServe, queues
    <2>2. CASE pending' = pending
      BY <2>1, <2>2, QueueQuiet DEF QueueInv, QueueTypes
    <2>3. ASSUME NEW kind \in {"CONNECT", "DISCONNECT", "RECEIVE"}, Raise(p, kind)
          PROVE  QueueInv'
      <3> DEFINE e == [slot |-> p, kind |-> kind, binding |-> binding]
      <3>1. e \in Event /\ e.binding = binding
        BY <1>4, <2>3 DEF Event, QueueInv, QueueTypes
      <3>2. pending' = Append(pending, e)
        BY <2>3 DEF Raise
      <3>3. /\ pending \in Seq(Event)
            /\ \A i \in 1 .. Len(pending) : pending[i].binding = binding
        BY DEF QueueInv, QueueTypes, QueuesBelong
      <3>4. /\ pending' \in Seq(Event)
            /\ Len(pending') = Len(pending) + 1
            /\ \A i \in 1 .. Len(pending) : pending'[i] = pending[i]
            /\ pending'[Len(pending) + 1] = e
        <4> HIDE DEF e
        <4> QED
          BY <3>1, <3>2, <3>3, AppendProperties
      <3>5. \A i \in 1 .. Len(pending') : i \in 1 .. Len(pending) \/ i = Len(pending) + 1
        BY <3>3, <3>4, LenProperties
      <3>6. \A i \in 1 .. Len(pending') : pending'[i].binding = binding
        <4> HIDE DEF e
        <4> QED
          BY <3>1, <3>3, <3>4, <3>5
      <3>7. QueueTypes'
        BY <2>1, <3>4 DEF QueueInv, QueueTypes
      <3>8. QueuesBelong'
        BY <2>1, <3>6 DEF QueueInv, QueuesBelong
      <3> QED
        BY <3>7, <3>8 DEF QueueInv
    <2> QED
      BY <1>4, <2>2, <2>3
      DEF NetServe, Connected, Disconnected, Abandoned, Received, Transmitted
  <1> QED
    BY <1>1, <1>2, <1>3, <1>4 DEF NetStep, NetWork

LEMMA QueueNext == QueueInv /\ [Next]_vars => QueueInv'
  <1> SUFFICES ASSUME QueueInv, [Next]_vars PROVE QueueInv'
    OBVIOUS
  <1>1. Control'
    BY ControlNext DEF QueueInv
  <1>2. CASE UNCHANGED vars
    BY <1>1, <1>2, QueueQuiet DEF vars, QueueInv, QueueTypes
  <1> QED
    BY <1>1, <1>2, QueueScript, QueueNet DEF Next

\* No event and no message of one bind() is seen under another.
THEOREM QueuesBelongToBinding == Spec => []QueuesBelong
  <1>1. QueueInv => QueuesBelong
    BY DEF QueueInv
  <1> QED
    BY <1>1, QueueInit, QueueNext, PTL DEF Spec

-----------------------------------------------------------------------------
(* Types of the rest, and the order in which messages reach ENet. *)

Slot == [state : States, addr : Remotes \cup {NoAddress}, queued : BOOLEAN]
Call == [op : Ops \cup {"none", "connect"}, slot : Slots, addr : Remotes \cup {NoAddress}]

RestTypes == nslot \in Slots /\ call \in Call /\ slots \in [Slots -> Slot]
             /\ (spc = "op" => call.op \in Ops)
             /\ (spc \in {"access", "host", "unaccess"} => call.op \in Ops)

\* What the functions of ENet do to the slots keeps their type.
LEMMA SlotsKeepType ==
  ASSUME slots \in [Slots -> Slot], NEW p \in Slots
  PROVE  /\ \A s \in States : SetState(p, s) \in [Slots -> Slot]
         /\ Reset(p) \in [Slots -> Slot]
         /\ DisconnectSlot(p) \in [Slots -> Slot]
         /\ \A op \in Ops : Apply(op, p) \in [Slots -> Slot]
  <1>1. \A s \in States : SetState(p, s) \in [Slots -> Slot]
    BY DEF SetState, Slot
  <1>2. Reset(p) \in [Slots -> Slot]
    BY DEF Reset, Slot, States
  <1>3. [slots EXCEPT ![p].state = "DISCONNECTING", ![p].queued = FALSE] \in [Slots -> Slot]
    BY DEF Slot, States
  <1>4. DisconnectSlot(p) \in [Slots -> Slot]
    BY <1>2, <1>3 DEF DisconnectSlot
  <1>5. DisconnectSlotLater(p) \in [Slots -> Slot]
    BY <1>1, <1>4 DEF DisconnectSlotLater, States
  <1>6. \A op \in Ops : Apply(op, p) \in [Slots -> Slot]
    BY <1>2, <1>4, <1>5 DEF Apply, Ops
  <1> QED
    BY <1>1, <1>2, <1>4, <1>6

LEMMA RestInit == Init => RestTypes
  BY HostAssumption DEF Init, RestTypes, Slots, Slot, Call, NoCall, FreshSlot, States

LEMMA RestScript ==
  ASSUME RestTypes, Control, ScriptBegin \/ OpLockAccess \/ ScriptStep
  PROVE  RestTypes'
  <1> USE DEF RestTypes, queues, locks
  <1>1. [p \in Slots |-> FreshSlot] \in [Slots -> Slot]
    BY DEF FreshSlot, Slot, States
  <1>2. NoCall \in Call
    BY HostAssumption DEF NoCall, Call, Slots
  <1>3. CASE Bind \/ UnbindDestroy
    BY <1>1, <1>3 DEF Bind, UnbindDestroy
  <1>4. CASE UnbindStop \/ UnbindJoin \/ UnbindClear \/ GetEvent
             \/ \E to \in Slots \cup {Everyone} : SendMessage(to)
    BY <1>4 DEF UnbindStop, UnbindJoin, UnbindClear, GetEvent, SendMessage
  <1>5. ASSUME NEW op \in Ops, NEW p \in Slots, OpBegin(op, p) PROVE RestTypes'
    BY <1>5 DEF OpBegin, Call
  <1>6. CASE OpLockAccess \/ OpLockHost \/ OpUnlockAccess
    BY <1>6 DEF OpLockAccess, OpLockHost, OpUnlockAccess
  <1>7. CASE OpApply
    <2>1. call.op \in Ops /\ call.slot \in Slots
      BY <1>7 DEF OpApply, Call
    <2>2. slots' \in [Slots -> Slot]
      BY <1>7, <2>1, SlotsKeepType DEF OpApply
    <2> QED
      BY <1>7, <2>2 DEF OpApply
  <1>8. CASE OpRelease \/ ConnectReturn
    BY <1>2, <1>8 DEF OpRelease, ConnectReturn
  <1>9. ASSUME NEW a \in Remotes, ConnectScan(a) PROVE RestTypes'
    BY <1>9 DEF ConnectScan, Call
  <1>10. CASE ConnectClaim
    BY <1>10 DEF ConnectClaim, Call, Slot, States
  <1> QED
    BY <1>3, <1>4, <1>5, <1>6, <1>7, <1>8, <1>9, <1>10 DEF ScriptBegin, ScriptStep

LEMMA RestNet ==
  ASSUME RestTypes, NetStep \/ NetWork
  PROVE  RestTypes'
  <1> USE DEF RestTypes, queues, locks
  <1>1. CASE \/ NetCheck \/ NetLockAccess \/ NetLockHost \/ NetUnlockAccess
             \/ NetSent \/ NetServed \/ NetPush \/ NetRelease
    BY <1>1 DEF NetCheck, NetLockAccess, NetLockHost, NetUnlockAccess, NetSent, NetServed,
       NetPush, NetRelease
  <1>2. CASE NetSend
    <2>1. \A m : Accept(m) \in [Slots -> Slot]
      BY DEF Accept, Slot
    <2> QED
      BY <1>2, <2>1 DEF NetSend
  <1>3. CASE NetScan
    BY <1>3 DEF NetScan
  <1>4. ASSUME NEW a \in Remotes, NetClaim(a) PROVE RestTypes'
    <2>1. [slots EXCEPT ![nslot].state = "ACKNOWLEDGING_CONNECT", ![nslot].addr = a]
          \in [Slots -> Slot]
      BY DEF Slot, States
    <2>2. 0 \in Slots
      BY HostAssumption DEF Slots
    <2> QED
      BY <1>4, <2>1, <2>2 DEF NetClaim
  <1>5. ASSUME NEW p \in Slots, NetServe(p) PROVE RestTypes'
    <2>1. [slots EXCEPT ![p].queued = FALSE,
             ![p].state = IF @ = "DISCONNECT_LATER" THEN "DISCONNECTING" ELSE @]
          \in [Slots -> Slot]
      BY DEF Slot, States
    <2>2. slots' \in [Slots -> Slot]
      <3>1. CASE Connected(p)
        <4>1. "CONNECTED" \in States
          BY DEF States
        <4> QED
          BY <3>1, <4>1, SlotsKeepType DEF Connected
      <3>2. CASE Disconnected(p) \/ Abandoned(p)
        BY <3>2, SlotsKeepType DEF Disconnected, Abandoned
      <3>3. CASE Received(p)
        BY <3>3 DEF Received
      <3>4. CASE Transmitted(p)
        BY <2>1, <3>4 DEF Transmitted
      <3> QED
        BY <1>5, <3>1, <3>2, <3>3, <3>4 DEF NetServe
    <2> QED
      BY <1>5, <2>2 DEF NetServe
  <1> QED
    BY <1>1, <1>2, <1>3, <1>4, <1>5 DEF NetStep, NetWork

\* Numbers grow along what was handed to ENet and what waits, and the next one is larger.
Order ==
  /\ handed \in Seq(Nat)
  /\ \A i \in 1 .. Len(handed) : handed[i] < nextId
  /\ \A i, j \in 1 .. Len(handed) : i < j => handed[i] < handed[j]
  /\ \A i \in 1 .. Len(msgs) : msgs[i].id < nextId
  /\ \A i, j \in 1 .. Len(msgs) : i < j => msgs[i].id < msgs[j].id
  /\ \A i \in 1 .. Len(handed), j \in 1 .. Len(msgs) : handed[i] < msgs[j].id

LEMMA OrderInit == Init => Order
  BY EmptySeq DEF Init, Order

\* The numbers of the messages that wait are natural numbers.
LEMMA MessageIds ==
  ASSUME QueueTypes
  PROVE  Len(msgs) \in Nat /\ \A i \in 1 .. Len(msgs) : msgs[i].id \in Nat
  <1>1. Len(msgs) \in Nat /\ \A i \in 1 .. Len(msgs) : msgs[i] \in Message
    BY LenProperties, ElementOfSeq DEF QueueTypes
  <1> QED
    BY <1>1 DEF Message

\* A message joins the queue, if there is room.
LEMMA OrderSend ==
  ASSUME Order, QueueTypes, NEW to \in Slots \cup {Everyone}, SendMessage(to)
  PROVE  Order'
  <1> DEFINE m == [id |-> nextId, to |-> to, binding |-> binding]
  <1>1. m \in Message /\ m.id = nextId
    BY DEF Message, QueueTypes
  <1>2. msgs' = Push(msgs, m) /\ nextId' = nextId + 1 /\ handed' = handed
    BY DEF SendMessage
  <1> HIDE DEF m
  <1>3. CASE msgs' = msgs
    <2>1. \A i \in 1 .. Len(handed) : handed[i] \in Nat
      BY ElementOfSeq DEF Order
    <2>2. \A i \in 1 .. Len(msgs) : msgs[i].id \in Nat
      BY MessageIds
    <2>3. nextId \in Nat
      BY DEF QueueTypes
    <2>4. \A i \in 1 .. Len(handed) : handed[i] < nextId'
      BY <1>2, <2>1, <2>3 DEF Order
    <2>5. \A i \in 1 .. Len(msgs) : msgs[i].id < nextId'
      BY <1>2, <2>2, <2>3 DEF Order
    <2> QED
      BY <1>2, <1>3, <2>4, <2>5 DEF Order
  <1>4. CASE msgs' = Append(msgs, m)
    <2>1. /\ Len(msgs') = Len(msgs) + 1
          /\ \A i \in 1 .. Len(msgs) : msgs'[i] = msgs[i]
          /\ msgs'[Len(msgs) + 1] = m
          /\ Len(msgs) \in Nat
      BY <1>1, <1>4, AppendProperties, LenProperties DEF QueueTypes
    <2>2. \A i \in 1 .. Len(msgs') : i \in 1 .. Len(msgs) \/ i = Len(msgs) + 1
      BY <2>1
    <2>3. \A i \in 1 .. Len(msgs) : msgs[i].id \in Nat
      BY MessageIds
    <2>4. \A i \in 1 .. Len(handed) : handed[i] \in Nat
      BY ElementOfSeq DEF Order
    <2>5. nextId \in Nat
      BY DEF QueueTypes
    <2>6. \A i \in 1 .. Len(msgs') : msgs'[i].id < nextId'
      BY <1>1, <1>2, <2>1, <2>2, <2>3, <2>5 DEF Order
    <2>7. \A i, j \in 1 .. Len(msgs') : i < j => msgs'[i].id < msgs'[j].id
      BY <1>1, <2>1, <2>2 DEF Order
    <2>8. \A i \in 1 .. Len(handed'), j \in 1 .. Len(msgs') : handed'[i] < msgs'[j].id
      BY <1>1, <1>2, <2>1, <2>2 DEF Order
    <2>9. \A i \in 1 .. Len(handed') : handed'[i] < nextId'
      BY <1>2, <2>4, <2>5 DEF Order
    <2> QED
      BY <1>2, <2>6, <2>7, <2>8, <2>9 DEF Order
  <1> QED
    BY <1>2, <1>3, <1>4 DEF Push

\* A message leaves the queue, and is handed to ENet or is lost.
LEMMA OrderHandOff ==
  ASSUME Order, QueueTypes, NetSend
  PROVE  Order'
  <1>1. msgs # <<>> /\ msgs' = Tail(msgs) /\ nextId' = nextId
    BY DEF NetSend
  <1>2. /\ Len(msgs') = Len(msgs) - 1 /\ Len(msgs) \in Nat
        /\ \A i \in 1 .. Len(msgs') : msgs'[i] = msgs[i + 1] /\ i + 1 \in 1 .. Len(msgs)
        /\ 1 \in 1 .. Len(msgs)
        /\ msgs[1] \in Message
    <2>1. Len(msgs) \in Nat \ {0}
      BY <1>1, EmptySeq DEF QueueTypes
    <2>2. Len(Tail(msgs)) = Len(msgs) - 1 /\ \A i \in 1 .. Len(Tail(msgs)) : Tail(msgs)[i] = msgs[i + 1]
      BY <1>1, HeadTailProperties DEF QueueTypes
    <2>3. msgs[1] \in Message
      BY <2>1, ElementOfSeq DEF QueueTypes
    <2> QED
      BY <1>1, <2>1, <2>2, <2>3
  <1>3. \A i \in 1 .. Len(msgs) : msgs[i].id \in Nat
    BY MessageIds
  <1>4. \A i \in 1 .. Len(handed) : handed[i] \in Nat
    BY ElementOfSeq DEF Order
  <1>5. /\ \A i \in 1 .. Len(msgs') : msgs'[i].id < nextId'
        /\ \A i, j \in 1 .. Len(msgs') : i < j => msgs'[i].id < msgs'[j].id
    BY <1>1, <1>2 DEF Order
  <1>6. CASE handed' = handed
    <2>1. \A i \in 1 .. Len(handed'), j \in 1 .. Len(msgs') : handed'[i] < msgs'[j].id
      BY <1>2, <1>6 DEF Order
    <2> QED
      BY <1>1, <1>6, <1>5, <2>1 DEF Order
  <1>7. CASE handed' = Append(handed, Head(msgs).id)
    <2>1. Head(msgs) = msgs[1]
      BY <1>2
    <2>2. /\ handed' \in Seq(Nat)
          /\ Len(handed') = Len(handed) + 1 /\ Len(handed) \in Nat
          /\ \A i \in 1 .. Len(handed) : handed'[i] = handed[i]
          /\ handed'[Len(handed) + 1] = msgs[1].id
      BY <1>2, <1>3, <1>7, <2>1, AppendProperties, LenProperties DEF Order
    <2>3. \A i \in 1 .. Len(handed') : i \in 1 .. Len(handed) \/ i = Len(handed) + 1
      BY <2>2
    <2>4. \A i \in 1 .. Len(handed') : handed'[i] < nextId'
      BY <1>1, <1>2, <2>2, <2>3 DEF Order
    <2>5. \A i, j \in 1 .. Len(handed') : i < j => handed'[i] < handed'[j]
      <3> SUFFICES ASSUME NEW i \in 1 .. Len(handed'), NEW j \in 1 .. Len(handed'), i < j
                   PROVE  handed'[i] < handed'[j]
        OBVIOUS
      <3>1. i \in 1 .. Len(handed)
        BY <2>2
      <3>2. CASE j \in 1 .. Len(handed)
        BY <2>2, <3>1, <3>2 DEF Order
      <3>3. CASE j = Len(handed) + 1
        BY <1>2, <2>2, <3>1, <3>3 DEF Order
      <3> QED
        BY <2>3, <3>2, <3>3
    <2>6. \A j \in 1 .. Len(msgs') : msgs[1].id < msgs'[j].id
      BY <1>2 DEF Order
    <2>7. \A i \in 1 .. Len(handed'), j \in 1 .. Len(msgs') : handed'[i] < msgs'[j].id
      BY <1>2, <2>2, <2>3, <2>6 DEF Order
    <2> QED
      BY <1>5, <2>2, <2>4, <2>5, <2>7 DEF Order
  <1> QED
    BY <1>6, <1>7 DEF NetSend

LEMMA OrderNext ==
  ASSUME Order, QueueTypes, [Next]_vars
  PROVE  Order'
  <1>1. CASE UNCHANGED <<handed, nextId, msgs>>
    BY <1>1 DEF Order
  <1>2. CASE UnbindClear
    BY <1>2, EmptySeq DEF UnbindClear, Order
  <1>3. CASE ScriptBegin
    BY <1>1, <1>3, OrderSend DEF ScriptBegin, Bind, UnbindStop, GetEvent, OpBegin, ConnectScan,
       queues
  <1>4. CASE OpLockAccess \/ ScriptStep
    BY <1>1, <1>2, <1>4 DEF OpLockAccess, ScriptStep, UnbindJoin, UnbindDestroy, OpLockHost,
       OpUnlockAccess, OpApply, OpRelease, ConnectClaim, ConnectReturn, queues
  <1>5. CASE NetStep
    BY <1>1, <1>5, OrderHandOff DEF NetStep, NetCheck, NetLockAccess, NetLockHost,
       NetUnlockAccess, NetSent, NetServed, NetPush, NetRelease, NetClaim, queues
  <1>6. CASE NetWork
    BY <1>1, <1>6 DEF NetWork, NetScan, NetServe, queues
  <1>7. CASE UNCHANGED vars
    BY <1>1, <1>7 DEF vars
  <1> QED
    BY <1>3, <1>4, <1>5, <1>6, <1>7 DEF Next

\* The numbers in order, as OrderedHandOff reads them.
LEMMA OrderImplies == QueueTypes /\ Order => OrderedHandOff
  <1> SUFFICES ASSUME QueueTypes, Order PROVE OrderedHandOff
    OBVIOUS
  <1> DEFINE ids == [i \in 1 .. Len(msgs) |-> msgs[i].id]
             order == handed \o ids
  <1>1. Len(msgs) \in Nat /\ \A i \in 1 .. Len(msgs) : msgs[i].id \in Nat
    BY MessageIds
  <1>2. ids \in Seq(Nat) /\ Len(ids) = Len(msgs)
    BY <1>1
  <1>3. handed \in Seq(Nat) /\ Len(handed) \in Nat
    BY LenProperties DEF Order
  <1>4. /\ Len(order) = Len(handed) + Len(msgs)
        /\ \A i \in 1 .. Len(handed) + Len(msgs) :
             order[i] = IF i <= Len(handed) THEN handed[i] ELSE ids[i - Len(handed)]
    <2>1. /\ Len(order) = Len(handed) + Len(ids)
          /\ \A i \in 1 .. Len(handed) + Len(ids) :
               order[i] = IF i <= Len(handed) THEN handed[i] ELSE ids[i - Len(handed)]
      <3> HIDE DEF ids
      <3> QED
        BY <1>2, <1>3, ConcatProperties
    <2> HIDE DEF ids, order
    <2> QED
      BY <1>2, <2>1
  <1>5. \A i \in 1 .. Len(handed) + Len(msgs) :
          \/ i \in 1 .. Len(handed) /\ order[i] = handed[i]
          \/ i > Len(handed) /\ i - Len(handed) \in 1 .. Len(msgs)
             /\ order[i] = msgs[i - Len(handed)].id
    <2> SUFFICES ASSUME NEW i \in 1 .. Len(handed) + Len(msgs)
                 PROVE  \/ i \in 1 .. Len(handed) /\ order[i] = handed[i]
                        \/ i > Len(handed) /\ i - Len(handed) \in 1 .. Len(msgs)
                           /\ order[i] = msgs[i - Len(handed)].id
      OBVIOUS
    <2>1. CASE i <= Len(handed)
      BY <1>1, <1>3, <1>4, <2>1
    <2>2. CASE i > Len(handed)
      <3>1. i - Len(handed) \in 1 .. Len(msgs)
        BY <1>1, <1>3, <2>2
      <3>2. order[i] = ids[i - Len(handed)]
        BY <1>1, <1>3, <1>4, <2>2
      <3>3. ids[i - Len(handed)] = msgs[i - Len(handed)].id
        BY <3>1
      <3> QED
        BY <2>2, <3>1, <3>2, <3>3
    <2> QED
      BY <1>3, <2>1, <2>2
  <1> HIDE DEF ids, order
  <1>6. \A i, j \in 1 .. Len(order) : i < j => order[i] < order[j]
    <2> SUFFICES ASSUME NEW i \in 1 .. Len(handed) + Len(msgs),
                        NEW j \in 1 .. Len(handed) + Len(msgs), i < j
                 PROVE  order[i] < order[j]
      BY <1>4
    <2>1. CASE i \in 1 .. Len(handed) /\ order[i] = handed[i]
      BY <1>1, <1>3, <1>5, <2>1 DEF Order
    <2>2. CASE i > Len(handed)
      <3>1. i - Len(handed) < j - Len(handed) /\ j > Len(handed)
        BY <1>1, <1>3, <2>2
      <3> QED
        BY <1>1, <1>3, <1>5, <2>2, <3>1, SMTT(30) DEF Order
    <2> QED
      BY <1>5, <2>1, <2>2
  <1> QED
    BY <1>6 DEF OrderedHandOff, order, ids

(***************************************************************************)
(* Every variable keeps its type, and the messages of the one script       *)
(* thread reach ENet in the order of its send calls (gdnet_host.cpp:71-93),*)
(* each at most once, whatever the queue refuses and however often the     *)
(* host is bound again.                                                    *)
(***************************************************************************)
THEOREM HostInvariant == Spec => []HostInv
  <1> DEFINE IInv == QueueInv /\ RestTypes /\ Order
  <1>1. Init => IInv
    BY QueueInit, RestInit, OrderInit
  <1>2. IInv /\ [Next]_vars => IInv'
    <2> SUFFICES ASSUME IInv, [Next]_vars PROVE IInv'
      OBVIOUS
    <2>1. QueueInv'
      BY QueueNext
    <2>2. RestTypes'
      <3>1. CASE UNCHANGED vars
        BY <3>1 DEF RestTypes, vars
      <3> QED
        BY <3>1, RestScript, RestNet DEF Next, QueueInv
    <2>3. Order'
      BY OrderNext DEF QueueInv
    <2> QED
      BY <2>1, <2>2, <2>3
  <1>3. IInv => HostInv
    <2> SUFFICES ASSUME IInv PROVE HostInv
      OBVIOUS
    <2>1. TypeOK
      BY DEF TypeOK, QueueInv, Control, QueueTypes, RestTypes, Order, Event, Message, Slot, Call
    <2>2. OrderedHandOff
      BY OrderImplies DEF QueueInv
    <2> QED
      BY <2>1, <2>2 DEF HostInv
  <1> QED
    BY <1>1, <1>2, <1>3, PTL DEF Spec

-----------------------------------------------------------------------------
(* The queue (GDNetQueue): arithmetic of the positions. *)

\* A position that is moved by one stays in the buffer.
LEMMA AdvanceValue ==
  ASSUME NEW p \in 0 .. SIZE - 1
  PROVE  /\ Advance(p) = IF p = SIZE - 1 THEN 0 ELSE p + 1
         /\ Advance(p) \in 0 .. SIZE - 1
  BY SizeAssumption, SMT DEF Advance

\* The number of slots met from one position round to another.
LEMMA GapValue ==
  ASSUME NEW r \in 0 .. SIZE - 1, NEW w \in 0 .. SIZE - 1
  PROVE  /\ (w - r) % SIZE = IF w >= r THEN w - r ELSE w - r + SIZE
         /\ (w - r) % SIZE \in 0 .. SIZE - 1
  BY SizeAssumption, SMT

\* The slot that holds the i-th item.
LEMMA SlotValue ==
  ASSUME NEW r \in 0 .. SIZE - 1, NEW i \in 1 .. SIZE
  PROVE  /\ (r + i - 1) % SIZE = IF r + i - 1 < SIZE THEN r + i - 1
                                 ELSE r + i - 1 - SIZE
         /\ (r + i - 1) % SIZE \in 0 .. SIZE - 1
  BY SizeAssumption, SMT

\* size(), is_empty() and is_full() agree with the number of items stored.
LEMMA CountFacts ==
  ASSUME RingTypeOK
  PROVE  /\ Count \in 0 .. SIZE - 1
         /\ Size = Count
         /\ Empty <=> Count = 0
         /\ Full <=> Count = SIZE - 1
  <1>1. read_pos \in 0 .. SIZE - 1 /\ write_pos \in 0 .. SIZE - 1
    BY DEF RingTypeOK
  <1>2. Count = IF write_pos >= read_pos THEN write_pos - read_pos
                ELSE write_pos - read_pos + SIZE
    BY <1>1, GapValue DEF Count
  <1>3. Advance(write_pos) = IF write_pos = SIZE - 1 THEN 0 ELSE write_pos + 1
    BY <1>1, AdvanceValue
  <1> QED
    BY <1>1, <1>2, <1>3, SizeAssumption DEF Size, Empty, Full

-----------------------------------------------------------------------------
(* What moving an item does to the contents. *)

\* Storing an item in a queue that is not full appends it.
LEMMA PushContents ==
  ASSUME RingTypeOK, ~Full, item \in Items,
         items' = [items EXCEPT ![write_pos] = item],
         write_pos' = Advance(write_pos), read_pos' = read_pos
  PROVE  /\ Count' = Count + 1
         /\ Contents' = Append(Contents, item)
         /\ \A i \in 1 .. Count :
               items'[(read_pos + i - 1) % SIZE] = items[(read_pos + i - 1) % SIZE]
         /\ items'[(read_pos + Count) % SIZE] = item
  <1>1. /\ read_pos \in 0 .. SIZE - 1 /\ write_pos \in 0 .. SIZE - 1
        /\ items \in [0 .. SIZE - 1 -> Items \cup {Garbage}]
    BY DEF RingTypeOK
  <1>2. Count = IF write_pos >= read_pos THEN write_pos - read_pos
                ELSE write_pos - read_pos + SIZE
    BY <1>1, GapValue DEF Count
  <1>3. write_pos' = (IF write_pos = SIZE - 1 THEN 0 ELSE write_pos + 1)
        /\ write_pos' \in 0 .. SIZE - 1
    BY <1>1, AdvanceValue
  <1>4. Count' = IF write_pos' >= read_pos THEN write_pos' - read_pos
                 ELSE write_pos' - read_pos + SIZE
    BY <1>1, <1>3, GapValue DEF Count
  <1>5. Count \in 0 .. SIZE - 2
    BY CountFacts, SizeAssumption
  <1>6. Count' = Count + 1
    BY <1>1, <1>2, <1>3, <1>4, <1>5, SizeAssumption DEF Full
  <1>7. \A i \in 1 .. Count :
           /\ (read_pos + i - 1) % SIZE \in 0 .. SIZE - 1
           /\ (read_pos + i - 1) % SIZE # write_pos
    <2> SUFFICES ASSUME NEW i \in 1 .. Count
                 PROVE  /\ (read_pos + i - 1) % SIZE \in 0 .. SIZE - 1
                        /\ (read_pos + i - 1) % SIZE # write_pos
      OBVIOUS
    <2>1. i \in 1 .. SIZE
      BY <1>5, SizeAssumption
    <2>2. (read_pos + i - 1) % SIZE = IF read_pos + i - 1 < SIZE
                                      THEN read_pos + i - 1
                                      ELSE read_pos + i - 1 - SIZE
      BY <1>1, <2>1, SlotValue
    <2> HIDE DEF Count
    <2> QED
      BY <1>1, <1>2, <1>5, <2>1, <2>2, SizeAssumption
  <1>8. (read_pos + Count) % SIZE = write_pos
    <2>1. Count + 1 \in 1 .. SIZE
      BY <1>5, SizeAssumption
    <2>2. (read_pos + (Count + 1) - 1) % SIZE =
             IF read_pos + (Count + 1) - 1 < SIZE THEN read_pos + (Count + 1) - 1
             ELSE read_pos + (Count + 1) - 1 - SIZE
      BY <1>1, <2>1, SlotValue
    <2>3. read_pos + (Count + 1) - 1 = read_pos + Count
      BY <1>1, <1>5, SizeAssumption
    <2> QED
      BY <1>1, <1>2, <1>5, <2>2, <2>3, SizeAssumption
  <1>9. \A i \in 1 .. Count :
           items'[(read_pos + i - 1) % SIZE] = items[(read_pos + i - 1) % SIZE]
    BY <1>1, <1>7
  <1>10. items'[(read_pos + Count) % SIZE] = item
    BY <1>1, <1>8
  <1>11. Contents' = [i \in 1 .. Count + 1 |-> items'[(read_pos + i - 1) % SIZE]]
    BY <1>6 DEF Contents
  <1>12. Contents' = Append(Contents, item)
    <2>1. Contents \in Seq(Items \cup {Garbage}) /\ Len(Contents) = Count
      BY <1>1, <1>5, <1>7, SizeAssumption DEF Contents
    <2>2. \A i \in 1 .. Count + 1 :
             items'[(read_pos + i - 1) % SIZE] = Append(Contents, item)[i]
      <3> SUFFICES ASSUME NEW i \in 1 .. Count + 1
                   PROVE  items'[(read_pos + i - 1) % SIZE] = Append(Contents, item)[i]
        OBVIOUS
      <3>1. CASE i \in 1 .. Count
        <4>1. Contents[i] = items[(read_pos + i - 1) % SIZE]
          BY <3>1 DEF Contents
        <4>2. Append(Contents, item)[i] = Contents[i]
          BY <2>1, <3>1
        <4> QED
          BY <3>1, <4>1, <4>2, <1>9
      <3>2. CASE i = Count + 1
        <4>1. read_pos + i - 1 = read_pos + Count
          BY <1>1, <1>5, <3>2, SizeAssumption
        <4>2. Append(Contents, item)[i] = item
          BY <2>1, <3>2
        <4> QED
          BY <4>1, <4>2, <1>10
      <3>3. Count \in Nat
        BY <1>5, SizeAssumption
      <3>4. i \in 1 .. Count \/ i = Count + 1
        BY <3>3
      <3> QED
        BY <3>1, <3>2, <3>4
    <2>3. /\ Append(Contents, item) \in Seq(Items \cup {Garbage})
          /\ Len(Append(Contents, item)) = Count + 1
      BY <2>1, AppendProperties
    <2>4. Append(Contents, item) = [i \in 1 .. Count + 1 |-> Append(Contents, item)[i]]
      BY <2>3, LenProperties
    <2> QED
      BY <2>2, <2>4, <1>11
  <1> QED
    BY <1>6, <1>9, <1>10, <1>12

\* Moving read_pos on, in a queue that is not empty, removes the oldest item.
LEMMA PopContents ==
  ASSUME RingTypeOK, ~Empty, items' = items, write_pos' = write_pos,
         read_pos' = Advance(read_pos)
  PROVE  /\ Count' = Count - 1
         /\ Contents # <<>>
         /\ items[read_pos] = Head(Contents)
         /\ items[read_pos] = items[(read_pos + 1 - 1) % SIZE]
         /\ Contents' = Tail(Contents)
         /\ \A i \in 1 .. Count' :
               items[(read_pos' + i - 1) % SIZE] = items[(read_pos + (i + 1) - 1) % SIZE]
  <1>1. /\ read_pos \in 0 .. SIZE - 1 /\ write_pos \in 0 .. SIZE - 1
        /\ items \in [0 .. SIZE - 1 -> Items \cup {Garbage}]
    BY DEF RingTypeOK
  <1>2. Count = IF write_pos >= read_pos THEN write_pos - read_pos
                ELSE write_pos - read_pos + SIZE
    BY <1>1, GapValue DEF Count
  <1>3. read_pos' = (IF read_pos = SIZE - 1 THEN 0 ELSE read_pos + 1)
        /\ read_pos' \in 0 .. SIZE - 1
    BY <1>1, AdvanceValue
  <1>4. Count' = IF write_pos >= read_pos' THEN write_pos - read_pos'
                 ELSE write_pos - read_pos' + SIZE
    BY <1>1, <1>3, GapValue DEF Count
  <1>5. Count \in 1 .. SIZE - 1
    BY CountFacts, SizeAssumption
  <1>6. Count' = Count - 1
    BY <1>1, <1>2, <1>3, <1>4, <1>5, SizeAssumption DEF Empty
  <1>7. (read_pos + 1 - 1) % SIZE = read_pos
    BY <1>1, SizeAssumption, SlotValue
  <1>8. \A i \in 1 .. Count' :
           (read_pos' + i - 1) % SIZE = (read_pos + (i + 1) - 1) % SIZE
    <2> SUFFICES ASSUME NEW i \in 1 .. Count'
                 PROVE  (read_pos' + i - 1) % SIZE = (read_pos + (i + 1) - 1) % SIZE
      OBVIOUS
    <2>1. i \in 1 .. SIZE /\ i + 1 \in 1 .. SIZE
      BY <1>5, <1>6, SizeAssumption
    <2>2. (read_pos' + i - 1) % SIZE = IF read_pos' + i - 1 < SIZE
                                       THEN read_pos' + i - 1
                                       ELSE read_pos' + i - 1 - SIZE
      BY <1>3, <2>1, SlotValue
    <2>3. (read_pos + (i + 1) - 1) % SIZE = IF read_pos + (i + 1) - 1 < SIZE
                                            THEN read_pos + (i + 1) - 1
                                            ELSE read_pos + (i + 1) - 1 - SIZE
      BY <1>1, <2>1, SlotValue
    <2> QED
      BY <1>1, <1>3, <2>1, <2>2, <2>3, SizeAssumption
  <1>9. \A i \in 1 .. Count : (read_pos + i - 1) % SIZE \in 0 .. SIZE - 1
    BY <1>1, <1>5, SizeAssumption, SlotValue
  <1>10. Contents \in Seq(Items \cup {Garbage}) /\ Len(Contents) = Count
    BY <1>1, <1>5, <1>9, SizeAssumption DEF Contents
  <1>11. Contents # <<>> /\ Head(Contents) = items[read_pos]
    BY <1>5, <1>7, <1>10 DEF Contents
  <1>12. Contents' = [i \in 1 .. Count - 1 |-> items[(read_pos' + i - 1) % SIZE]]
    BY <1>6 DEF Contents
  <1>13. \A i \in 1 .. Count - 1 : items[(read_pos' + i - 1) % SIZE] = Contents[i + 1]
    BY <1>5, <1>6, <1>8 DEF Contents
  <1>14. Tail(Contents) = [i \in 1 .. Count - 1 |-> Contents[i + 1]]
    <2>1. /\ Tail(Contents) \in Seq(Items \cup {Garbage})
          /\ Len(Tail(Contents)) = Count - 1
          /\ \A i \in 1 .. Len(Tail(Contents)) : Tail(Contents)[i] = Contents[i + 1]
      BY <1>10, <1>11, HeadTailProperties
    <2>2. Tail(Contents) = [i \in 1 .. Count - 1 |-> Tail(Contents)[i]]
      BY <2>1, LenProperties
    <2> QED
      BY <2>1, <2>2
  <1> QED
    BY <1>6, <1>7, <1>8, <1>11, <1>12, <1>13, <1>14

-----------------------------------------------------------------------------
(* The inductive invariant. *)

\* Steps that move no item keep everything said about positions and slots.
LEMMA SamePositions ==
  ASSUME LiveSlots, UNCHANGED <<items, read_pos, write_pos>>
  PROVE  /\ Count' = Count /\ Size' = Size
         /\ Full' = Full /\ Empty' = Empty
         /\ Contents' = Contents
         /\ LiveSlots'
  BY DEF Count, Size, Full, Empty, Advance, Contents, LiveSlots

LEMMA RingInvInit == RingInit => RingInv
  <1> SUFFICES ASSUME RingInit PROVE RingInv
    OBVIOUS
  <1>1. RingTypeOK
    BY SizeAssumption DEF RingInit, RingTypeOK, Threads, Labels
  <1>2. Count = 0
    BY <1>1, CountFacts DEF RingInit, Empty
  <1>3. CountIsAPromise /\ LiveSlots
    BY <1>2 DEF RingInit, CountIsAPromise, LiveSlots
  <1> QED
    BY <1>1, <1>3, ThreadAssumption
    DEF RingInit, RingInv, CheckStillHolds, MutexProtocol, Discipline, Threads, Holding

\* The steps that only lock, unlock and decide.
LEMMA RingInvQuiet ==
  ASSUME RingInv,
         \/ \E v \in Items : IsFullLock(v)
         \/ IsFullRead \/ PushLock
         \/ IsEmptyLock \/ IsEmptyRead \/ PopLock
         \/ SizeLock \/ SizeRead
         \/ ClearLock \/ ClearUnlock
  PROVE  RingInv'
  <1> USE ThreadAssumption DEF RingInv, Lock, CanLock, Unlock, Goto, CanBegin, Clearing
  <1>1. UNCHANGED <<items, read_pos, write_pos>>
    BY DEF IsFullLock, IsFullRead, PushLock, IsEmptyLock, IsEmptyRead, PopLock,
           SizeLock, SizeRead, ClearLock, ClearUnlock
  <1>2. /\ Count' = Count /\ Size' = Size
        /\ Full' = Full /\ Empty' = Empty
        /\ LiveSlots'
    BY <1>1, SamePositions
  <1>3. Count \in 0 .. SIZE - 1 /\ Size = Count
    BY CountFacts
  <1>4. RingTypeOK'
    BY <1>1, <1>3, SizeAssumption
    DEF RingTypeOK, Discipline, Threads, Labels, IsFullLock, IsFullRead, PushLock,
        IsEmptyLock, IsEmptyRead, PopLock, SizeLock, SizeRead, ClearLock, ClearUnlock
  <1>5. CheckStillHolds'
    BY <1>2 DEF CheckStillHolds, RingTypeOK, Threads, IsFullLock, IsFullRead, PushLock,
        IsEmptyLock, IsEmptyRead, PopLock, SizeLock, SizeRead, ClearLock, ClearUnlock
  <1>6. MutexProtocol'
    BY DEF MutexProtocol, Discipline, Holding, RingTypeOK, Threads, IsFullLock, IsFullRead,
        PushLock, IsEmptyLock, IsEmptyRead, PopLock, SizeLock, SizeRead, ClearLock,
        ClearUnlock
  <1>7. CountIsAPromise'
    BY <1>2, <1>3 DEF CountIsAPromise, RingTypeOK, IsFullLock, IsFullRead, PushLock,
        IsEmptyLock, IsEmptyRead, PopLock, SizeLock, SizeRead, ClearLock, ClearUnlock
  <1>8. Discipline'
    BY DEF MutexProtocol, Discipline, Holding, RingTypeOK, Threads, IsFullLock, IsFullRead,
        PushLock, IsEmptyLock, IsEmptyRead, PopLock, SizeLock, SizeRead, ClearLock,
        ClearUnlock
  <1> QED
    BY <1>2, <1>4, <1>5, <1>6, <1>7, <1>8

LEMMA RingInvPushStore == RingInv /\ PushStore => RingInv'
  <1> SUFFICES ASSUME RingInv, PushStore PROVE RingInv'
    OBVIOUS
  <1> USE ThreadAssumption DEF RingInv, Unlock, Goto
  <1>1. item \in Items /\ ~Full /\ pc["producer"] = "store"
    BY DEF PushStore, Discipline, CheckStillHolds
  <1>2. /\ Count' = Count + 1
        /\ \A i \in 1 .. Count :
              items'[(read_pos + i - 1) % SIZE] = items[(read_pos + i - 1) % SIZE]
        /\ items'[(read_pos + Count) % SIZE] = item
    BY <1>1, PushContents DEF PushStore
  <1>3. Count \in Nat /\ read_pos \in Nat
    BY CountFacts, SizeAssumption DEF RingTypeOK
  <1>4. RingTypeOK'
    BY <1>1, AdvanceValue DEF PushStore, RingTypeOK, Threads, Labels
  <1>5. CheckStillHolds'
    <2>1. Count' # 0
      BY <1>2, <1>3
    <2>2. ~Empty'
      <3>1. (Empty <=> Count = 0)'
        BY <1>4, CountFacts, PTL
      <3> QED
        BY <2>1, <3>1
    <2> QED
      BY <2>2 DEF CheckStillHolds, PushStore, RingTypeOK, Threads
  <1>6. MutexProtocol'
    BY DEF PushStore, MutexProtocol, Discipline, Holding, RingTypeOK, Threads
  <1>7. CountIsAPromise'
    BY <1>2, <1>3 DEF PushStore, CountIsAPromise, RingTypeOK
  <1>8. Discipline'
    BY DEF PushStore, Discipline, RingTypeOK, Threads
  <1>9. LiveSlots'
    <2> SUFFICES ASSUME NEW i \in 1 .. Count + 1
                 PROVE  items'[(read_pos + i - 1) % SIZE] \in Items
      BY <1>2 DEF LiveSlots, PushStore
    <2>1. CASE i \in 1 .. Count
      BY <2>1, <1>2 DEF LiveSlots
    <2>2. CASE i = Count + 1
      <3>1. read_pos + i - 1 = read_pos + Count
        BY <2>2, <1>3
      <3> QED
        BY <3>1, <1>1, <1>2
    <2>3. i \in 1 .. Count \/ i = Count + 1
      BY <1>3
    <2> QED
      BY <2>1, <2>2, <2>3
  <1> QED
    BY <1>4, <1>5, <1>6, <1>7, <1>8, <1>9

\* pop() and the loop of clear() both move read_pos past a stored item.
LEMMA RingInvAdvanceRead ==
  ASSUME RingInv, PopTake \/ ClearPop
  PROVE  RingInv'
  <1> USE ThreadAssumption DEF RingInv, Unlock, Goto, Clearing
  <1>1. ~Empty
    BY DEF PopTake, ClearPop, CheckStillHolds
  <1>2. /\ items' = items /\ write_pos' = write_pos
        /\ read_pos' = Advance(read_pos)
    BY DEF PopTake, ClearPop
  <1>3. /\ Count' = Count - 1
        /\ items[read_pos] = items[(read_pos + 1 - 1) % SIZE]
        /\ \A i \in 1 .. Count' :
              items[(read_pos' + i - 1) % SIZE] = items[(read_pos + (i + 1) - 1) % SIZE]
    BY <1>1, <1>2, PopContents
  <1>4. Count \in 1 .. SIZE - 1
    BY <1>1, CountFacts, SizeAssumption
  <1>5. items[read_pos] \in Items
    BY <1>3, <1>4 DEF LiveSlots
  <1>6. RingTypeOK'
    <2>1. read_pos' \in 0 .. SIZE - 1
      BY <1>2, AdvanceValue DEF RingTypeOK
    <2>2. promised' \in 0 .. SIZE - 1
      BY SizeAssumption DEF PopTake, ClearPop, RingTypeOK
    <2>3. CASE PopTake
      BY <2>1, <2>2, <2>3, <1>5 DEF PopTake, RingTypeOK, Threads, Labels
    <2>4. CASE ClearPop
      BY <2>1, <2>2, <2>4 DEF ClearPop, RingTypeOK
    <2> QED
      BY <2>3, <2>4
  <1>7. CheckStillHolds'
    <2>1. Count' # SIZE - 1
      BY <1>3, <1>4, SizeAssumption
    <2>2. (Full <=> Count = SIZE - 1)'
      BY <1>6, CountFacts, PTL
    <2>3. ~Full'
      BY <2>1, <2>2
    <2>4. pc'["consumer"] \notin {"pop", "take"}
      BY DEF PopTake, ClearPop, Discipline, RingTypeOK, Threads
    <2> QED
      BY <2>3, <2>4 DEF CheckStillHolds
  <1>8. MutexProtocol'
    BY DEF PopTake, ClearPop, MutexProtocol, Discipline, Holding, RingTypeOK, Threads
  <1>9. CountIsAPromise'
    <2>1. CASE PopTake
      BY <2>1, <1>3, <1>4, SizeAssumption DEF PopTake, CountIsAPromise, RingTypeOK
    <2>2. CASE ClearPop
      BY <2>2, <1>3, <1>4, SizeAssumption
      DEF ClearPop, CountIsAPromise, Discipline, RingTypeOK
    <2> QED
      BY <2>1, <2>2
  <1>10. Discipline'
    BY DEF PopTake, ClearPop, Discipline, RingTypeOK, Threads
  <1>11. LiveSlots'
    <2> SUFFICES ASSUME NEW i \in 1 .. Count'
                 PROVE  items[(read_pos' + i - 1) % SIZE] \in Items
      BY <1>2 DEF LiveSlots
    <2>1. i + 1 \in 1 .. Count
      BY <1>3, <1>4, SizeAssumption
    <2> QED
      BY <2>1, <1>3 DEF LiveSlots
  <1> QED
    BY <1>6, <1>7, <1>8, <1>9, <1>10, <1>11

LEMMA RingInvNext == RingInv /\ [RingNext]_ringVars => RingInv'
  <1> SUFFICES ASSUME RingInv, [RingNext]_ringVars PROVE RingInv'
    OBVIOUS
  <1>1. CASE UNCHANGED ringVars
    <2>1. LiveSlots' /\ Count' = Count /\ Full' = Full /\ Empty' = Empty
      BY <1>1, SamePositions DEF ringVars, RingInv
    <2> QED
      BY <1>1, <2>1 DEF RingInv, ringVars, RingTypeOK, CheckStillHolds, MutexProtocol,
                        CountIsAPromise, Discipline
  <1> QED
    BY <1>1, RingInvQuiet, RingInvPushStore, RingInvAdvanceRead DEF RingNext

\* The ring buffer's invariant holds in every reachable state, for every
\* SIZE: the positions stay inside the buffer, no two threads are in a
\* critical section, what is_full() and is_empty() answered still holds when
\* push() and pop() act on it, and a slot that is read has been written.
THEOREM RingInvariant == RingSpec => []RingInv
  BY RingInvInit, RingInvNext, PTL DEF RingSpec

\* The positions of push() and pop() never leave items[], and every other
\* variable keeps its type.
THEOREM RingTypesHold == RingSpec => []RingTypeOK
  <1>1. RingInv => RingTypeOK
    BY DEF RingInv
  <1> QED
    BY RingInvariant, <1>1, PTL

\* pop() never returns a slot that no push() has written.
THEOREM SlotsLive == RingSpec => []LiveSlots
  <1>1. RingInv => LiveSlots
    BY DEF RingInv
  <1> QED
    BY RingInvariant, <1>1, PTL

\* push() never stores into a full buffer and pop() never takes from an empty
\* one, although each decides before it takes the mutex.
THEOREM ChecksHold == RingSpec => []CheckStillHolds
  <1>1. RingInv => CheckStillHolds
    BY DEF RingInv
  <1> QED
    BY RingInvariant, <1>1, PTL

\* get_event_count() never counts an event that get_event() will not return.
THEOREM CountsHold == RingSpec => []CountIsAPromise
  <1>1. RingInv => CountIsAPromise
    BY DEF RingInv
  <1> QED
    BY RingInvariant, <1>1, PTL

-----------------------------------------------------------------------------
(* The ring buffer implements the abstract FIFO. *)

\* The number of items is the length of the sequence they form.
LEMMA ContentsLength ==
  ASSUME RingInv
  PROVE  /\ Len(Contents) = Count
         /\ Contents = <<>> <=> Empty
         /\ Len(Contents) < SIZE - 1 <=> ~Full
  <1>1. Count \in 0 .. SIZE - 1 /\ (Empty <=> Count = 0) /\ (Full <=> Count = SIZE - 1)
    BY CountFacts DEF RingInv
  <1>2. Count \in Nat
    BY <1>1, SizeAssumption
  <1>3. Contents \in Seq(Items) /\ Len(Contents) = Count
    BY <1>2 DEF RingInv, LiveSlots, Contents
  <1>4. Contents = <<>> <=> Len(Contents) = 0
    BY <1>3, EmptySeq
  <1> QED
    BY <1>1, <1>3, <1>4, SizeAssumption

\* Every step of the ring buffer is a step of the FIFO, or leaves it alone.
\* An item enters at PushStore and leaves at PopTake; the answers "full" and
\* "empty" take effect where they are read; clear() takes effect when it
\* locks, for nobody sees the items that it then deletes one by one.
LEMMA FifoStep ==
  RingInv /\ RingInv' /\ [RingNext]_ringVars => [Fifo!FifoNext]_(Fifo!fifoVars)
  <1> SUFFICES ASSUME RingInv, RingInv', [RingNext]_ringVars
               PROVE  [Fifo!FifoNext]_(Fifo!fifoVars)
    OBVIOUS
  <1> DEFINE abs == IF Clearing THEN <<>> ELSE Contents
  <1> USE ThreadAssumption
  <1>1. /\ Clearing <=> pc[Clearer] = "clear"
        /\ pc["producer"] \in {"is_full", "push", "store"} => ~Clearing
        /\ pc["consumer"] \in {"is_empty", "pop", "take", "size"} => ~Clearing
        /\ pc \in [Threads -> Labels]
        /\ \A t \in Threads : pc[t] = "clear" => t = Clearer
    BY DEF RingInv, Discipline, Clearing, Threads, RingTypeOK
  <1>a. \A t \in Threads : \A label : Goto(t, label) /\ label # "clear" /\ ~Clearing => ~Clearing'
    BY <1>1 DEF Goto, Clearing
  <1>2. CASE UNCHANGED ringVars
    BY <1>2, SamePositions
    DEF ringVars, RingInv, Clearing, Fifo!fifoVars
  <1>3. CASE \/ \E v \in Items : IsFullLock(v)
             \/ PushLock \/ IsEmptyLock \/ PopLock \/ SizeLock \/ SizeRead
    <2>1. ~Clearing /\ ~Clearing'
      BY <1>3, <1>1, <1>a DEF IsFullLock, PushLock, IsEmptyLock, PopLock, SizeLock,
         SizeRead, CanBegin, Threads
    <2>2. UNCHANGED <<items, read_pos, write_pos, out, lost>>
      BY <1>3 DEF IsFullLock, PushLock, IsEmptyLock, PopLock, SizeLock, SizeRead
    <2> QED
      BY <2>1, <2>2, SamePositions DEF RingInv, Fifo!fifoVars
  <1>4. CASE IsFullRead
    <2>1. ~Clearing /\ ~Clearing'
      BY <1>4, <1>1, <1>a DEF IsFullRead, Threads
    <2>2. Contents' = Contents /\ out' = out
      BY <1>4, SamePositions DEF IsFullRead, RingInv
    <2>3. CASE Full /\ lost' = item
      <3>1. item \in Items
        BY <1>4 DEF IsFullRead, RingInv, Discipline
      <3>2. Len(Contents) = SIZE - 1
        BY <2>3, ContentsLength, CountFacts DEF RingInv
      <3>3. Fifo!FifoRefuse(item)
        BY <2>1, <2>2, <2>3, <3>2 DEF Fifo!FifoRefuse
      <3> QED
        BY <3>1, <3>3 DEF Fifo!FifoNext
    <2>4. CASE lost' = lost
      BY <2>1, <2>2, <2>4 DEF Fifo!fifoVars
    <2> QED
      BY <1>4, <2>3, <2>4 DEF IsFullRead
  <1>5. CASE PushStore
    <2>1. ~Clearing /\ ~Clearing'
      BY <1>5, <1>1, <1>a DEF PushStore, Threads
    <2>2. item \in Items /\ ~Full
      BY <1>5 DEF PushStore, RingInv, Discipline, CheckStillHolds
    <2>3. Contents' = Append(Contents, item)
      BY <1>5, <2>2, PushContents DEF PushStore, RingInv
    <2>4. Len(Contents) < SIZE - 1
      BY <2>2, ContentsLength
    <2>5. Fifo!FifoPush(item)
      BY <1>5, <2>1, <2>3, <2>4 DEF PushStore, Fifo!FifoPush
    <2> QED
      BY <2>2, <2>5 DEF Fifo!FifoNext
  <1>6. CASE IsEmptyRead
    <2>1. ~Clearing /\ ~Clearing'
      BY <1>6, <1>1, <1>a DEF IsEmptyRead, Threads
    <2>2. Contents' = Contents /\ lost' = lost
      BY <1>6, SamePositions DEF IsEmptyRead, RingInv
    <2>3. CASE Empty /\ out' = NULL
      BY <2>1, <2>2, <2>3, ContentsLength DEF Fifo!FifoPopEmpty, Fifo!FifoNext
    <2>4. CASE out' = out
      BY <2>1, <2>2, <2>4 DEF Fifo!fifoVars
    <2> QED
      BY <1>6, <2>3, <2>4 DEF IsEmptyRead
  <1>7. CASE PopTake
    <2>1. ~Clearing /\ ~Clearing'
      BY <1>7, <1>1, <1>a DEF PopTake, Threads
    <2>2. ~Empty
      BY <1>7 DEF PopTake, RingInv, CheckStillHolds
    <2>3. /\ Contents # <<>>
          /\ items[read_pos] = Head(Contents)
          /\ Contents' = Tail(Contents)
      BY <1>7, <2>2, PopContents DEF PopTake, RingInv
    <2>4. Fifo!FifoPop
      BY <1>7, <2>1, <2>3 DEF PopTake, Fifo!FifoPop
    <2> QED
      BY <2>4 DEF Fifo!FifoNext
  <1>8. CASE ClearLock
    <2>1. Clearing'
      BY <1>8, <1>1 DEF ClearLock, Goto, Clearing
    <2> QED
      BY <1>8, <2>1 DEF ClearLock, Fifo!FifoClear, Fifo!FifoNext
  <1>9. CASE ClearPop
    <2>1. Clearing /\ Clearing'
      BY <1>9 DEF ClearPop, Clearing
    <2> QED
      BY <1>9, <2>1 DEF ClearPop, Fifo!fifoVars
  <1>10. CASE ClearUnlock
    <2>1. Clearing /\ ~Clearing'
      BY <1>10, <1>1 DEF ClearUnlock, Goto, Clearing
    <2>2. Contents' = Contents /\ Contents = <<>>
      BY <1>10, SamePositions, ContentsLength DEF ClearUnlock, RingInv
    <2> QED
      BY <1>10, <2>1, <2>2 DEF ClearUnlock, Fifo!fifoVars
  <1> QED
    BY <1>2, <1>3, <1>4, <1>5, <1>6, <1>7, <1>8, <1>9, <1>10 DEF RingNext

\* The ring buffer with its two critical sections per call behaves like a
\* FIFO whose operations are atomic, for every capacity SIZE - 1.
THEOREM QueueImplementsFifo == RingSpec => ImplementsFifo
  <1>1. RingInit => Fifo!FifoInit
    <2> SUFFICES ASSUME RingInit PROVE Fifo!FifoInit
      OBVIOUS
    <2>1. Contents = <<>>
      BY RingInvInit, ContentsLength DEF RingInit, Empty
    <2> QED
      BY <2>1 DEF RingInit, Fifo!FifoInit
  <1> QED
    BY <1>1, RingInvariant, FifoStep, PTL DEF RingSpec, ImplementsFifo, Fifo!FifoSpec
==============================================================================
