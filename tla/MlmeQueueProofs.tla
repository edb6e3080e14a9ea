-------------------------- MODULE MlmeQueueProofs --------------------------
(***************************************************************************)
(* Proofs about MlmeQueue, for every ring size, every set of threads and   *)
(* every set of messages.                                                  *)
(***************************************************************************)
EXTENDS MlmeQueue, FiniteSetTheorems, SequenceTheorems, TLAPS

-----------------------------------------------------------------------------
(* Index arithmetic of the ring.                                           *)

\* Advancing an index by at most the ring size stays inside the ring.
LEMMA WrapInSlots ==
    ASSUME NEW h \in Slots, NEW i \in 0 .. MaxLen
    PROVE  Wrap(h + i) \in Slots
BY MaxLenAssumption DEF Wrap, Slots

\* Every slot is some way ahead of every other.
LEMMA SlotAhead ==
    ASSUME NEW h \in Slots, NEW s \in Slots
    PROVE  \E i \in 0 .. MaxLen - 1 : s = Wrap(h + i)
<1>1. CASE s >= h
  <2>1. s - h \in 0 .. MaxLen - 1 /\ s = Wrap(h + (s - h))
    BY <1>1, MaxLenAssumption DEF Wrap, Slots
  <2> QED BY <2>1, Zenon
<1>2. CASE s < h
  <2>1. s - h + MaxLen \in 0 .. MaxLen - 1 /\ s = Wrap(h + (s - h + MaxLen))
    BY <1>2, MaxLenAssumption DEF Wrap, Slots
  <2> QED BY <2>1, Zenon
<1> QED BY <1>1, <1>2, MaxLenAssumption DEF Slots

\* Slots at different distances below the ring size are different.
LEMMA SlotsApart ==
    ASSUME NEW h \in Slots, NEW i \in 0 .. MaxLen - 1, NEW j \in 0 .. MaxLen - 1,
           Wrap(h + i) = Wrap(h + j)
    PROVE  i = j
BY MaxLenAssumption DEF Wrap, Slots

\* Whole turns of the ring.
Turns(n) == \E k \in Int : n = k * MaxLen

\* A turn more or less leaves whole turns, ...
LEMMA TurnMore ==
    ASSUME NEW n \in Int, Turns(n)
    PROVE  Turns(n + MaxLen) /\ Turns(n - MaxLen)
<1>1. PICK k \in Int : n = k * MaxLen
  BY DEF Turns
<1>2. n + MaxLen = (k + 1) * MaxLen /\ n - MaxLen = (k - 1) * MaxLen
  BY <1>1, MaxLenAssumption
<1>3. k + 1 \in Int /\ k - 1 \in Int
  OBVIOUS
<1> QED BY <1>2, <1>3, Zenon DEF Turns

\* ... and between minus one turn and two there are only none and one.
LEMMA TurnFew ==
    ASSUME NEW n \in Int, Turns(n), 0 - MaxLen < n, n < 2 * MaxLen
    PROVE  n = 0 \/ n = MaxLen
<1>1. PICK k \in Int : n = k * MaxLen
  BY DEF Turns
<1>2. k < 2
  <2>1. SUFFICES ASSUME k >= 2 PROVE FALSE
    BY <1>1
  <2>2. k * MaxLen >= 2 * MaxLen
    BY <2>1, MaxLenAssumption
  <2> QED BY <2>2, <1>1, MaxLenAssumption
<1>3. k > -1
  <2>1. SUFFICES ASSUME k <= -1 PROVE FALSE
    BY <1>1
  <2>2. k * MaxLen <= (-1) * MaxLen
    BY <2>1, MaxLenAssumption
  <2> QED BY <2>2, <1>1, MaxLenAssumption
<1>4. k = 0 \/ k = 1
  BY <1>1, <1>2, <1>3
<1> QED BY <1>1, <1>4, MaxLenAssumption

-----------------------------------------------------------------------------
(* The type invariant.                                                     *)

\* Every step of the ring, its enqueuers and its handler keeps the types.
LEMMA TypeStep == TypeOK /\ [Next]_vars => TypeOK'
<1> SUFFICES ASSUME TypeOK, [Next]_vars PROVE TypeOK'
  OBVIOUS
<1> USE DEF TypeOK, task, ring, flags
<1>0. Wrap(tail + 1) \in Slots /\ Wrap(head + 1) \in Slots
  BY WrapInSlots, MaxLenAssumption
<1>1. ASSUME NEW m \in Msgs, Insert(m)
      PROVE  /\ entry' \in [Slots -> [Occupied : BOOLEAN, Msg : Msgs \cup {NoMsg}]]
             /\ head' \in Slots /\ tail' \in Slots /\ num' \in Int
             /\ fifo' \in Seq(Msgs) /\ overrun' \in BOOLEAN
  BY <1>0, <1>1 DEF Insert
<1>2. ASSUME NEW t \in Callers, EnqueueCheck(t) PROVE TypeOK'
  BY <1>2 DEF EnqueueCheck, Threads
<1>3. ASSUME NEW t \in Callers, EnqueueInsert(t) PROVE TypeOK'
  <2>1. PICK m \in Requests : Insert(m)
    BY <1>3 DEF EnqueueInsert
  <2> QED BY <2>1, <1>1, <1>3, Zenon DEF EnqueueInsert, Threads, Msgs
<1>4. ASSUME NEW t \in Receivers, EnqueueForRecvCheck(t) PROVE TypeOK'
  BY <1>4 DEF EnqueueForRecvCheck, Threads
<1>5. ASSUME NEW t \in Receivers, EnqueueForRecvInsert(t) PROVE TypeOK'
  <2>1. CASE UNCHANGED <<ring, sema>>
    BY <2>1, <1>5 DEF EnqueueForRecvInsert, Threads
  <2>2. CASE (\E m \in Frames : Insert(m)) /\ sema' = TRUE
    <3>1. PICK m \in Frames : Insert(m)
      BY <2>2
    <3> QED BY <3>1, <1>1, <1>5, <2>2 DEF EnqueueForRecvInsert, Threads, Msgs
  <2> QED BY <2>1, <2>2, <1>5, Zenon DEF EnqueueForRecvInsert
<1>6. CASE PeriodicWake
  BY <1>6 DEF PeriodicWake
<1>7. CASE ThreadWake
  BY <1>7, Zenon DEF ThreadWake
<1>8. CASE LoopTest
  BY <1>8 DEF LoopTest
<1>9. CASE MlmeDequeue
  <2>1. fifo' \in Seq(Msgs) /\ elemMsg' \in Msgs \cup {NoMsg}
    <3>1. CASE fifo = << >>
      BY <3>1, <1>9 DEF MlmeDequeue
    <3>2. CASE fifo # << >>
      <4>1. Head(fifo) \in Msgs /\ Tail(fifo) \in Seq(Msgs)
        BY <3>2, HeadTailProperties
      <4> QED BY <4>1, <3>2, <1>9, Zenon DEF MlmeDequeue
    <3> QED BY <3>1, <3>2
  <2> QED BY <2>1, <1>0, <1>9 DEF MlmeDequeue
<1>10. CASE PerformDone
  BY <1>10, Zenon DEF PerformDone
<1>11. CASE SuspendToggle \/ RadioToggle \/ Halt
  BY <1>11, Zenon DEF SuspendToggle, RadioToggle, Halt
<1>12. CASE MlmeQueueDestroy
  BY <1>12, MaxLenAssumption DEF MlmeQueueDestroy, Slots
<1>13. CASE UNCHANGED vars
  BY <1>13 DEF vars
<1> QED
  BY <1>2, <1>3, <1>4, <1>5, <1>6, <1>7, <1>8, <1>9, <1>10, <1>11, <1>12,
     <1>13 DEF Next, HandlerNext

\* The initial state has the types.
LEMMA TypeInit == Init => TypeOK
<1> SUFFICES ASSUME Init PROVE TypeOK
  OBVIOUS
<1>1. 0 \in Slots
  BY MaxLenAssumption DEF Slots
<1>2. fifo \in Seq(Msgs)
  BY DEF Init
<1>3. entry \in [Slots -> [Occupied : BOOLEAN, Msg : Msgs \cup {NoMsg}]]
  BY DEF Init, MlmeQueueInit
<1>4. pc \in [Threads -> {"idle", "insert"}]
  BY DEF Init
<1>5. /\ head \in Slots /\ tail \in Slots /\ num \in Int /\ cur \in Slots
      /\ elemMsg \in Msgs \cup {NoMsg}
  BY <1>1 DEF Init, MlmeQueueInit
<1>6. /\ handler \in {"wait", "loop", "dequeue", "perform"}
      /\ sema \in BOOLEAN /\ suspend \in BOOLEAN /\ radioOff \in BOOLEAN
      /\ overrun \in BOOLEAN /\ phase \in {"run", "halting", "destroyed"}
  BY Zenon DEF Init
<1> QED BY <1>2, <1>3, <1>4, <1>5, <1>6 DEF TypeOK

\* The ring, its enqueuers and MlmeHandler keep the types, under any load.
THEOREM TypeCorrect == Spec => []TypeOK
BY TypeInit, TypeStep, PTL DEF Spec

-----------------------------------------------------------------------------
(* First-in first-out, up to the ring's capacity and again after it.       *)

\* The handler's element is a message, in the slot just before head.
ElemBehindHead ==
    (handler = "perform" /\ phase # "destroyed") =>
        /\ head = Wrap(cur + 1)
        /\ elemMsg \in Msgs /\ entry[cur].Msg \in Msgs

\* Between the emptiness test and MlmeDequeue only the handler removes.
DequeueFindsOne ==
    (handler = "dequeue" /\ phase # "destroyed") => num > 0

\* Tail is Num entries after Head, however often around the ring.
TailAfterHead == phase # "destroyed" => Turns(head + num - tail)

\* A message waits in slot s.
Waiting(s) == num >= MaxLen \/ \E i \in 0 .. num - 1 : s = Wrap(head + i)

\* Nothing but waiting messages and the handler's element occupies an entry,
\* so that a ring that has been worked off is as good as new.
NoneLeftOver ==
    phase # "destroyed" =>
        \A s \in Slots :
            /\ entry[s].Occupied => Waiting(s) \/ (handler = "perform" /\ s = cur)
            /\ Waiting(s) => entry[s].Msg \in Msgs

\* The inductive invariant.
Order ==
    /\ RingIsFifo /\ ElemStable /\ ElemBehindHead /\ DequeueFindsOne
    /\ TailAfterHead /\ NoneLeftOver

IInv == TypeOK /\ Order

\* It holds in the initial state.
LEMMA IInvInit == Init => IInv
<1> SUFFICES ASSUME Init PROVE IInv
  OBVIOUS
<1>1. TypeOK
  BY TypeInit
<1>2. RingIsFifo
  BY MaxLenAssumption DEF Init, MlmeQueueInit, RingIsFifo, Wrap, Held
<1>3. ElemStable /\ ElemBehindHead /\ DequeueFindsOne
  BY Zenon DEF Init, ElemStable, ElemBehindHead, DequeueFindsOne
<1>4. TailAfterHead
  <2>1. head + num - tail = 0 * MaxLen
    BY MaxLenAssumption DEF Init, MlmeQueueInit
  <2> QED BY <2>1 DEF TailAfterHead, Turns
<1>5. NoneLeftOver
  <2>1. ASSUME NEW s \in Slots PROVE ~Waiting(s) /\ ~entry[s].Occupied
    BY MaxLenAssumption DEF Init, MlmeQueueInit, Waiting
  <2> QED BY <2>1, Zenon DEF NoneLeftOver
<1> QED BY <1>1, <1>2, <1>3, <1>4, <1>5 DEF IInv, Order

\* Up to the ring size, Tail is where the first free entry should be.
LEMMA TailPlace ==
    ASSUME IInv, phase # "destroyed", num <= MaxLen
    PROVE  tail = Wrap(head + num)
<1>1. head \in Slots /\ tail \in Slots /\ num \in Nat /\ Turns(head + num - tail)
  BY DEF IInv, Order, RingIsFifo, TypeOK, TailAfterHead
<1>2. head + num - tail \in Int /\ 0 - MaxLen < head + num - tail
      /\ head + num - tail < 2 * MaxLen
  BY <1>1, MaxLenAssumption DEF Slots
<1>3. head + num - tail = 0 \/ head + num - tail = MaxLen
  BY <1>1, <1>2, TurnFew
<1> QED BY <1>1, <1>3, MaxLenAssumption DEF Wrap, Slots

\* Without an overrun, the entry at Tail is occupied when all entries are in
\* use, the handler's included, and only then.
LEMMA TailTaken ==
    ASSUME IInv, phase # "destroyed", ~overrun
    PROVE  entry[tail].Occupied <=> num + Held >= MaxLen
<1>1. /\ head \in Slots /\ tail \in Slots /\ cur \in Slots /\ num \in Nat
      /\ num = Len(fifo) /\ num + Held <= MaxLen /\ Held \in {0, 1}
  BY DEF IInv, Order, RingIsFifo, TypeOK, Held
<1>2. num <= MaxLen /\ tail = Wrap(head + num)
  BY <1>1, MaxLenAssumption DEF IInv, Order, RingIsFifo
<1>3. ASSUME num + Held >= MaxLen PROVE entry[tail].Occupied
  <2>1. CASE handler = "perform"
    <3>1. head = Wrap(cur + 1) /\ num = MaxLen - 1
      BY <1>1, <1>3, <2>1, MaxLenAssumption DEF IInv, Order, ElemBehindHead, Held
    <3>2. tail = cur
      BY <1>1, <1>2, <3>1, MaxLenAssumption DEF Wrap, Slots
    <3> QED BY <2>1, <3>2 DEF IInv, Order, ElemStable
  <2>2. CASE handler # "perform"
    <3>1. num = MaxLen /\ Wrap(head + 1 - 1) = tail /\ 1 \in 1 .. Len(fifo)
      BY <1>1, <1>2, <1>3, <2>2, MaxLenAssumption DEF Held, Wrap, Slots
    <3>2. entry[Wrap(head + 1 - 1)] = [Occupied |-> TRUE, Msg |-> fifo[1]]
      BY <3>1 DEF IInv, Order, RingIsFifo
    <3> QED BY <3>1, <3>2
  <2> QED BY <2>1, <2>2, Zenon
<1>4. ASSUME entry[tail].Occupied, num + Held < MaxLen PROVE FALSE
  <2>1. Waiting(tail) \/ (handler = "perform" /\ tail = cur)
    BY <1>1, <1>4, Zenon DEF IInv, Order, NoneLeftOver
  <2>2. num \in 0 .. MaxLen - 1
    BY <1>1, <1>4, MaxLenAssumption
  <2>3. CASE Waiting(tail)
    <3>1. PICK i \in 0 .. num - 1 : tail = Wrap(head + i)
      BY <2>2, <2>3, MaxLenAssumption DEF Waiting
    <3>2. i \in 0 .. MaxLen - 1 /\ i # num
      BY <1>1, <2>2, MaxLenAssumption
    <3> QED BY <1>1, <1>2, <2>2, <3>1, <3>2, SlotsApart, Zenon
  <2>4. CASE handler = "perform" /\ tail = cur
    <3>1. head = Wrap(cur + 1) /\ num < MaxLen - 1
      BY <1>1, <1>4, <2>4, MaxLenAssumption DEF IInv, Order, ElemBehindHead, Held
    <3> QED BY <1>1, <1>2, <2>4, <3>1, MaxLenAssumption DEF Wrap, Slots
  <2> QED BY <2>1, <2>3, <2>4, Zenon
<1>5. num + Held >= MaxLen \/ num + Held < MaxLen
  BY <1>1, MaxLenAssumption
<1>6. entry[tail].Occupied \in BOOLEAN
  BY <1>1 DEF IInv, TypeOK
<1> QED BY <1>3, <1>4, <1>5, <1>6, Zenon

\* What an insertion does to the ring, whether or not it hits an occupied entry.
LEMMA InsertPlaces ==
    ASSUME IInv, phase # "destroyed", NEW m \in Msgs, Insert(m),
           UNCHANGED <<handler, cur, elemMsg, phase>>
    PROVE  /\ num' = Len(fifo') /\ ElemBehindHead' /\ DequeueFindsOne'
           /\ TailAfterHead' /\ NoneLeftOver'
<1>1. /\ head \in Slots /\ tail \in Slots /\ cur \in Slots /\ num \in Nat
      /\ num = Len(fifo) /\ fifo \in Seq(Msgs) /\ Turns(head + num - tail)
  BY DEF IInv, Order, RingIsFifo, TypeOK, TailAfterHead
<1>2. /\ entry' = [entry EXCEPT ![tail] = [Occupied |-> TRUE, Msg |-> m]]
      /\ tail' = Wrap(tail + 1) /\ num' = num + 1 /\ head' = head
      /\ fifo' = Append(fifo, m)
  BY DEF Insert
<1>3. num' = Len(fifo')
  BY <1>1, <1>2
<1>4. /\ entry'[tail].Occupied /\ entry'[tail].Msg = m
      /\ \A s \in Slots : s # tail => entry'[s] = entry[s]
  BY <1>1, <1>2 DEF IInv, TypeOK
<1>5. ElemBehindHead'
  <2> SUFFICES ASSUME handler = "perform"
               PROVE  head' = Wrap(cur + 1) /\ elemMsg \in Msgs /\ entry'[cur].Msg \in Msgs
    BY DEF ElemBehindHead
  <2>1. head = Wrap(cur + 1) /\ elemMsg \in Msgs /\ entry[cur].Msg \in Msgs
    BY DEF IInv, Order, ElemBehindHead
  <2> QED BY <1>1, <1>2, <1>4, <2>1, Zenon
<1>6. DequeueFindsOne'
  BY <1>1, <1>2 DEF DequeueFindsOne
<1>7. TailAfterHead'
  <2>1. \/ head' + num' - tail' = head + num - tail
        \/ head' + num' - tail' = head + num - tail + MaxLen
    BY <1>1, <1>2, MaxLenAssumption DEF Wrap, Slots
  <2>2. head + num - tail \in Int
    BY <1>1 DEF Slots
  <2>3. Turns(head' + num' - tail')
    BY <1>1, <2>1, <2>2, TurnMore, Zenon
  <2> QED BY <2>3 DEF TailAfterHead, Turns
<1>8. ASSUME NEW s \in Slots
      PROVE  /\ Waiting(s) => Waiting(s)'
             /\ s = tail => Waiting(s)'
             /\ (Waiting(s)' /\ s # tail) => Waiting(s)
  <2>1. Waiting(s) => Waiting(s)'
    BY <1>1, <1>2, MaxLenAssumption DEF Waiting
  <2>2. num < MaxLen => tail = Wrap(head + num)
    BY <1>1, TailPlace, MaxLenAssumption
  <2>3. ASSUME s = tail PROVE Waiting(s)'
    <3>1. CASE num >= MaxLen
      BY <1>1, <1>2, <3>1, MaxLenAssumption DEF Waiting
    <3>2. CASE num < MaxLen
      <4>1. num \in 0 .. num' - 1 /\ s = Wrap(head' + num)
        BY <1>1, <1>2, <2>2, <2>3, <3>2
      <4> QED BY <4>1, Zenon DEF Waiting
    <3> QED BY <1>1, <3>1, <3>2, MaxLenAssumption
  <2>4. ASSUME Waiting(s)', s # tail PROVE Waiting(s)
    <3>1. CASE num >= MaxLen
      BY <3>1 DEF Waiting
    <3>2. CASE num < MaxLen
      <4>1. PICK i \in 0 .. MaxLen - 1 : s = Wrap(head + i) /\ i <= num
        <5>1. CASE num' >= MaxLen
          <6>1. PICK i \in 0 .. MaxLen - 1 : s = Wrap(head + i)
            BY <1>1, SlotAhead
          <6>2. i <= num
            BY <1>1, <1>2, <5>1, MaxLenAssumption
          <6> QED BY <6>1, <6>2, Zenon
        <5>2. CASE num' < MaxLen
          <6>1. PICK i \in 0 .. num' - 1 : s = Wrap(head' + i)
            BY <1>1, <1>2, <2>4, <5>2, MaxLenAssumption DEF Waiting
          <6>2. i \in 0 .. MaxLen - 1 /\ i <= num
            BY <1>1, <1>2, <5>2, MaxLenAssumption
          <6> QED BY <1>2, <6>1, <6>2, Zenon
        <5> QED BY <1>1, <1>2, <5>1, <5>2, MaxLenAssumption
      <4>2. i # num
        BY <2>2, <2>4, <3>2, <4>1, Zenon
      <4>3. i \in 0 .. num - 1
        BY <1>1, <4>1, <4>2, MaxLenAssumption
      <4> QED BY <4>1, <4>3, Zenon DEF Waiting
    <3> QED BY <1>1, <3>1, <3>2, MaxLenAssumption
  <2> QED BY <2>1, <2>3, <2>4, Zenon
<1>9. NoneLeftOver'
  <2>1. ASSUME NEW s \in Slots
        PROVE  /\ entry'[s].Occupied => Waiting(s)' \/ (handler' = "perform" /\ s = cur')
               /\ Waiting(s)' => entry'[s].Msg \in Msgs
    <3>1. CASE s = tail
      BY <1>4, <1>8, <3>1, Zenon
    <3>2. CASE s # tail
      <4>1. /\ entry[s].Occupied => Waiting(s) \/ (handler = "perform" /\ s = cur)
            /\ Waiting(s) => entry[s].Msg \in Msgs
        BY Zenon DEF IInv, Order, NoneLeftOver
      <4> QED BY <1>4, <1>8, <3>2, <4>1, Zenon
    <3> QED BY <3>1, <3>2, Zenon
  <2> QED BY <2>1, Zenon DEF NoneLeftOver
<1> QED BY <1>3, <1>5, <1>6, <1>7, <1>9, Zenon

\* An insertion keeps the order of what is queued, and hits neither a queued
\* entry nor the handler's, unless it sets overrun.
LEMMA InsertKeeps ==
    ASSUME IInv, phase # "destroyed", NEW m \in Msgs, Insert(m),
           UNCHANGED <<handler, cur, elemMsg, phase>>
    PROVE  Order'
<1> USE MaxLenAssumption
<1>0. /\ num' = Len(fifo') /\ ElemBehindHead' /\ DequeueFindsOne'
      /\ TailAfterHead' /\ NoneLeftOver'
  BY InsertPlaces
<1>1. CASE overrun'
  <2>1. RingIsFifo' /\ ElemStable'
    BY <1>0, <1>1, Zenon DEF RingIsFifo, ElemStable
  <2> QED BY <1>0, <2>1, Zenon DEF Order
<1>2. CASE ~overrun'
  <2>1. ~overrun /\ ~entry[tail].Occupied
    BY <1>2, Zenon DEF Insert
  <2>2. num + Held < MaxLen /\ num = Len(fifo) /\ num \in Nat /\ Held \in {0, 1}
    <3>1. /\ num = Len(fifo) /\ num \in Nat /\ Held \in {0, 1}
      BY DEF IInv, Order, RingIsFifo, TypeOK, Held
    <3>2. ~(num + Held >= MaxLen)
      BY <2>1, TailTaken, Zenon
    <3> QED BY <3>1, <3>2
  <2>3. tail = Wrap(head + num) /\ head \in Slots /\ tail \in Slots
    BY <2>2, TailPlace DEF IInv, TypeOK
  <2>4. entry' = [entry EXCEPT ![tail] = [Occupied |-> TRUE, Msg |-> m]]
        /\ tail' = Wrap(tail + 1) /\ num' = num + 1 /\ head' = head
        /\ fifo' = Append(fifo, m) /\ fifo \in Seq(Msgs)
    BY DEF Insert, IInv, TypeOK
  <2>5. /\ Len(fifo') = Len(fifo) + 1
        /\ \A i \in 1 .. Len(fifo) : fifo'[i] = fifo[i]
        /\ fifo'[Len(fifo) + 1] = m
    BY <2>4
  <2>6. /\ entry'[tail] = [Occupied |-> TRUE, Msg |-> m]
        /\ \A s \in Slots : s # tail => entry'[s] = entry[s]
    BY <2>3, <2>4 DEF IInv, TypeOK
  <2>7. ASSUME NEW i \in 1 .. Len(fifo')
        PROVE  entry'[Wrap(head' + i - 1)] = [Occupied |-> TRUE, Msg |-> fifo'[i]]
    <3>1. CASE i = Len(fifo) + 1
      <4>1. Wrap(head' + i - 1) = tail
        BY <2>2, <2>3, <2>4, <3>1 DEF Wrap, Slots
      <4>2. fifo'[i] = m
        BY <2>5, <3>1, Zenon
      <4> QED BY <2>6, <4>1, <4>2, Zenon
    <3>2. CASE i # Len(fifo) + 1
      <4>1. i \in 1 .. Len(fifo)
        BY <2>2, <2>5, <3>2
      <4>2. entry[Wrap(head + i - 1)] = [Occupied |-> TRUE, Msg |-> fifo[i]]
        BY <2>1, <4>1, Zenon DEF IInv, Order, RingIsFifo
      <4>3. Wrap(head + i - 1) # tail /\ Wrap(head + i - 1) \in Slots
        BY <2>2, <2>3, <4>1 DEF Wrap, Slots
      <4> QED BY <2>4, <2>5, <2>6, <4>1, <4>2, <4>3, Zenon
    <3> QED BY <3>1, <3>2, Zenon
  <2>8. RingIsFifo'
    <3>1. tail' = Wrap(head' + num')
      BY <2>2, <2>3, <2>4 DEF Wrap, Slots
    <3>2. Held' = Held
      BY Zenon DEF Held
    <3>3. num' + Held' <= MaxLen
      BY <2>2, <2>4, <3>2
    <3> QED BY <1>0, <2>7, <3>1, <3>3, Zenon DEF RingIsFifo
  <2>9. ElemStable'
    <3> SUFFICES ASSUME handler = "perform"
                 PROVE  entry'[cur] = [Occupied |-> TRUE, Msg |-> elemMsg]
      BY Zenon DEF ElemStable
    <3>1. head = Wrap(cur + 1) /\ cur \in Slots /\ num < MaxLen - 1
      BY <2>2 DEF IInv, Order, ElemBehindHead, TypeOK, Held
    <3>2. cur # tail
      BY <2>2, <2>3, <3>1 DEF Wrap, Slots
    <3>3. entry[cur] = [Occupied |-> TRUE, Msg |-> elemMsg]
      BY <2>1, Zenon DEF IInv, Order, ElemStable
    <3> QED BY <2>6, <3>1, <3>2, <3>3, Zenon
  <2> QED BY <1>0, <2>8, <2>9, Zenon DEF Order
<1> QED BY <1>1, <1>2, Zenon

\* Taking the oldest message shortens the queue by it and makes it cur.
LEMMA DequeueKeeps ==
    ASSUME IInv, phase # "destroyed", MlmeDequeue
    PROVE  Order'
<1> USE MaxLenAssumption
<1>1. /\ num > 0 /\ num = Len(fifo) /\ fifo \in Seq(Msgs) /\ num \in Nat
      /\ head \in Slots /\ tail \in Slots /\ Turns(head + num - tail)
  BY DEF IInv, Order, RingIsFifo, TypeOK, DequeueFindsOne, MlmeDequeue, TailAfterHead
<1>2. fifo # << >>
  BY <1>1
<1>3. /\ fifo' = Tail(fifo) /\ elemMsg' = Head(fifo) /\ cur' = head
      /\ head' = Wrap(head + 1) /\ num' = num - 1 /\ handler' = "perform"
      /\ UNCHANGED <<entry, tail, overrun, phase>> /\ handler = "dequeue"
  BY <1>2, Zenon DEF MlmeDequeue, flags
<1>4. /\ Len(fifo') = Len(fifo) - 1 /\ elemMsg' = fifo[1] /\ elemMsg' \in Msgs
      /\ \A i \in 1 .. Len(fifo') : fifo'[i] = fifo[i + 1]
  BY <1>1, <1>2, <1>3, HeadTailProperties
<1>5. num' = Len(fifo') /\ num' \in Nat
  BY <1>1, <1>3, <1>4
<1>6. ASSUME ~overrun
      PROVE  /\ num' + Held' <= MaxLen /\ tail' = Wrap(head' + num')
             /\ \A i \in 1 .. Len(fifo') :
                   entry'[Wrap(head' + i - 1)] = [Occupied |-> TRUE, Msg |-> fifo'[i]]
             /\ entry'[cur'] = [Occupied |-> TRUE, Msg |-> elemMsg']
  <2>0. num <= MaxLen /\ tail = Wrap(head + num)
    BY <1>1, <1>3, <1>6 DEF IInv, Order, RingIsFifo, Held
  <2>1. num' + Held' <= MaxLen
    BY <1>1, <1>3, <2>0 DEF Held
  <2>2. tail' = Wrap(head' + num')
    BY <1>1, <1>3, <2>0 DEF Wrap, Slots
  <2>3. ASSUME NEW i \in 1 .. Len(fifo')
        PROVE  entry'[Wrap(head' + i - 1)] = [Occupied |-> TRUE, Msg |-> fifo'[i]]
    <3>1. i + 1 \in 1 .. Len(fifo) /\ fifo'[i] = fifo[i + 1]
      BY <1>1, <1>4
    <3>2. Wrap(head' + i - 1) = Wrap(head + (i + 1) - 1)
      BY <1>1, <1>3, <2>0, <3>1 DEF Wrap, Slots
    <3>3. entry[Wrap(head + (i + 1) - 1)] = [Occupied |-> TRUE, Msg |-> fifo[i + 1]]
      BY <1>6, <3>1, Zenon DEF IInv, Order, RingIsFifo
    <3> QED BY <1>3, <3>1, <3>2, <3>3, Zenon
  <2>4. entry'[cur'] = [Occupied |-> TRUE, Msg |-> elemMsg']
    <3>1. 1 \in 1 .. Len(fifo) /\ Wrap(head + 1 - 1) = head
      BY <1>1 DEF Wrap, Slots
    <3>2. entry[Wrap(head + 1 - 1)] = [Occupied |-> TRUE, Msg |-> fifo[1]]
      BY <1>6, <3>1, Zenon DEF IInv, Order, RingIsFifo
    <3> QED BY <1>3, <1>4, <3>1, <3>2, Zenon
  <2> QED BY <2>1, <2>2, <2>3, <2>4, Zenon
<1>7. RingIsFifo' /\ ElemStable'
  BY <1>3, <1>5, <1>6, Zenon DEF RingIsFifo, ElemStable
<1>8. TailAfterHead'
  <2>1. \/ head' + num' - tail' = head + num - tail
        \/ head' + num' - tail' = (head + num - tail) - MaxLen
    BY <1>1, <1>3 DEF Wrap, Slots
  <2>2. head + num - tail \in Int
    BY <1>1 DEF Slots
  <2> DEFINE n == head + num - tail
  <2>3. Turns(n - MaxLen)
    BY <1>1, <2>2, TurnMore, Zenon
  <2>4. Turns(head' + num' - tail')
    <3>1. CASE head' + num' - tail' = n
      BY <1>1, <3>1, Zenon
    <3>2. CASE head' + num' - tail' = n - MaxLen
      BY <2>3, <3>2, Zenon
    <3> QED BY <2>1, <3>1, <3>2, Zenon
  <2> QED BY <2>4 DEF TailAfterHead, Turns
<1>9. ASSUME NEW s \in Slots
      PROVE  /\ Waiting(s) => Waiting(s)' \/ s = head
             /\ Waiting(s)' => Waiting(s)
  <2>1. ASSUME Waiting(s), s # head PROVE Waiting(s)'
    <3>1. CASE num' >= MaxLen
      BY <3>1 DEF Waiting
    <3>2. CASE num' < MaxLen
      <4>1. PICK i \in 0 .. MaxLen - 1 : s = Wrap(head + i) /\ i < num
        <5>1. CASE num >= MaxLen
          <6>1. PICK i \in 0 .. MaxLen - 1 : s = Wrap(head + i)
            BY <1>1, SlotAhead
          <6> QED BY <1>1, <5>1, <6>1
        <5>2. CASE num < MaxLen
          <6>1. PICK i \in 0 .. num - 1 : s = Wrap(head + i)
            BY <1>1, <2>1, <5>2 DEF Waiting
          <6> QED BY <1>1, <5>2, <6>1
        <5> QED BY <1>1, <5>1, <5>2
      <4>2. i # 0
        BY <1>1, <2>1, <4>1 DEF Wrap, Slots
      <4>3. i - 1 \in 0 .. num' - 1 /\ s = Wrap(head' + (i - 1))
        BY <1>1, <1>3, <4>1, <4>2 DEF Wrap, Slots
      <4> QED BY <4>3, Zenon DEF Waiting
    <3> QED BY <1>5, <3>1, <3>2
  <2>2. ASSUME Waiting(s)' PROVE Waiting(s)
    <3>1. CASE num >= MaxLen
      BY <3>1 DEF Waiting
    <3>2. CASE num < MaxLen
      <4>1. PICK i \in 0 .. num' - 1 : s = Wrap(head' + i)
        BY <1>1, <1>3, <2>2, <3>2 DEF Waiting
      <4>2. i + 1 \in 0 .. num - 1 /\ s = Wrap(head + (i + 1))
        BY <1>1, <1>3, <3>2, <4>1 DEF Wrap, Slots
      <4> QED BY <4>2, Zenon DEF Waiting
    <3> QED BY <1>1, <3>1, <3>2
  <2> QED BY <2>1, <2>2, Zenon
<1>10. NoneLeftOver'
  <2>1. ASSUME NEW s \in Slots
        PROVE  /\ entry'[s].Occupied => Waiting(s)' \/ (handler' = "perform" /\ s = cur')
               /\ Waiting(s)' => entry'[s].Msg \in Msgs
    <3>1. /\ entry[s].Occupied => Waiting(s) \/ (handler = "perform" /\ s = cur)
          /\ Waiting(s) => entry[s].Msg \in Msgs
      BY Zenon DEF IInv, Order, NoneLeftOver
    <3>2. handler # "perform"
      BY <1>3
    <3> QED BY <1>3, <1>9, <3>1, <3>2, Zenon
  <2> QED BY <2>1, Zenon DEF NoneLeftOver
<1>11. ElemBehindHead' /\ DequeueFindsOne'
  <2>1. Waiting(head)
    <3>1. 0 \in 0 .. num - 1 /\ head = Wrap(head + 0)
      BY <1>1 DEF Wrap, Slots
    <3> QED BY <3>1, Zenon DEF Waiting
  <2>2. entry[head].Msg \in Msgs
    BY <1>1, <2>1, Zenon DEF IInv, Order, NoneLeftOver
  <2>3. ElemBehindHead'
    BY <1>3, <1>4, <2>2, Zenon DEF ElemBehindHead
  <2>4. DequeueFindsOne'
    BY <1>3 DEF DequeueFindsOne
  <2> QED BY <2>3, <2>4
<1> QED BY <1>7, <1>8, <1>10, <1>11, Zenon DEF Order

\* Releasing the element touches no queued entry, and the last one done leaves
\* the ring in order again.
LEMMA DoneKeeps ==
    ASSUME IInv, phase # "destroyed", PerformDone
    PROVE  Order'
<1> USE MaxLenAssumption
<1>1. /\ num = Len(fifo) /\ num \in Nat /\ head = Wrap(cur + 1)
      /\ head \in Slots /\ tail \in Slots /\ cur \in Slots
  BY DEF IInv, Order, RingIsFifo, TypeOK, ElemBehindHead, PerformDone
<1>2. /\ UNCHANGED <<head, tail, num, fifo, cur, phase>>
      /\ handler = "perform" /\ handler' = "loop" /\ overrun' = (overrun /\ num # 0)
  BY Zenon DEF PerformDone, flags
<1>3. /\ \A s \in Slots : s # cur => entry'[s] = entry[s]
      /\ ~entry'[cur].Occupied /\ entry'[cur].Msg = entry[cur].Msg
  BY <1>1 DEF PerformDone, IInv, TypeOK
<1>4. ElemStable' /\ ElemBehindHead' /\ DequeueFindsOne'
  BY <1>2 DEF ElemStable, ElemBehindHead, DequeueFindsOne
<1>5. TailAfterHead'
  BY <1>2 DEF IInv, Order, TailAfterHead, Turns
<1>6. NoneLeftOver'
  <2>1. ASSUME NEW s \in Slots
        PROVE  /\ entry'[s].Occupied => Waiting(s)' \/ (handler' = "perform" /\ s = cur')
               /\ Waiting(s)' => entry'[s].Msg \in Msgs
    <3>1. /\ entry[s].Occupied => Waiting(s) \/ (handler = "perform" /\ s = cur)
          /\ Waiting(s) => entry[s].Msg \in Msgs
      BY Zenon DEF IInv, Order, NoneLeftOver
    <3>2. Waiting(s)' <=> Waiting(s)
      BY <1>2 DEF Waiting
    <3> QED BY <1>1, <1>3, <3>1, <3>2, Zenon
  <2> QED BY <2>1, Zenon DEF NoneLeftOver
<1>7. CASE overrun'
  <2>1. RingIsFifo'
    BY <1>1, <1>2, <1>7, Zenon DEF RingIsFifo
  <2> QED BY <1>4, <1>5, <1>6, <2>1, Zenon DEF Order
<1>8. CASE ~overrun' /\ num = 0
  <2>1. tail = Wrap(head + num) /\ 1 .. Len(fifo) = {} /\ num' + Held' <= MaxLen
    BY <1>1, <1>2, <1>8, TailPlace DEF Held
  <2>2. RingIsFifo'
    BY <1>1, <1>2, <2>1, Zenon DEF RingIsFifo
  <2> QED BY <1>4, <1>5, <1>6, <2>2, Zenon DEF Order
<1>9. CASE ~overrun' /\ num # 0
  <2>1. ~overrun
    BY <1>2, <1>9, Zenon
  <2>2. num + 1 <= MaxLen /\ tail = Wrap(head + num)
    BY <1>1, <1>2, <2>1 DEF IInv, Order, RingIsFifo, Held
  <2>3. ASSUME NEW i \in 1 .. Len(fifo)
        PROVE  entry'[Wrap(head + i - 1)] = [Occupied |-> TRUE, Msg |-> fifo[i]]
    <3>1. entry[Wrap(head + i - 1)] = [Occupied |-> TRUE, Msg |-> fifo[i]]
      BY <2>1, Zenon DEF IInv, Order, RingIsFifo
    <3>2. Wrap(head + i - 1) \in Slots /\ Wrap(head + i - 1) # cur
      BY <1>1, <2>2 DEF Wrap, Slots
    <3> QED BY <1>3, <3>1, <3>2, Zenon
  <2>4. num' + Held' <= MaxLen
    BY <1>1, <1>2, <2>2 DEF Held
  <2>5. RingIsFifo'
    BY <1>1, <1>2, <2>2, <2>3, <2>4, Zenon DEF RingIsFifo
  <2> QED BY <1>4, <1>5, <1>6, <2>5, Zenon DEF Order
<1> QED BY <1>7, <1>8, <1>9, Zenon

\* A step that leaves the ring alone, and the handler out of the ring.
LEMMA AsideKeeps ==
    ASSUME IInv, phase # "destroyed", UNCHANGED <<ring, cur, elemMsg>>,
           phase' # "destroyed",
           \/ handler' = handler
           \/ /\ handler # "perform" /\ handler' \in {"wait", "loop", "dequeue"}
              /\ handler' = "dequeue" => num # 0
    PROVE  Order'
<1>1. /\ UNCHANGED <<entry, head, tail, num, fifo, overrun>>
      /\ handler' = "perform" <=> handler = "perform"
  BY DEF ring
<1>2. Held' = Held
  BY <1>1, Zenon DEF Held
<1>3. RingIsFifo' /\ ElemStable' /\ ElemBehindHead'
  BY <1>1, <1>2, Zenon DEF IInv, Order, RingIsFifo, ElemStable, ElemBehindHead
<1>4. TailAfterHead' /\ NoneLeftOver'
  BY <1>1 DEF IInv, Order, TailAfterHead, Turns, NoneLeftOver, Waiting
<1>5. DequeueFindsOne'
  <2>1. num \in Nat
    BY DEF IInv, Order, RingIsFifo, TypeOK
  <2> QED BY <1>1, <2>1 DEF IInv, Order, DequeueFindsOne
<1> QED BY <1>3, <1>4, <1>5, Zenon DEF Order

\* The ring stays destroyed.
LEMMA DestroyedStays ==
    ASSUME [Next]_vars, phase = "destroyed"
    PROVE  phase' = "destroyed"
BY Zenon DEF Next, HandlerNext, EnqueueCheck, EnqueueInsert, EnqueueForRecvCheck,
   EnqueueForRecvInsert, PeriodicWake, ThreadWake, LoopTest, MlmeDequeue,
   PerformDone, SuspendToggle, RadioToggle, Halt, MlmeQueueDestroy, vars, flags

\* The inductive step: one case per action.
LEMMA IInvStep ==
    ASSUME IInv, [Next]_vars
    PROVE  IInv'
<1>0. TypeOK'
  BY TypeStep DEF IInv
<1>1. SUFFICES Order'
  BY <1>0, Zenon DEF IInv
<1>2. CASE phase' = "destroyed"
  BY <1>2, Zenon DEF Order, RingIsFifo, ElemStable, ElemBehindHead,
     DequeueFindsOne, TailAfterHead, NoneLeftOver
<1>3. CASE phase' # "destroyed"
  <2>0. phase # "destroyed"
    BY <1>3, DestroyedStays, Zenon
  <2>1. ASSUME NEW t \in Callers, EnqueueCheck(t) PROVE Order'
    BY <1>3, <2>0, <2>1, AsideKeeps, Zenon DEF EnqueueCheck, task
  <2>2. ASSUME NEW t \in Callers, EnqueueInsert(t) PROVE Order'
    <3>1. PICK m \in Requests : Insert(m)
      BY <2>2, Zenon DEF EnqueueInsert
    <3>2. m \in Msgs
      BY Zenon DEF Msgs
    <3> QED BY <2>0, <2>2, <3>1, <3>2, InsertKeeps, Zenon DEF EnqueueInsert, task, flags
  <2>3. ASSUME NEW t \in Receivers, EnqueueForRecvCheck(t) PROVE Order'
    BY <1>3, <2>0, <2>3, AsideKeeps, Zenon DEF EnqueueForRecvCheck, task
  <2>4. ASSUME NEW t \in Receivers, EnqueueForRecvInsert(t) PROVE Order'
    <3>1. CASE (\E m \in Frames : Insert(m)) /\ sema' = TRUE
      <4>1. PICK m \in Frames : Insert(m)
        BY <3>1, Zenon
      <4>2. m \in Msgs
        BY Zenon DEF Msgs
      <4> QED
        BY <2>0, <2>4, <4>1, <4>2, InsertKeeps, Zenon DEF EnqueueForRecvInsert, task, flags
    <3>2. CASE UNCHANGED <<ring, sema>>
      BY <1>3, <2>0, <2>4, <3>2, AsideKeeps, Zenon DEF EnqueueForRecvInsert, task
    <3> QED BY <3>1, <3>2, <2>4, Zenon DEF EnqueueForRecvInsert
  <2>5. CASE MlmeDequeue
    BY <2>0, <2>5, DequeueKeeps, Zenon
  <2>6. CASE PerformDone
    BY <2>0, <2>6, DoneKeeps, Zenon
  <2>7. CASE PeriodicWake \/ SuspendToggle \/ RadioToggle \/ Halt \/ UNCHANGED vars
    <3>1. UNCHANGED <<ring, cur, elemMsg>> /\ handler' = handler
      BY <2>7, Zenon DEF PeriodicWake, SuspendToggle, RadioToggle, Halt, vars, task
    <3> QED BY <1>3, <2>0, <3>1, AsideKeeps, Zenon
  <2>8. CASE ThreadWake \/ LoopTest
    <3>1. /\ UNCHANGED <<ring, cur, elemMsg>>
          /\ handler # "perform" /\ handler' \in {"wait", "loop", "dequeue"}
          /\ handler' = "dequeue" => num # 0
      BY <2>8 DEF ThreadWake, LoopTest
    <3> QED BY <1>3, <2>0, <3>1, AsideKeeps, Zenon
  <2>9. CASE MlmeQueueDestroy
    BY <2>9, <1>3, Zenon DEF MlmeQueueDestroy
  <2> QED
    BY <2>1, <2>2, <2>3, <2>4, <2>5, <2>6, <2>7, <2>8, <2>9, Zenon
    DEF Next, HandlerNext
<1> QED BY <1>2, <1>3, Zenon

\* Whatever threads race in MlmeEnqueue, MlmeEnqueueForRecv and MlmeHandler,
\* the ring counts the accepted messages, and until an insertion hits an
\* occupied entry, and again once the handler has caught up, it holds exactly
\* these in order.
THEOREM RingFifo == Spec => []RingIsFifo
<1>1. Init => IInv
  BY IInvInit
<1>2. IInv /\ [Next]_vars => IInv'
  BY IInvStep
<1>3. IInv => RingIsFifo
  BY DEF IInv, Order
<1> QED BY <1>1, <1>2, <1>3, PTL DEF Spec

\* With the same exception, the element MlmeHandler hands to a state machine by
\* pointer is not overwritten while it is being performed.
THEOREM ElemNotOverwritten == Spec => []ElemStable
<1>1. Init => IInv
  BY IInvInit
<1>2. IInv /\ [Next]_vars => IInv'
  BY IInvStep
<1>3. IInv => ElemStable
  BY DEF IInv, Order
<1> QED BY <1>1, <1>2, <1>3, PTL DEF Spec

-----------------------------------------------------------------------------
(* The ring implements the channel of MlmeFifo.                            *)

\* Every step of the ring is a step of the channel or none of its business.
LEMMA FifoStep ==
    ASSUME IInv, IInv', [Next]_vars
    PROVE  [Fifo!Next]_(Fifo!vars)
<1> DEFINE Q == IF phase = "destroyed" THEN << >> ELSE fifo
           E == IF phase # "destroyed" /\ handler = "perform"
                  THEN entry[cur].Msg ELSE NoMsg
           S == phase # "destroyed" /\ overrun
<1> USE DEF Fifo!Next, Fifo!vars
<1>0. /\ (phase # "destroyed" /\ handler = "perform") => E \in Msgs /\ E # NoMsg
      /\ (phase' # "destroyed" /\ handler' = "perform") => E' = entry'[cur'].Msg
      /\ ~(phase # "destroyed" /\ handler = "perform") => E = NoMsg
      /\ ~(phase' # "destroyed" /\ handler' = "perform") => E' = NoMsg
  BY MsgAssumption DEF IInv, Order, ElemBehindHead, Msgs
<1>a. S \in BOOLEAN /\ overrun \in BOOLEAN /\ overrun' \in BOOLEAN
  BY DEF IInv, TypeOK
<1>1. CASE phase = "destroyed"
  <2>1. phase' = "destroyed"
    BY <1>1, DestroyedStays, Zenon
  <2>2. Q = << >> /\ Q' = << >> /\ E = NoMsg /\ E' = NoMsg /\ S' = S
    BY <1>1, <2>1
  <2> QED BY <2>2, Zenon
<1>2. CASE phase # "destroyed"
  <2>0. Q = fifo /\ S = overrun
    BY <1>2, <1>a
  <2>1. ASSUME NEW m \in Msgs, Insert(m),
               UNCHANGED <<handler, cur, elemMsg, phase>>
        PROVE  Fifo!Accept(m)
    <3>1. Q' = Append(Q, m)
      BY <1>2, <2>1, Zenon DEF Insert
    <3>2. overrun' = (overrun \/ entry[tail].Occupied) /\ S' = overrun'
      BY <1>2, <1>a, <2>1, Zenon DEF Insert
    <3>3. Len(Q) + (IF E = NoMsg THEN 0 ELSE 1) = num + Held
      <4>1. Len(Q) = num /\ (E = NoMsg <=> handler # "perform")
        BY <1>0, <1>2, <2>0 DEF IInv, Order, RingIsFifo
      <4> QED BY <4>1, Zenon DEF Held
    <3>4. S' = (S \/ Len(Q) + (IF E = NoMsg THEN 0 ELSE 1) >= MaxLen)
      <4>1. CASE overrun
        BY <2>0, <3>2, <4>1, Zenon
      <4>2. CASE ~overrun
        <5>1. entry[tail].Occupied <=> num + Held >= MaxLen
          BY <1>2, <4>2, TailTaken, Zenon
        <5>2. entry[tail].Occupied \in BOOLEAN
          BY DEF IInv, TypeOK
        <5>3. S' = entry[tail].Occupied
          BY <3>2, <4>2, <5>2, Zenon
        <5>4. S' <=> num + Held >= MaxLen
          BY <5>1, <5>3, Zenon
        <5> QED BY <1>a, <2>0, <3>2, <3>3, <4>2, <5>4, Zenon
      <4> QED BY <4>1, <4>2, Zenon
    <3>5. E' = E \/ (S' /\ E # NoMsg /\ E' = m)
      <4>1. CASE handler # "perform"
        BY <1>0, <2>1, <4>1, Zenon
      <4>2. CASE handler = "perform"
        <5>1. E = entry[cur].Msg /\ E' = entry'[cur].Msg /\ E # NoMsg
          BY <1>0, <1>2, <2>1, <4>2, Zenon
        <5>2. CASE cur # tail
          <6>1. entry'[cur] = entry[cur]
            BY <2>1, <5>2 DEF Insert, IInv, TypeOK
          <6> QED BY <5>1, <6>1, Zenon
        <5>3. CASE cur = tail
          <6>1. entry'[cur].Msg = m
            BY <2>1, <5>3 DEF Insert, IInv, TypeOK
          <6>2. overrun \/ entry[tail].Occupied
            BY <1>2, <4>2, <5>3 DEF IInv, Order, ElemStable
          <6> QED BY <3>2, <5>1, <6>1, <6>2, Zenon
        <5> QED BY <5>2, <5>3, Zenon
      <4> QED BY <4>1, <4>2, Zenon
    <3> QED BY <3>1, <3>4, <3>5, Zenon DEF Fifo!Accept, Fifo!InUse
  <2>2. ASSUME UNCHANGED <<ring, cur, phase>>,
               handler = "perform" <=> handler' = "perform"
        PROVE  UNCHANGED <<Q, E, S>>
    <3>1. UNCHANGED <<fifo, entry, overrun>>
      BY <2>2, Zenon DEF ring
    <3> QED BY <2>2, <3>1, Zenon
  <2>3. ASSUME NEW t \in Callers, EnqueueCheck(t) \/ EnqueueInsert(t)
        PROVE  [Fifo!Next]_(Fifo!vars)
    <3>1. CASE EnqueueCheck(t)
      <4>1. UNCHANGED <<ring, cur, phase, handler>>
        BY <3>1, Zenon DEF EnqueueCheck, task, flags
      <4> QED BY <2>2, <4>1, Zenon
    <3>2. CASE EnqueueInsert(t)
      <4>1. PICK m \in Requests : Insert(m)
        BY <3>2, Zenon DEF EnqueueInsert
      <4>2. m \in Msgs
        BY Zenon DEF Msgs
      <4>3. UNCHANGED <<handler, cur, elemMsg, phase>>
        BY <3>2, Zenon DEF EnqueueInsert, task, flags
      <4> QED BY <4>1, <4>2, <4>3, <2>1, Zenon
    <3> QED BY <3>1, <3>2, <2>3, Zenon
  <2>4. ASSUME NEW t \in Receivers, EnqueueForRecvCheck(t) \/ EnqueueForRecvInsert(t)
        PROVE  [Fifo!Next]_(Fifo!vars)
    <3>1. CASE EnqueueForRecvCheck(t) \/ (EnqueueForRecvInsert(t) /\ UNCHANGED ring)
      <4>1. UNCHANGED <<ring, cur, phase, handler>>
        BY <3>1, Zenon DEF EnqueueForRecvCheck, EnqueueForRecvInsert, task, flags
      <4> QED BY <2>2, <4>1, Zenon
    <3>2. CASE EnqueueForRecvInsert(t) /\ \E m \in Frames : Insert(m)
      <4>1. PICK m \in Frames : Insert(m)
        BY <3>2, Zenon
      <4>2. m \in Msgs
        BY Zenon DEF Msgs
      <4>3. UNCHANGED <<handler, cur, elemMsg, phase>>
        BY <3>2, Zenon DEF EnqueueForRecvInsert, task, flags
      <4> QED BY <4>1, <4>2, <4>3, <2>1, Zenon
    <3> QED BY <3>1, <3>2, <2>4, Zenon DEF EnqueueForRecvInsert
  <2>5. CASE MlmeDequeue
    <3>1. num > 0 /\ num = Len(fifo) /\ fifo \in Seq(Msgs)
      BY <1>2, <2>5 DEF IInv, Order, RingIsFifo, TypeOK, DequeueFindsOne, MlmeDequeue
    <3>2. fifo # << >>
      BY <3>1
    <3>3. /\ fifo' = Tail(fifo) /\ elemMsg' = Head(fifo) /\ UNCHANGED <<phase, overrun>>
          /\ handler = "dequeue" /\ handler' = "perform"
      BY <2>5, <3>2, Zenon DEF MlmeDequeue, flags
    <3>4. E = NoMsg /\ Q # << >> /\ Q' = Tail(Q) /\ S' = S
      BY <1>0, <1>2, <3>2, <3>3
    <3>5. E' = entry'[cur'].Msg /\ E' \in Msgs
      BY <1>0, <1>2, <3>3, Zenon DEF IInv, Order, ElemBehindHead
    <3>6. ~overrun => E' = Head(Q)
      BY <1>2, <2>0, <3>3, <3>5 DEF IInv, Order, ElemStable
    <3>7. E' \in IF S THEN Msgs ELSE {Head(Q)}
      BY <2>0, <3>5, <3>6, Zenon
    <3> QED BY <3>4, <3>7, Zenon DEF Fifo!Take
  <2>6. CASE PerformDone
    <3>1. /\ handler = "perform" /\ handler' = "loop" /\ overrun' = (overrun /\ num # 0)
          /\ UNCHANGED <<fifo, phase>>
      BY <2>6, Zenon DEF PerformDone, flags
    <3>2. num # 0 <=> fifo # << >>
      BY <1>2 DEF IInv, Order, RingIsFifo, TypeOK
    <3>3. E # NoMsg /\ E' = NoMsg /\ Q' = Q
      BY <1>0, <1>2, <3>1
    <3>4. S' = (S /\ Q # << >>)
      BY <1>2, <2>0, <3>1, <3>2, Zenon
    <3> QED BY <3>3, <3>4, Zenon DEF Fifo!Done
  <2>7. CASE PeriodicWake \/ ThreadWake \/ LoopTest \/ SuspendToggle \/ RadioToggle
             \/ UNCHANGED vars
    <3>1. UNCHANGED <<ring, cur, phase>> /\ (handler = "perform" <=> handler' = "perform")
      BY <2>7 DEF PeriodicWake, ThreadWake, LoopTest, SuspendToggle, RadioToggle, vars,
         task, flags
    <3> QED BY <2>2, <3>1, Zenon
  <2>8. CASE Halt
    <3>1. /\ UNCHANGED <<fifo, entry, cur, handler, overrun>> /\ phase' = "halting"
      BY <2>8, Zenon DEF Halt, ring, task
    <3>2. Q' = Q /\ E' = E /\ S' = S
      BY <1>2, <3>1
    <3> QED BY <3>2, Zenon
  <2>9. CASE MlmeQueueDestroy
    <3>1. Q' = << >> /\ E' = NoMsg /\ S' = FALSE
      BY <2>9, <1>0 DEF MlmeQueueDestroy
    <3> QED BY <3>1, Zenon DEF Fifo!Destroy
  <2> QED
    BY <2>3, <2>4, <2>5, <2>6, <2>7, <2>8, <2>9, Zenon DEF Next, HandlerNext
<1> QED BY <1>1, <1>2, Zenon

\* The ring of MlmeEnqueue, MlmeEnqueueForRecv, MlmeDequeue and MlmeHandler
\* implements MlmeFifo, a first-in first-out channel of as many messages as the
\* ring has entries, the one in the handler's hands included.
THEOREM RingImplementsFifo == Spec => ImplementsFifo
<1>1. Init => IInv
  BY IInvInit
<1>2. IInv /\ [Next]_vars => IInv'
  BY IInvStep
<1>3. Init => Fifo!Init
  BY DEF Init, MlmeQueueInit, Fifo!Init
<1>4. IInv /\ IInv' /\ [Next]_vars => [Fifo!Next]_(Fifo!vars)
  BY FifoStep
<1> QED BY <1>1, <1>2, <1>3, <1>4, PTL DEF Spec, ImplementsFifo, Fifo!Spec

-----------------------------------------------------------------------------
(* Received frames leave half of the ring to the requests, under any load. *)

FrameSlots(s) == {i \in DOMAIN s : s[i] \in Frames}

\* Receivers between their full test and their insertion.
Receiving == {t \in Receivers : pc[t] = "insert"}

\* The ring counts the messages it holds, until it is destroyed.
Counted == phase # "destroyed" => num = Len(fifo)

\* A receiver that passed the test has its place already.
RoomKept ==
    Cardinality(FrameSlots(fifo)) + Cardinality(Receiving)
        < MaxLen \div 2 + Cardinality(Receivers)

RoomInv == TypeOK /\ Counted /\ DequeueFindsOne /\ RoomKept

\* A queue holds no more received frames than it holds messages.
LEMMA FrameSlotsFinite ==
    ASSUME NEW s \in Seq(Msgs)
    PROVE  /\ IsFiniteSet(FrameSlots(s)) /\ Cardinality(FrameSlots(s)) \in Nat
           /\ Cardinality(FrameSlots(s)) <= Len(s)
<1>0. FrameSlots(s) \subseteq 1 .. Len(s) /\ Len(s) \in Nat
  BY DEF FrameSlots
<1>1. IsFiniteSet(1 .. Len(s)) /\ Cardinality(1 .. Len(s)) = Len(s)
  <2>1. PICK n \in Nat : n = Len(s)
    BY <1>0
  <2>2. IsFiniteSet(1 .. n) /\ Cardinality(1 .. n) = IF 1 > n THEN 0 ELSE n - 1 + 1
    BY FS_Interval
  <2> QED BY <2>1, <2>2
<1>2. /\ IsFiniteSet(FrameSlots(s))
      /\ Cardinality(FrameSlots(s)) <= Cardinality(1 .. Len(s))
  BY <1>0, <1>1, FS_Subset
<1> QED BY <1>1, <1>2, FS_CardinalityType

\* An enqueue adds one received frame, or none if it is another message.
LEMMA FrameSlotsAppend ==
    ASSUME NEW s \in Seq(Msgs), NEW m \in Msgs
    PROVE  Cardinality(FrameSlots(Append(s, m))) =
              IF m \in Frames THEN Cardinality(FrameSlots(s)) + 1
              ELSE Cardinality(FrameSlots(s))
<1>1. CASE m \in Frames
  <2>1. FrameSlots(Append(s, m)) = FrameSlots(s) \cup {Len(s) + 1}
        /\ Len(s) + 1 \notin FrameSlots(s)
    BY <1>1 DEF FrameSlots
  <2> QED BY <1>1, <2>1, FrameSlotsFinite, FS_AddElement, Zenon
<1>2. CASE m \notin Frames
  <2>1. FrameSlots(Append(s, m)) = FrameSlots(s)
    BY <1>2 DEF FrameSlots
  <2> QED BY <1>2, <2>1
<1> QED BY <1>1, <1>2

\* A dequeue adds no received frame.
LEMMA FrameSlotsTail ==
    ASSUME NEW s \in Seq(Msgs), s # << >>
    PROVE  Cardinality(FrameSlots(Tail(s))) <= Cardinality(FrameSlots(s))
<1>1. /\ Tail(s) \in Seq(Msgs) /\ Len(Tail(s)) = Len(s) - 1
      /\ \A i \in 1 .. Len(Tail(s)) : Tail(s)[i] = s[i + 1]
  BY HeadTailProperties
<1> DEFINE f == [i \in FrameSlots(Tail(s)) |-> i + 1]
<1>2. ASSUME NEW i \in FrameSlots(Tail(s)) PROVE i \in Nat /\ i + 1 \in FrameSlots(s)
  BY <1>1, <1>2 DEF FrameSlots
<1>3. f \in Injection(FrameSlots(Tail(s)), FrameSlots(s))
  BY <1>2 DEF Injection, IsInjective
<1> QED BY <1>3, FrameSlotsFinite, FS_Injection

\* At most every receiver is past the check of the room and before its enqueue.
LEMMA ReceivingFinite ==
    /\ IsFiniteSet(Receiving) /\ Cardinality(Receiving) \in Nat
    /\ Cardinality(Receivers) \in Nat /\ Cardinality(Receiving) <= Cardinality(Receivers)
<1>1. Receiving \subseteq Receivers /\ IsFiniteSet(Receivers)
  BY ThreadAssumption DEF Receiving
<1>2. IsFiniteSet(Receiving) /\ Cardinality(Receiving) <= Cardinality(Receivers)
  BY <1>1, FS_Subset
<1> QED BY <1>1, <1>2, FS_CardinalityType

\* A step that appends no frame and lets no receiver pass.
LEMMA RoomSame ==
    ASSUME TypeOK, RoomKept, fifo' \in Seq(Msgs), Receiving' \subseteq Receiving,
           Cardinality(FrameSlots(fifo')) <= Cardinality(FrameSlots(fifo))
    PROVE  RoomKept'
<1>1. /\ Cardinality(FrameSlots(fifo)) \in Nat /\ Cardinality(FrameSlots(fifo')) \in Nat
  BY FrameSlotsFinite DEF TypeOK
<1>2. /\ IsFiniteSet(Receiving') /\ Cardinality(Receiving') <= Cardinality(Receiving)
  BY ReceivingFinite, FS_Subset
<1>3. Cardinality(Receiving') \in Nat
  BY <1>2, FS_CardinalityType
<1>4. MaxLen \div 2 \in Nat
  BY MaxLenAssumption
<1> QED BY <1>1, <1>2, <1>3, <1>4, ReceivingFinite DEF RoomKept

\* RoomInv holds at first.
LEMMA RoomInit == Init => RoomInv
<1> SUFFICES ASSUME Init PROVE RoomInv
  OBVIOUS
<1>1. fifo = << >> /\ num = 0 /\ handler = "wait"
  BY DEF Init, MlmeQueueInit
<1>2. FrameSlots(fifo) = {} /\ Receiving = {}
  BY <1>1 DEF FrameSlots, Receiving, Init, Threads
<1>3. Cardinality(FrameSlots(fifo)) = 0 /\ Cardinality(Receiving) = 0
  BY <1>2, FS_EmptySet
<1>4. RoomKept
  BY <1>3, ReceivingFinite, MaxLenAssumption DEF RoomKept
<1> QED BY <1>1, <1>4, TypeInit DEF RoomInv, Counted, DequeueFindsOne

\* Every step keeps RoomInv: a receiver that passes the test finds less than half
\* of the ring in use.
LEMMA RoomStep == RoomInv /\ [Next]_vars => RoomInv'
<1> SUFFICES ASSUME RoomInv, [Next]_vars PROVE RoomInv'
  OBVIOUS
<1> USE DEF ring, task, flags
<1>0. TypeOK /\ TypeOK' /\ fifo \in Seq(Msgs) /\ fifo' \in Seq(Msgs) /\ num \in Int
  BY TypeStep DEF RoomInv, TypeOK
<1>a. /\ Cardinality(FrameSlots(fifo)) \in Nat /\ Cardinality(FrameSlots(fifo)) <= Len(fifo)
      /\ Len(fifo) \in Nat /\ MaxLen \div 2 \in Nat
  BY <1>0, FrameSlotsFinite, MaxLenAssumption
<1>b. ASSUME UNCHANGED fifo, Receiving' \subseteq Receiving PROVE RoomKept'
  BY <1>0, <1>a, <1>b, RoomSame DEF RoomInv
<1>1. ASSUME NEW t \in Callers, EnqueueCheck(t) PROVE RoomInv'
  <2>1. Receiving' \subseteq Receiving
    BY <1>1, ThreadAssumption DEF EnqueueCheck, Receiving, Callers, TypeOK, RoomInv
  <2> QED
    BY <1>0, <1>1, <1>b, <2>1 DEF EnqueueCheck, RoomInv, Counted, DequeueFindsOne
<1>2. ASSUME NEW t \in Callers, EnqueueInsert(t) PROVE RoomInv'
  <2>1. PICK m \in Requests : Insert(m)
    BY <1>2 DEF EnqueueInsert
  <2>2. fifo' = Append(fifo, m) /\ num' = num + 1 /\ m \in Msgs /\ m \notin Frames
    BY <2>1, MsgAssumption DEF Insert, Msgs
  <2>3. Receiving' \subseteq Receiving
    BY <1>0, <1>2 DEF EnqueueInsert, Receiving, TypeOK
  <2>4. RoomKept'
    BY <1>0, <1>a, <2>2, <2>3, FrameSlotsAppend, RoomSame DEF RoomInv
  <2>5. Counted' /\ DequeueFindsOne'
    BY <1>0, <1>2, <2>2 DEF EnqueueInsert, RoomInv, Counted, DequeueFindsOne
  <2> QED BY <1>0, <2>4, <2>5 DEF RoomInv
<1>3. ASSUME NEW t \in Receivers, EnqueueForRecvCheck(t) PROVE RoomInv'
  <2>1. Len(fifo) < MaxLen \div 2
    BY <1>0, <1>3, <1>a DEF EnqueueForRecvCheck, QueueFullForRecv, RoomInv, Counted
  <2>2. Receiving' \subseteq Receivers
    BY DEF Receiving
  <2>3. IsFiniteSet(Receiving') /\ Cardinality(Receiving') <= Cardinality(Receivers)
    BY <2>2, ThreadAssumption, FS_Subset
  <2>4. Cardinality(Receiving') \in Nat
    BY <2>3, FS_CardinalityType
  <2>5. UNCHANGED <<fifo, num, handler, phase>>
    BY <1>3 DEF EnqueueForRecvCheck
  <2>6. RoomKept'
    BY <1>a, <2>1, <2>3, <2>4, <2>5, ReceivingFinite DEF RoomKept
  <2> QED BY <1>0, <2>5, <2>6 DEF RoomInv, Counted, DequeueFindsOne
<1>4. ASSUME NEW t \in Receivers, EnqueueForRecvInsert(t) PROVE RoomInv'
  <2>1. Receiving' = Receiving \ {t} /\ t \in Receiving
    BY <1>0, <1>4, ThreadAssumption DEF EnqueueForRecvInsert, Receiving, TypeOK, Threads
  <2>2. CASE UNCHANGED ring
    <3>1. RoomKept'
      BY <1>b, <2>1, <2>2
    <3> QED
      BY <1>0, <1>4, <2>2, <3>1 DEF EnqueueForRecvInsert, RoomInv, Counted, DequeueFindsOne
  <2>3. ASSUME NEW m \in Frames, Insert(m) PROVE RoomInv'
    <3>1. fifo' = Append(fifo, m) /\ num' = num + 1 /\ m \in Msgs
      BY <2>3 DEF Insert, Msgs
    <3>2. Cardinality(FrameSlots(fifo')) = Cardinality(FrameSlots(fifo)) + 1
      BY <1>0, <3>1, FrameSlotsAppend
    <3>3. Cardinality(Receiving') = Cardinality(Receiving) - 1
      BY <2>1, ReceivingFinite, FS_RemoveElement, Zenon
    <3>4. RoomKept'
      BY <1>a, <3>2, <3>3, ReceivingFinite DEF RoomKept, RoomInv
    <3>5. Counted' /\ DequeueFindsOne'
      BY <1>0, <1>4, <3>1 DEF EnqueueForRecvInsert, RoomInv, Counted, DequeueFindsOne
    <3> QED BY <1>0, <3>4, <3>5 DEF RoomInv
  <2> QED BY <1>4, <2>2, <2>3 DEF EnqueueForRecvInsert
<1>5. CASE MlmeDequeue
  <2>1. Receiving' = Receiving
    BY <1>5 DEF MlmeDequeue, Receiving
  <2>2. CASE fifo = << >>
    <3>1. UNCHANGED <<fifo, phase>> /\ phase = "destroyed" /\ handler' = "perform"
      BY <1>0, <1>5, <2>2, SMTT(20), Z3T(20) DEF MlmeDequeue, RoomInv, Counted, DequeueFindsOne
    <3> QED
      BY <1>0, <1>b, <2>1, <3>1 DEF RoomInv, Counted, DequeueFindsOne
  <2>3. CASE fifo # << >>
    <3>1. /\ fifo' = Tail(fifo) /\ num' = num - 1 /\ UNCHANGED phase
          /\ handler' = "perform"
      BY <1>5, <2>3 DEF MlmeDequeue
    <3>2. Len(fifo') = Len(fifo) - 1
      BY <1>0, <2>3, <3>1, HeadTailProperties
    <3>3. RoomKept'
      BY <1>0, <2>1, <2>3, <3>1, FrameSlotsTail, RoomSame DEF RoomInv
    <3> QED
      BY <1>0, <3>1, <3>2, <3>3, Zenon DEF RoomInv, Counted, DequeueFindsOne
  <2> QED BY <2>2, <2>3
<1>6. CASE MlmeQueueDestroy
  <2>1. fifo' = << >> /\ phase' = "destroyed" /\ Receiving' = Receiving
    BY <1>6 DEF MlmeQueueDestroy, Receiving
  <2>2. FrameSlots(fifo') = {}
    BY <2>1 DEF FrameSlots
  <2>3. Cardinality(FrameSlots(fifo')) <= Cardinality(FrameSlots(fifo))
    BY <1>a, <2>2, FS_EmptySet
  <2>4. RoomKept'
    BY <1>0, <2>1, <2>3, RoomSame DEF RoomInv
  <2> QED BY <1>0, <2>1, <2>4 DEF RoomInv, Counted, DequeueFindsOne
<1>7. CASE LoopTest
  <2>1. /\ UNCHANGED <<fifo, num, phase>> /\ Receiving' = Receiving
        /\ handler' = "dequeue" => num # 0
    BY <1>7 DEF LoopTest, Receiving
  <2>2. Counted' /\ DequeueFindsOne'
    BY <1>0, <1>a, <2>1 DEF RoomInv, Counted, DequeueFindsOne
  <2> QED BY <1>0, <1>b, <2>1, <2>2, Zenon DEF RoomInv
<1>8. CASE \/ PeriodicWake \/ ThreadWake \/ PerformDone \/ SuspendToggle \/ RadioToggle
           \/ Halt
           \/ UNCHANGED vars
  <2>1. /\ UNCHANGED <<fifo, num>> /\ Receiving' = Receiving
        /\ handler' = "dequeue" => handler = "dequeue"
        /\ phase' # "destroyed" => phase # "destroyed"
    BY <1>8 DEF PeriodicWake, ThreadWake, PerformDone, SuspendToggle, RadioToggle, Halt,
       vars, Receiving
  <2>2. Counted' /\ DequeueFindsOne'
    BY <2>1 DEF RoomInv, Counted, DequeueFindsOne
  <2> QED BY <1>0, <1>b, <2>1, <2>2 DEF RoomInv
<1> QED
  BY <1>1, <1>2, <1>3, <1>4, <1>5, <1>6, <1>7, <1>8, Zenon DEF Next, HandlerNext

\* MlmeQueueFull(Queue, 0): however many messages are outstanding, received
\* frames hold less than half of the ring and one entry for each receiver.
THEOREM RequestsHaveRoom == Spec => []FramesLeaveRoom
<1>1. RoomInv => FramesLeaveRoom
  BY FrameSlotsFinite, ReceivingFinite, MaxLenAssumption, SMTT(20), Z3T(20)
     DEF RoomInv, TypeOK, RoomKept, FramesLeaveRoom, FrameSlots
<1> QED BY <1>1, RoomInit, RoomStep, PTL DEF Spec
=============================================================================
