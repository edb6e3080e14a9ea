------------------------------ MODULE MlmeQueue ------------------------------
(***************************************************************************)
(* The MLME message ring of common/mlme.c, its producers and its single    *)
(* consumer, the MLME thread (os/linux/rt_usb.c).                          *)
(*                                                                         *)
(* Every critical section of Queue->Lock is one action.  MlmeEnqueue and   *)
(* MlmeEnqueueForRecv test MlmeQueueFull in one critical section and       *)
(* insert in a second one, so each is two actions of the calling thread.   *)
(* MlmeHandler tests for emptiness, dequeues, performs the state-machine   *)
(* action on the element IN the ring, and then marks it free without the   *)
(* lock.                                                                   *)
(***************************************************************************)
EXTENDS Integers, Sequences, FiniteSets

CONSTANTS
    MaxLen,     \* MAX_LEN_OF_MLME_QUEUE
    Requests,   \* contents of internal messages (requests, timeouts)
    Frames,     \* contents of received management frames
    NoMsg,      \* the content of an entry never written
    Senders,    \* threads calling MlmeEnqueue: timer thread, ioctls, ...
    Receivers,  \* contexts calling MlmeEnqueueForRecv: the rx tasklet
    MlmeTask,   \* the MLME thread, itself a caller of MlmeEnqueue
    MaxNum      \* bound on Num.  The ring may take more than MaxLen messages,
                \* and from there Num == MAX_LEN_OF_MLME_QUEUE stops no one

ASSUME MaxLenAssumption == MaxLen \in Nat /\ MaxLen >= 2
ASSUME MaxNumAssumption == MaxNum \in Nat /\ MaxNum > MaxLen
ASSUME ThreadAssumption ==
    /\ IsFiniteSet(Senders) /\ IsFiniteSet(Receivers)
    /\ Senders \cap Receivers = {}
    /\ MlmeTask \notin Senders \cup Receivers
ASSUME MsgAssumption ==
    NoMsg \notin Requests \cup Frames /\ Requests \cap Frames = {}

VARIABLES
    entry,      \* entry[i] = [Occupied, Msg]
    head, tail, num,
    pc,         \* pc[t]: "idle", or "insert" between the two sections
    handler,    \* "wait", "loop", "dequeue" or "perform"
    cur,        \* Elem: the slot the handler works on, when it performs
    sema,       \* the MLME semaphore is up
    suspend,    \* fRTMP_ADAPTER_SUSPEND
    radioOff,   \* a flag on which MlmePeriodicExec returns at once
    phase,      \* "run", "halting" (HALT_IN_PROGRESS), "destroyed"
    fifo,       \* history: messages accepted and not yet dequeued, in order
    elemMsg,    \* history: the message that the handler took
    overrun     \* history: an insertion hit an occupied entry, and the handler
                \* has not caught up since

ring == <<entry, head, tail, num, fifo, overrun>>
task == <<handler, cur, elemMsg>>
flags == <<suspend, radioOff, phase>>
vars == <<ring, task, pc, sema, flags>>

Msgs == Requests \cup Frames
Slots == 0 .. MaxLen - 1
Callers == Senders \cup {MlmeTask}
Threads == Callers \cup Receivers

\* Deviation: the wrap-around test is one too late.
WrapLate(x) == IF x > MaxLen THEN x - MaxLen ELSE x

\* if (x == MAX_LEN_OF_MLME_QUEUE) x = 0; the properties use it below 2*MaxLen
Wrap(x) == IF x >= MaxLen THEN x - MaxLen ELSE x

\* The entry the handler works on is still in use, though Num leaves it out.
Held == IF handler = "perform" THEN 1 ELSE 0

-----------------------------------------------------------------------------
MlmeQueueInit ==
    /\ num = 0 /\ head = 0 /\ tail = 0
    /\ entry = [i \in Slots |-> [Occupied |-> FALSE, Msg |-> NoMsg]]

Init ==
    /\ MlmeQueueInit
    /\ pc = [t \in Threads |-> "idle"]
    /\ handler = "wait" /\ cur = 0 /\ sema = FALSE
    /\ suspend = FALSE /\ radioOff = FALSE /\ phase = "run"
    /\ fifo = << >> /\ elemMsg = NoMsg /\ overrun = FALSE

\* SendId 1, the internal requests: the whole ring may be used.
QueueFullForSend == num = MaxLen

\* Deviation: received frames may use the whole ring.
QueueFullForRecvWhole == num = MaxLen

\* SendId 0, the received frames: half of the ring, and never an entry that
\* is still marked occupied.
QueueFullForRecv == num >= MaxLen \div 2 \/ entry[tail].Occupied

\* First half of MlmeEnqueue: flags and MlmeQueueFull(Queue, 1).  The MLME
\* thread enqueues only from within a state-machine action.
EnqueueCheck(t) ==
    /\ pc[t] = "idle"
    /\ t = MlmeTask => handler = "perform"
    /\ num < MaxNum
    /\ phase = "run"
    /\ ~QueueFullForSend
    /\ pc' = [pc EXCEPT ![t] = "insert"]
    /\ UNCHANGED <<ring, task, sema, flags>>

\* First half of MlmeEnqueueForRecv: flags and MlmeQueueFull(Queue, 0).
EnqueueForRecvCheck(t) ==
    /\ pc[t] = "idle"
    /\ num < MaxNum
    /\ phase = "run"
    /\ ~QueueFullForRecv
    /\ pc' = [pc EXCEPT ![t] = "insert"]
    /\ UNCHANGED <<ring, task, sema, flags>>

\* Deviation: the entry is filled through the already advanced tail.
InsertAtNewTail(m) ==
    /\ entry' = [entry EXCEPT ![Wrap(tail + 1)] = [Occupied |-> TRUE, Msg |-> m]]
    /\ tail' = Wrap(tail + 1)
    /\ num' = num + 1
    /\ fifo' = Append(fifo, m)
    /\ overrun' = (overrun \/ (phase # "destroyed" /\ entry[tail].Occupied))
    /\ UNCHANGED head

\* The locked insertion, the same in both functions.
Insert(m) ==
    /\ entry' = [entry EXCEPT ![tail] = [Occupied |-> TRUE, Msg |-> m]]
    /\ tail' = Wrap(tail + 1)
    /\ num' = num + 1
    /\ fifo' = Append(fifo, m)
    /\ overrun' = (overrun \/ (phase # "destroyed" /\ entry[tail].Occupied))
    /\ UNCHANGED head

\* Second half of MlmeEnqueue.  Some callers follow it with
\* RTMP_MLME_HANDLER, some leave the wake-up to MlmePeriodicExec.
EnqueueInsert(t) ==
    /\ pc[t] = "insert"
    /\ pc' = [pc EXCEPT ![t] = "idle"]
    /\ \E m \in Requests : Insert(m)
    /\ sema' \in {sema, TRUE}
    /\ UNCHANGED <<task, flags>>

\* Second half of MlmeEnqueueForRecv, which always wakes the MLME thread.
\* MsgTypeSubst may reject the frame after the queue was found not full.
EnqueueForRecvInsert(t) ==
    /\ pc[t] = "insert"
    /\ pc' = [pc EXCEPT ![t] = "idle"]
    /\ \/ (\E m \in Frames : Insert(m)) /\ sema' = TRUE
       \/ UNCHANGED <<ring, sema>>
    /\ UNCHANGED <<task, flags>>

\* MlmePeriodicExec does nothing during a halt, with the radio off or measuring,
\* in a reset, before the start is over, or in monitor mode.
PeriodicReturns == phase # "run" \/ radioOff

\* Deviation: the periodic function does not wake the MLME thread.
PeriodicNoWake == ~PeriodicReturns /\ UNCHANGED vars

\* The end of its one-second part.
PeriodicWake ==
    /\ ~PeriodicReturns
    /\ sema' = TRUE
    /\ UNCHANGED <<ring, task, pc, flags>>

-----------------------------------------------------------------------------
\* MlmeThread: the semaphore is taken and MlmeHandler entered.  A second
\* runner is kept out by bRunning; there is only this thread.
ThreadWake ==
    /\ handler = "wait" /\ sema
    /\ sema' = FALSE
    /\ handler' = "loop"
    /\ UNCHANGED <<ring, cur, elemMsg, pc, flags>>

Stopped == phase # "run" \/ suspend

\* while (!MlmeQueueEmpty) and the flags tested at the head of the loop.
LoopTest ==
    /\ handler = "loop"
    /\ handler' = IF num = 0 \/ Stopped THEN "wait" ELSE "dequeue"
    /\ UNCHANGED <<ring, cur, elemMsg, pc, sema, flags>>

\* Deviation: the entry is released when it is dequeued, not when it is done.
DequeueFrees ==
    /\ handler = "dequeue"
    /\ cur' = head
    /\ head' = Wrap(head + 1)
    /\ num' = num - 1
    /\ handler' = "perform"
    /\ entry' = [entry EXCEPT ![head].Occupied = FALSE]
    /\ fifo' = Tail(fifo) /\ elemMsg' = Head(fifo)
    /\ UNCHANGED <<tail, overrun, pc, sema, flags>>

\* MlmeDequeue hands out a pointer into the ring and never fails.
MlmeDequeue ==
    /\ handler = "dequeue"
    /\ cur' = head
    /\ head' = Wrap(head + 1)
    /\ num' = num - 1
    /\ handler' = "perform"
    /\ IF fifo = << >>
         THEN fifo' = fifo /\ elemMsg' = entry[head].Msg
         ELSE fifo' = Tail(fifo) /\ elemMsg' = Head(fifo)
    /\ UNCHANGED <<entry, tail, overrun, pc, sema, flags>>

\* Deviation: the entry stays marked occupied.
PerformKeeps ==
    /\ handler = "perform"
    /\ pc[MlmeTask] = "idle"
    /\ handler' = "loop"
    /\ elemMsg' = NoMsg
    /\ overrun' = (overrun /\ num # 0)
    /\ UNCHANGED <<entry, head, tail, num, fifo, cur, pc, sema, flags>>

\* The state-machine action has returned: Elem->Occupied = FALSE, no lock.
PerformDone ==
    /\ handler = "perform"
    /\ pc[MlmeTask] = "idle"
    /\ entry' = [entry EXCEPT ![cur].Occupied = FALSE]
    /\ handler' = "loop"
    /\ elemMsg' = NoMsg
    /\ overrun' = (overrun /\ num # 0)
    /\ UNCHANGED <<head, tail, num, fifo, cur, pc, sema, flags>>

-----------------------------------------------------------------------------
\* CMD_RTPRIV_IOCTL_ADAPTER_SUSPEND_SET and _CLEAR; the latter wakes nobody.
SuspendToggle ==
    /\ suspend' = ~suspend
    /\ UNCHANGED <<ring, task, pc, sema, radioOff, phase>>

\* The radio is switched off or on, measured or reset, or monitor mode changes.
RadioToggle ==
    /\ radioOff' = ~radioOff
    /\ UNCHANGED <<ring, task, pc, sema, suspend, phase>>

\* RTMPDrvClose raises HALT_IN_PROGRESS ...
Halt ==
    /\ phase = "run"
    /\ phase' = "halting"
    /\ UNCHANGED <<ring, task, pc, sema, suspend, radioOff>>

\* ... and MlmeHalt ends in MlmeQueueDestroy, before the MLME thread is
\* stopped by RtmpMgmtTaskExit.
MlmeQueueDestroy ==
    /\ phase = "halting"
    /\ phase' = "destroyed"
    /\ num' = 0 /\ head' = 0 /\ tail' = 0
    /\ fifo' = << >>
    /\ UNCHANGED <<entry, overrun, task, pc, sema, suspend, radioOff>>

HandlerNext == ThreadWake \/ LoopTest \/ MlmeDequeue \/ PerformDone

Next ==
    \/ \E t \in Callers : EnqueueCheck(t) \/ EnqueueInsert(t)
    \/ \E t \in Receivers : EnqueueForRecvCheck(t) \/ EnqueueForRecvInsert(t)
    \/ PeriodicWake
    \/ HandlerNext
    \/ SuspendToggle
    \/ RadioToggle
    \/ Halt
    \/ MlmeQueueDestroy

Spec == Init /\ [][Next]_vars

\* The MLME thread and the threads inside an enqueue are scheduled, and the
\* periodic timer keeps firing.
Fairness ==
    /\ WF_vars(HandlerNext)
    /\ WF_vars(PeriodicWake)
    /\ \A t \in Callers : WF_vars(EnqueueInsert(t))
    /\ \A t \in Receivers : WF_vars(EnqueueForRecvInsert(t))

FairSpec == Spec /\ Fairness

-----------------------------------------------------------------------------
\* The type invariant of the ring and of the threads around it.  num goes
\* negative when MlmeHandler dequeues from a ring MlmeHalt has destroyed.
TypeOK ==
    /\ entry \in [Slots -> [Occupied : BOOLEAN, Msg : Msgs \cup {NoMsg}]]
    /\ head \in Slots /\ tail \in Slots /\ num \in Int
    /\ pc \in [Threads -> {"idle", "insert"}]
    /\ handler \in {"wait", "loop", "dequeue", "perform"}
    /\ cur \in Slots
    /\ sema \in BOOLEAN /\ suspend \in BOOLEAN /\ radioOff \in BOOLEAN
    /\ phase \in {"run", "halting", "destroyed"}
    /\ fifo \in Seq(Msgs) /\ elemMsg \in Msgs \cup {NoMsg}
    /\ overrun \in BOOLEAN

\* The ring counts the messages for which MlmeEnqueue or MlmeEnqueueForRecv
\* returned TRUE and that MlmeDequeue has not yet handed out; and, unless it
\* overran since the handler last caught up, it holds exactly these, in order,
\* each in an occupied entry: none is lost, overwritten or reordered by
\* enqueuers racing each other and the handler.
RingIsFifo ==
    phase # "destroyed" =>
        /\ num = Len(fifo)
        /\ ~overrun =>
              /\ num + Held <= MaxLen
              /\ tail = Wrap(head + num)
              /\ \A i \in 1 .. Len(fifo) :
                    entry[Wrap(head + i - 1)] = [Occupied |-> TRUE, Msg |-> fifo[i]]

\* While a state-machine action works on cur, a pointer into the ring, the
\* element is the message it was dequeued as and stays marked occupied, again
\* unless the ring overran.
ElemStable ==
    (handler = "perform" /\ phase # "destroyed" /\ ~overrun) =>
        entry[cur] = [Occupied |-> TRUE, Msg |-> elemMsg]

\* MlmeQueueFull(Queue, 0) keeps half of the ring for internal requests:
\* received frames never hold more entries than the half, plus one for each
\* further receiver that was between its test and its insertion.
FramesLeaveRoom ==
    Cardinality({i \in DOMAIN fifo : fifo[i] \in Frames})
        < MaxLen \div 2 + Cardinality(Receivers)

\* A queued message does not wait forever, whether or not its enqueuer woke
\* the MLME thread and across a suspend and resume: MlmePeriodicExec wakes it,
\* as long as it does not return early.
Dispatched ==
    (num > 0 /\ ~Stopped /\ ~radioOff) ~> (handler = "perform" \/ Stopped \/ radioOff)

\* The ring implements the channel its callers get: what the handler reads from
\* it is the oldest accepted message until the messages waiting and the one in
\* the handler's hands are more than the ring has entries, no sooner, and again
\* when the handler has worked them off.
Fifo == INSTANCE MlmeFifo WITH
    Capacity <- MaxLen,
    queue <- IF phase = "destroyed" THEN << >> ELSE fifo,
    elem <- IF phase # "destroyed" /\ handler = "perform"
              THEN entry[cur].Msg ELSE NoMsg,
    spoiled <- phase # "destroyed" /\ overrun

ImplementsFifo == Fifo!Spec
=============================================================================
