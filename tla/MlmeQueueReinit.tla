-------------------------- MODULE MlmeQueueReinit --------------------------
(***************************************************************************)
(* MlmeQueueInit as PeerBeacon (sta/sync.c) calls it at run time, on a     *)
(* channel switch announcement: from inside a state-machine action, on     *)
(* the live ring, without Queue->Lock.  Its stores to Num, Head, Tail and  *)
(* the entries are separate steps, between which other threads enqueue.    *)
(***************************************************************************)
EXTENDS MlmeQueue

VARIABLE reinit     \* how far MlmeQueueInit has come, "no" when not inside

rvars == <<vars, reinit>>

\* The MLME thread is in MlmeQueueInit, not in MlmeEnqueue.
MayStep(from) ==
    handler = "perform" /\ pc[MlmeTask] = "idle" /\ reinit = from

ReinitNum ==
    /\ MayStep("no") /\ phase = "run"
    /\ num' = 0 /\ fifo' = << >>
    /\ reinit' = "num"
    /\ UNCHANGED <<entry, head, tail, overrun, pc, task, sema, flags>>

ReinitHead ==
    /\ MayStep("num")
    /\ head' = 0
    /\ reinit' = "head"
    /\ UNCHANGED <<entry, tail, num, fifo, overrun, pc, task, sema, flags>>

ReinitTail ==
    /\ MayStep("head")
    /\ tail' = 0
    /\ reinit' = "tail"
    /\ UNCHANGED <<entry, head, num, fifo, overrun, pc, task, sema, flags>>

\* The loop over the entries.  The handler's own element is cleared with them.
ReinitEntries ==
    /\ MayStep("tail")
    /\ entry' = [i \in Slots |-> [Occupied |-> FALSE, Msg |-> NoMsg]]
    /\ reinit' = "no"
    /\ UNCHANGED <<head, tail, num, fifo, overrun, pc, task, sema, flags>>

\* The other threads go on; the MLME thread returns from MlmeQueueInit first.
OtherStep ==
    /\ Next
    /\ reinit # "no" => UNCHANGED task /\ pc'[MlmeTask] = "idle"
    /\ UNCHANGED reinit

RInit == Init /\ reinit = "no"

RNext ==
    \/ ReinitNum \/ ReinitHead \/ ReinitTail \/ ReinitEntries
    \/ OtherStep

RSpec == RInit /\ [][RNext]_rvars

\* Outside MlmeQueueInit the indices of the ring agree: Tail is Num entries
\* after Head, so that MlmeDequeue finds what MlmeEnqueue stored.
IndexConsistent ==
    (reinit = "no" /\ phase # "destroyed") => tail = (head + num) % MaxLen
=============================================================================
