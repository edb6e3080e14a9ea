----------------------------- MODULE UsbBulkIn ------------------------------
(***************************************************************************)
(* The bulk-in path: the ring of receive contexts, the receive tasklet,    *)
(* the threads that call RTUSBBulkReceive, and the command thread that     *)
(* restarts a failed pipe (common/rtusb_bulk.c, common/rtusb_io.c,         *)
(* os/linux/rt_usb.c, chips/rt65xx.c).                                     *)
(*                                                                         *)
(* Three actors interleave at their critical sections (BulkInLock) and at  *)
(* every test or change of an adapter flag in between:                     *)
(*   tk   the receive tasklet                                              *)
(*   rd   the thread that turns the radio off and on                       *)
(*   cm   the command thread                                               *)
(* Sleep between beacons, which also cancels the pending URB, is not here. *)
(***************************************************************************)
EXTENDS Integers, Sequences, FiniteSets

CONSTANTS
    N,          \* RX_RING_SIZE
    Loads,      \* records [errs, offs, nomem, removed], see load
    MaxBufs     \* bound: buffers the device fills

ASSUME RingAssumption == N \in Nat \ {0} /\ MaxBufs \in Nat

VARIABLES
    load,       \* what may still happen: errs bulk-ins end badly, offs times
                \* the radio goes off, nomem submissions or commands fail; removed:
                \* the device may turn out to be gone
    ctx,        \* RxContext: [use: InUse, irp: IRPPending, readable: Readable,
                \*             hdl: bRxHandling, data: the buffer it holds or 0]
    inIdx,      \* NextRxBulkInIndex
    rdIdx,      \* NextRxBulkInReadIndex
    pending,    \* PendingRx, an 8-bit counter
    flags,      \* the adapter flags that are set
    cmds,       \* the command queue
    urb,        \* per context: "idle", "active" (with the host controller),
                \* or the result the tasklet has yet to see
    task,       \* the URB rx_done_task is scheduled for, or NoTask
    pc,         \* per actor: [at: next step, i: its context, then: return point]
    mishap,     \* what went wrong so far without the code taking note, see
                \* Submit, Clear, RxFail and the Reset actions
    filled,     \* buffers filled by the device
    handled     \* buffers handed to STARxDoneInterruptHandle

vars == <<load, ctx, inIdx, rdIdx, pending, flags, cmds, urb, task, pc,
          mishap, filled, handled>>
ring == <<ctx, inIdx, rdIdx, pending>>
usb  == <<urb, task, filled>>

Idx    == 0 .. N - 1
NoTask == N
Actors == {"tk", "rd", "cm"}

\* Mutant of Inc: wraps one too late.
IncPast(i) == IF i = N THEN 0 ELSE i + 1

\* INC_RING_INDEX.
Inc(i) == (i + 1) % N

\* fRTMP_ADAPTER_NEED_STOP_HANDLE_RX and fRTMP_ADAPTER_NEED_STOP_RX.
StopHandle == {"NIC_NOT_EXIST", "RADIO_OFF"}
StopRx     == StopHandle \cup {"BULKIN_RESET"}

Stopped(S) == flags \cap S # {} /\ "POLL_IDLE" \notin flags

At(a, l)   == pc[a].at = l
Goto(a, l) == pc' = [pc EXCEPT ![a].at = l]
Call(a, l, i, then) == pc' = [pc EXCEPT ![a] = [at |-> l, i |-> i, then |-> then]]
Return(a)  == Goto(a, pc[a].then)

-----------------------------------------------------------------------------
(* RTUSBBulkReceive and DoBulkIn, run by any actor. *)

\* The sanity check on entry.
Recv(a) ==
    /\ At(a, "recv")
    /\ IF Stopped(StopHandle) THEN Return(a) ELSE Goto(a, "scan")
    /\ UNCHANGED <<load, ring, flags, cmds, usb, handled, mishap>>

\* Mutant of Scan: does not look at bRxHandling.
ScanAgain(a) ==
    LET c == ctx[rdIdx]
    IN  /\ At(a, "scan")
        /\ \/ /\ ~c.use /\ c.readable
              /\ ctx' = [ctx EXCEPT ![rdIdx].hdl = TRUE]
              /\ pc' = [pc EXCEPT ![a].at = "handle", ![a].i = rdIdx]
           \/ (c.use \/ ~c.readable) /\ Goto(a, "kick") /\ UNCHANGED ctx
        /\ UNCHANGED <<load, inIdx, rdIdx, pending, flags, cmds, usb, handled, mishap>>

\* Take the oldest filled buffer unless somebody else works on it.
Scan(a) ==
    LET c == ctx[rdIdx]
    IN  /\ At(a, "scan")
        /\ \/ /\ ~c.use /\ c.readable /\ ~c.hdl
              /\ ctx' = [ctx EXCEPT ![rdIdx].hdl = TRUE]
              /\ pc' = [pc EXCEPT ![a].at = "handle", ![a].i = rdIdx]
           \/ /\ c.use \/ ~c.readable \/ c.hdl
              /\ Goto(a, "kick")
              /\ UNCHANGED ctx
        /\ UNCHANGED <<load, inIdx, rdIdx, pending, flags, cmds, usb, handled, mishap>>

\* STARxDoneInterruptHandle is through with the buffer.
Handle(a) ==
    LET i == pc[a].i
    IN  /\ At(a, "handle")
        /\ ctx' = [ctx EXCEPT ![i].data = 0, ![i].readable = FALSE, ![i].hdl = FALSE]
        /\ rdIdx' = Inc(rdIdx)
        /\ handled' = handled + 1
        /\ Goto(a, "scan")
        /\ UNCHANGED <<load, inIdx, pending, flags, cmds, usb, mishap>>

Kick(a) ==
    /\ At(a, "kick")
    /\ IF Stopped(StopRx) \/ "IDLE_RADIO_OFF" \in flags
       THEN Return(a) ELSE Goto(a, "claim")
    /\ UNCHANGED <<load, ring, flags, cmds, usb, handled, mishap>>

\* Takes the context at NextRxBulkInIndex if ok.
ClaimIf(a, ok) ==
    /\ At(a, "claim")
    /\ \/ ~ok /\ Return(a) /\ UNCHANGED <<ctx, pending>>
       \/ /\ ok
          /\ ctx' = [ctx EXCEPT ![inIdx].use = TRUE, ![inIdx].irp = TRUE]
          /\ pending' = pending + 1
          /\ pc' = [pc EXCEPT ![a].at = "submit", ![a].i = inIdx]
    /\ UNCHANGED <<load, inIdx, rdIdx, flags, cmds, usb, handled, mishap>>

\* Mutants of Claim: without the test of Readable; of InUse and PendingRx.
ClaimFull(a) == ClaimIf(a, pending = 0 /\ ~ctx[inIdx].use)
ClaimTwice(a) == ClaimIf(a, ~ctx[inIdx].readable)

\* DoBulkIn: claim the next context, if none is pending, ...
Claim(a) ==
    ClaimIf(a, pending = 0 /\ ~ctx[inIdx].readable /\ ~ctx[inIdx].use)

\* ... and submit its URB, or take the claim back; nobody tries again.
Submit(a) ==
    LET i == pc[a].i
    IN  /\ At(a, "submit")
        /\ \/ urb' = [urb EXCEPT ![i] = "active"] /\ UNCHANGED <<load, ctx, pending, mishap>>
           \/ /\ load.nomem > 0
              /\ load' = [load EXCEPT !.nomem = @ - 1]
              /\ ctx' = [ctx EXCEPT ![i].use = FALSE, ![i].irp = FALSE]
              /\ pending' = (pending - 1) % 256
              /\ mishap' = mishap \cup {"refused"}
              /\ UNCHANGED urb
        /\ Return(a)
        /\ UNCHANGED <<inIdx, rdIdx, flags, cmds, task, filled, handled>>

-----------------------------------------------------------------------------
(* RTUSBCancelPendingBulkInIRP, for the contexts from pc[a].i on. *)

\* The host gives an URB back: RTUSBBulkRxComplete schedules the tasklet.
Complete(i, result) ==
    /\ urb' = [urb EXCEPT ![i] = result]
    /\ task' = i

\* RTUSB_UNLINK_URB waits until an active URB has been given back.
Cancel(a) ==
    LET i == pc[a].i
    IN  /\ At(a, "cancel")
        /\ \/ i = N /\ Return(a) /\ UNCHANGED <<urb, task>>
           \/ /\ i < N
              /\ ~ctx[i].irp
              /\ pc' = [pc EXCEPT ![a].i = i + 1]
              /\ UNCHANGED <<urb, task>>
           \/ /\ i < N
              /\ ctx[i].irp
              /\ IF urb[i] = "active" THEN Complete(i, "err")
                 ELSE UNCHANGED <<urb, task>>
              /\ Goto(a, "clear")
        /\ UNCHANGED <<load, ring, flags, cmds, filled, handled, mishap>>

\* Context i has an URB that is, or is about to be, with the host.
InFlight(i) ==
    urb[i] = "active" \/ \E a \in Actors : At(a, "submit") /\ pc[a].i = i

\* No lock is held: the context may have been claimed since, and its URB goes
\* to the host all the same.
Clear(a) ==
    LET i == pc[a].i
    IN  /\ At(a, "clear")
        /\ ctx' = [ctx EXCEPT ![i].irp = FALSE, ![i].use = FALSE]
        /\ mishap' = mishap \cup IF InFlight(i) THEN {"torn"} ELSE {}
        /\ pc' = [pc EXCEPT ![a].at = "cancel", ![a].i = i + 1]
        /\ UNCHANGED <<load, inIdx, rdIdx, pending, flags, cmds, usb, handled>>
-----------------------------------------------------------------------------
(* The host controller and the receive tasklet. *)

\* A bulk-in ends: with data, with none, or with an error.
HostCompletes(i) ==
    /\ urb[i] = "active"
    /\ \/ /\ filled < MaxBufs
          /\ Complete(i, "ok")
          /\ filled' = filled + 1
          /\ UNCHANGED load
       \/ /\ load.errs > 0
          /\ \E r \in {"zero", "err"} : Complete(i, r)
          /\ load' = [load EXCEPT !.errs = @ - 1]
          /\ UNCHANGED filled
    /\ UNCHANGED <<ring, flags, cmds, pc, handled, mishap>>

\* rx_done_tasklet, the section under BulkInLock.  An URB that was submitted
\* again before the tasklet ran has no status yet, which is no success.
RxDone ==
    LET i == task
        r == urb[i]
    IN  /\ At("tk", "idle") /\ task # NoTask
        /\ task' = NoTask
        /\ urb' = IF r = "active" THEN urb ELSE [urb EXCEPT ![i] = "idle"]
        /\ pending' = IF pending > 0 THEN pending - 1 ELSE 0
        /\ ctx' = [ctx EXCEPT ![i].use = FALSE, ![i].irp = FALSE,
                              ![i].data = IF r = "ok" THEN filled ELSE @,
                              ![i].readable = CASE r = "ok"   -> TRUE
                                                [] r = "zero" -> @
                                                [] OTHER      -> FALSE]
        /\ inIdx' = IF r = "ok" THEN Inc(inIdx) ELSE inIdx
        /\ Call("tk", IF r \in {"ok", "zero"} THEN "recv" ELSE "fail", 0, "idle")
        /\ UNCHANGED <<load, rdIdx, flags, cmds, filled, handled, mishap>>

\* Mutant of RxFail: does not look at the flags.
RxFailAlways ==
    /\ At("tk", "fail")
    /\ flags' = flags \cup {"BULKIN_RESET"}
    /\ cmds' = Append(cmds, "reset")
    /\ Goto("tk", "recv")
    /\ UNCHANGED <<load, ring, usb, handled, mishap>>

\* The rest of the error branch: ask the command thread for a restart.  The
\* result of RTEnqueueInternalCmd is not looked at.
RxFail ==
    /\ At("tk", "fail")
    /\ \/ flags \cap StopRx # {} /\ UNCHANGED <<load, flags, cmds, mishap>>
       \/ /\ flags \cap StopRx = {}
          /\ flags' = flags \cup {"BULKIN_RESET"}
          /\ \/ cmds' = Append(cmds, "reset") /\ UNCHANGED <<load, mishap>>
             \/ /\ load.nomem > 0
                /\ load' = [load EXCEPT !.nomem = @ - 1]
                /\ mishap' = mishap \cup {"refused"}
                /\ UNCHANGED cmds
    /\ Goto("tk", "recv")
    /\ UNCHANGED <<ring, usb, handled>>

-----------------------------------------------------------------------------
(* The thread that switches the radio. *)

\* RT28xxUsbMlmeRadioOFF, for a request of the user, sets the flag first.
MlmeRadioOff ==
    /\ At("rd", "idle") /\ load.offs > 0 /\ "RADIO_OFF" \notin flags
    /\ load' = [load EXCEPT !.offs = @ - 1]
    /\ flags' = flags \cup {"RADIO_OFF"}
    /\ Goto("rd", "off_begin")
    /\ UNCHANGED <<ring, cmds, usb, handled, mishap>>

\* An idle station calls RT65xxUsbAsicRadioOff directly.
IdleRadioOff ==
    /\ At("rd", "idle") /\ load.offs > 0 /\ "RADIO_OFF" \notin flags
    /\ load' = [load EXCEPT !.offs = @ - 1]
    /\ Goto("rd", "off_begin")
    /\ UNCHANGED <<ring, flags, cmds, usb, handled, mishap>>

\* RT65xxDisableTxRx gives up if the device is gone, or polls the pipe, ...
RadioOff ==
    /\ At("rd", "off_begin")
    /\ \/ /\ flags' = flags \cup {"POLL_IDLE"}
          /\ Call("rd", "recv", 0, "off")
       \/ /\ load.removed
          /\ flags' = flags \cup {"NIC_NOT_EXIST"}
          /\ Goto("rd", "off_flag")
    /\ UNCHANGED <<load, ring, cmds, usb, handled, mishap>>

\* ... again and again, until the receive queue is empty or 2000 polls are over;
\* if the device is gone POLL_IDLE stays set.
RadioOffPoll ==
    /\ At("rd", "off")
    /\ Call("rd", "recv", 0, "off")
    /\ UNCHANGED <<load, ring, flags, cmds, usb, handled, mishap>>

RadioOffPolled ==
    /\ At("rd", "off")
    /\ \/ flags' = flags \ {"POLL_IDLE"}
       \/ load.removed /\ flags' = flags \cup {"NIC_NOT_EXIST"}
    /\ Goto("rd", "off_flag")
    /\ UNCHANGED <<load, ring, cmds, usb, handled, mishap>>

\* The flags go up one after the other, ...
RadioOffFlag ==
    /\ At("rd", "off_flag")
    /\ flags' = flags \cup {"RADIO_OFF"}
    /\ Goto("rd", "off_idle")
    /\ UNCHANGED <<load, ring, cmds, usb, handled, mishap>>

\* ... and the pending URB is cancelled.
RadioOffIdle ==
    /\ At("rd", "off_idle")
    /\ flags' = flags \cup {"IDLE_RADIO_OFF"}
    /\ IF "NIC_NOT_EXIST" \in flags THEN Goto("rd", "idle")
       ELSE Call("rd", "cancel", 0, "idle")
    /\ UNCHANGED <<load, ring, cmds, usb, handled, mishap>>

\* RT65xxUsbAsicRadioOn.  It powers the chip up before it touches a flag, which
\* leaves the tasklet time to see the URB cancelled when the radio went off.
RadioOn ==
    /\ At("rd", "idle") /\ "RADIO_OFF" \in flags
    /\ task = NoTask /\ At("tk", "idle")
    /\ flags' = flags \ {"IDLE_RADIO_OFF"}
    /\ Goto("rd", "on")
    /\ UNCHANGED <<load, ring, cmds, usb, handled, mishap>>

RadioOnReceive ==
    /\ At("rd", "on")
    /\ flags' = flags \ {"RADIO_OFF"}
    /\ Call("rd", "recv", 0, "idle")
    /\ UNCHANGED <<load, ring, cmds, usb, handled, mishap>>

-----------------------------------------------------------------------------
(* The command thread. *)

\* ResetBulkInHdlr: with the radio off there is nothing to restart, unless it
\* comes on before the flag is cleared; ...
Reset ==
    /\ At("cm", "idle") /\ cmds # << >> /\ Head(cmds) = "reset"
    /\ cmds' = Tail(cmds)
    /\ IF "IDLE_RADIO_OFF" \in flags THEN Goto("cm", "reset_idle")
       ELSE IF pending > 0 /\ "NIC_NOT_EXIST" \notin flags
       THEN Call("cm", "cancel", 0, "reset_zero")
       ELSE Goto("cm", "reset_read")
    /\ UNCHANGED <<load, ring, flags, usb, handled, mishap>>

ResetIdle ==
    /\ At("cm", "reset_idle")
    /\ flags' = flags \ {"BULKIN_RESET"}
    /\ mishap' = mishap \cup IF "IDLE_RADIO_OFF" \in flags THEN {} ELSE {"abandoned"}
    /\ Goto("cm", "idle")
    /\ UNCHANGED <<load, ring, cmds, usb, handled>>

\* ... a pending URB is cancelled, and the delay of 100 ms leaves the tasklet
\* time to see it; ...
ResetZero ==
    /\ At("cm", "reset_zero")
    /\ task = NoTask /\ At("tk", "idle")
    /\ pending' = 0
    /\ mishap' = mishap \cup IF \E i \in Idx : InFlight(i) THEN {"torn"} ELSE {}
    /\ Goto("cm", "reset_read")
    /\ UNCHANGED <<load, ctx, inIdx, rdIdx, flags, cmds, usb, handled>>

\* ... MAC_CSR0 tells whether the device is still there; a radio switched off
\* meanwhile ends the restart with BULKIN_RESET still set; ...
ResetRead ==
    /\ At("cm", "reset_read")
    /\ \/ /\ load.removed
          /\ flags' = flags \cup {"NIC_NOT_EXIST"}
          /\ Goto("cm", "idle")
          /\ UNCHANGED mishap
       \/ /\ flags \cap StopHandle # {}
          /\ mishap' = mishap \cup {"abandoned"}
          /\ Goto("cm", "idle")
          /\ UNCHANGED flags
       \/ /\ flags \cap StopHandle = {}
          /\ Goto("cm", "reset_clear")
          /\ UNCHANGED <<flags, mishap>>
    /\ UNCHANGED <<load, ring, cmds, usb, handled>>

\* Mutant of ResetClear: leaves BULKIN_RESET set.
ResetKeeps ==
    /\ At("cm", "reset_clear")
    /\ Call("cm", "claim", 0, "idle")
    /\ UNCHANGED <<load, ring, flags, cmds, usb, handled, mishap>>

\* ... and the pipe is started again.
ResetClear ==
    /\ At("cm", "reset_clear")
    /\ flags' = flags \ {"BULKIN_RESET"}
    /\ Call("cm", "claim", 0, "idle")
    /\ UNCHANGED <<load, ring, cmds, usb, handled, mishap>>

-----------------------------------------------------------------------------
\* The pipe as RTMPInitialize leaves it: the first URB is with the host.
Init ==
    /\ load \in Loads
    /\ ctx = [i \in Idx |-> [use |-> i = 0, irp |-> i = 0, readable |-> FALSE,
                             hdl |-> FALSE, data |-> 0]]
    /\ inIdx = 0 /\ rdIdx = 0 /\ pending = 1
    /\ flags = {} /\ cmds = << >>
    /\ urb = [i \in Idx |-> IF i = 0 THEN "active" ELSE "idle"]
    /\ task = NoTask
    /\ pc = [a \in Actors |-> [at |-> "idle", i |-> 0, then |-> "idle"]]
    /\ mishap = {} /\ filled = 0 /\ handled = 0

Receive(a) ==
    Recv(a) \/ Scan(a) \/ Handle(a) \/ Kick(a) \/ Claim(a) \/ Submit(a)

CancelPending(a) == Cancel(a) \/ Clear(a)

Tasklet == RxDone \/ RxFail \/ Receive("tk")

Radio ==
    \/ RadioOff \/ RadioOffPoll \/ RadioOffPolled \/ RadioOffFlag \/ RadioOffIdle
    \/ RadioOn \/ RadioOnReceive
    \/ Receive("rd") \/ CancelPending("rd")

Command ==
    \/ Reset \/ ResetIdle \/ ResetZero \/ ResetRead \/ ResetClear
    \/ Receive("cm") \/ CancelPending("cm")

Next ==
    \/ \E i \in Idx : HostCompletes(i)
    \/ Tasklet \/ Radio \/ Command
    \/ MlmeRadioOff \/ IdleRadioOff

Spec == Init /\ [][Next]_vars

\* The kernel runs a scheduled tasklet and a runnable thread in the end.  The
\* device and the requests to switch the radio off are under no obligation.
\* The polling of RadioOff is bounded.
FairSpec ==
    /\ Spec
    /\ WF_vars(Tasklet) /\ WF_vars(Radio) /\ WF_vars(Command)
    /\ SF_vars(RadioOffPolled)

-----------------------------------------------------------------------------
(* Properties. *)

\* Indices stay inside the ring, PendingRx inside its byte, and no buffer is
\* handled that was not filled.
TypeOK ==
    /\ \A i \in Idx : /\ ctx[i].use \in BOOLEAN /\ ctx[i].readable \in BOOLEAN
                      /\ ctx[i].irp \in BOOLEAN /\ ctx[i].hdl \in BOOLEAN
                      /\ ctx[i].data \in 0 .. filled
                      /\ urb[i] \in {"idle", "active", "ok", "zero", "err"}
    /\ inIdx \in Idx /\ rdIdx \in Idx /\ task \in Idx \cup {NoTask}
    /\ pending \in 0 .. 255
    /\ handled <= filled /\ filled <= MaxBufs

\* An URB is submitted only when the host and the tasklet are through with it,
\* as long as RTUSBCancelPendingBulkInIRP tore no claim.
SubmitFree ==
    "torn" \notin mishap => \A a \in Actors : At(a, "submit") => urb[pc[a].i] = "idle"

\* The device never writes into a buffer that holds frames not yet handled:
\* while a context is Readable or has bRxHandling set, its URB is not with the
\* host, unless a claim was torn.
BufferUntouched ==
    "torn" \notin mishap =>
        \A i \in Idx : urb[i] = "active" => ~ctx[i].readable /\ ~ctx[i].hdl

\* RTUSBBulkReceive handles buffers one at a time, each once and in the order
\* they were filled, whichever threads run it at once; again unless a claim was
\* torn.
HandledInOrder ==
    "torn" \notin mishap =>
    /\ \A a \in Actors : At(a, "handle") => ctx[pc[a].i].data = handled + 1
    /\ \A a, b \in Actors : At(a, "handle") /\ At(b, "handle") => a = b

\* The tasklet asks for one restart at a time: BULKIN_RESET keeps repeated
\* failures from filling the command queue.
OneRestart == Len(cmds) <= 1

\* Reception goes on: whenever the radio is on and the device present, an URB
\* is with the host in the end, or the radio is switched off, the device gone,
\* or one of the recorded mishaps has happened.
RxResumes ==
    [](flags \cap StopHandle = {} =>
         <>(\/ \E i \in Idx : urb[i] = "active"
            \/ flags \cap StopHandle # {}
            \/ mishap # {}))

\* Switching the radio on sends a bulk-in: RT65xxUsbAsicRadioOn says that the
\* IRPs are sent once the flags are cleared.
RadioOnSends ==
    At("rd", "on") ~> \/ \E i \in Idx : InFlight(i)
                      \/ "NIC_NOT_EXIST" \in flags
=============================================================================
