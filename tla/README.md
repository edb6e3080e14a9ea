# A TLA+ verification of the MT7610U station driver

The driver under `src/` runs a MediaTek MT7610U USB Wi-Fi adapter as a station. This directory
holds TLA+ modules of its concurrent core, TLC configurations that check them on small instances,
and TLAPS proofs for the message queue on which the rest depends. `PROJECT.json` lists components,
runs, mutants, hazards, findings and theorems, and maps each definition to the source lines it
models.

The models follow the configuration in the makefiles: station mode, USB, 11n, no access-point
mode, ATE, UAPSD, DLS, TDLS, DFS, P2P, WOW or header translation.

## 1. The system

| Part | Sources | State | Who runs it | Model |
|---|---|---|---|---|
| MLME queue and thread | `common/mlme.c`, `os/linux/rt_usb.c` | ring of 40 entries, lock, semaphore | every thread enqueues, the MLME thread dequeues | `MlmeQueue`, `MlmeFifo`, `MlmeQueueReinit` |
| CNTL, AUTH, AUTH_RSP, ASSOC, SYNC machines | `sta/connect.c`, `auth.c`, `auth_rsp.c`, `assoc.c`, `sync.c`, `common/scan.c` | one `CurrState` each, `MlmeAux`, BSS tables, timers | MLME thread | `StaConnect` |
| Periodic function, link-down and MIC timers | `common/mlme.c`, `sta/wpa.c` | connection flags | timer thread | `StaConnect` |
| ioctls that drive the connection | `sta/sta_cfg.c` | `bConfigChanged`, `AutoReconnectSsid` | ioctl callers | `StaConnect` |
| Block-ack recipient | `common/ba_action.c` | window, reordering list, block pool | receive tasklet, MLME thread | `BaReorder` |
| USB bulk-in | `common/rtusb_bulk.c`, `rtusb_io.c`, `os/linux/rt_usb.c`, `chips/rt65xx.c` | ring of receive contexts, indices, adapter flags | tasklet, radio-switching thread, command thread | `UsbBulkIn` |
| Command queue | `common/cmm_cmd.c`, `rtusb_io.c` | list of commands | command thread | only the pipe restart, in `UsbBulkIn` |
| Timer queue | `common/rtmp_timer.c`, `rtmp_init.c` | list of expired timers, free list | timer thread | its effect (a popped timer outlives its cancel), in `StaConnect` |
| Block-ack originator | `common/ba_action.c` | session table | MLME thread, timer | planned |
| USB bulk-out | `common/rtusb_bulk.c`, `cmm_data_usb.c` | ring per queue, pending flags | tasklets, transmit path | planned |
| Andes MCU commands | `mcu/mcu_and.c` | six message lists, sequence numbers | any thread, URB callbacks | planned |
| WPA handshake | `common/cmm_wpa.c`, `sta/wpa.c` | handshake state, replay counter, keys | MLME thread | planned; `PortSecured` in `StaConnect` |
| Power save | `sta/sync.c`, `common/cmm_data_usb.c` | doze flag | MLME and command threads | planned |
| Life cycle | `common/rtmp_init_inf.c`, `os/linux` | halt and remove flags | open, close, disconnect | only halt as the queue sees it |
| Rate control, chip registers, EEPROM, ciphers, frame parsing, cfg80211 glue | rest of `src/` | | | not modelled, see section 7 |

How they meet: the receive tasklet empties the bulk-in ring, reorders data frames (`BaReorder`) and
enqueues management frames into the MLME queue. Timers and ioctls enqueue requests there too. The
MLME thread takes one message at a time and runs a handler of one machine, which enqueues messages
for the others. `StaConnect` has the queue as a bounded FIFO sequence. This is what `MlmeFifo`
specifies until it overruns, and `MlmeQueue` is shown to implement it (section 5).

## 2. Modules

### MlmeQueue, MlmeFifo, MlmeQueueReinit

Each critical section of `Queue->Lock` is one action. The full test of `MlmeEnqueue` and
`MlmeEnqueueForRecv` and their insertion are different critical sections, hence two actions per
thread. The handler tests, dequeues, performs the action on the entry *inside the ring*, and frees
it without the lock. Suspend, the flags on which `MlmePeriodicExec` returns early (`radioOff`), halt
and `MlmeQueueDestroy` are actions too. `fifo`, `elemMsg` and `overrun` are history variables.

The full test guards less than it seems to. `Num` does not count the entry the handler works on, and
several threads may pass the test before one of them inserts. So an insertion can hit an occupied
entry: the handler's own, or the oldest message. `overrun` records that, from the insertion until
the handler is done with the last message. Past the limit `Num == MAX_LEN_OF_MLME_QUEUE` stops no one, and
`Num` is bounded by `MaxNum` in the model.

`MlmeFifo` is the abstract channel: a queue, the element in hand, a capacity. It is `spoiled` from
the moment a message is accepted while those waiting and the one in hand already fill the capacity;
while spoiled the element may be anything; it is sound again when drained. `MlmeQueueReinit` adds the call of
`MlmeQueueInit` that `PeerBeacon` makes on a channel switch, one assignment per step, without lock.

### StaConnect

One action per handler, named after it, guarded by the type of the first message and the state of
the machine. `Drop` takes messages that the current state ignores. A timer is armed, popped by the
timer thread (`TimerPop`) or cancelled; a popped one runs even if cancelled. Ioctls and periodic
branches consume `budget`. The constant `Events` selects the disturbances of an instance, so that
each run is small. Networks are abstract BSSIDs. All share the requested SSID and match the
security settings. Frames from the air are lost by never being received, repeated by being received
again, and may come unasked. `authed` and `granted` are history variables.

### BaReorder

A frame is its number in the peer's stream; the code sees `Seqno(n)`, its number modulo `Modulus`,
and makes every comparison on that. `Receive` has the five cases of `Indicate_AMPDU_Packet`, after
the flush of overdue frames. `IndicateLegacy`, `BarReceived`, and the ADDBA and teardown functions
split at their locks complete it. The receive tasklet may run between any two of these steps. If
it buffers a frame after `BARecSessionTearDown` or `BARecSessionAdd` has flushed the list and before
the function is through, `torn` is set. `peer` fixes which frames are EAPOL, whether frames repeat,
and how many blocks the pool has. `age` abstracts the clock to the two thresholds, 100 ms and 500 ms.
The unlocked assignments with which `BARecSessionAdd` fills in the entry (`ba_action.c:711-734`) are
one step.

### UsbBulkIn

Three actors run `RTUSBBulkReceive`, `DoBulkIn` and `RTUSBCancelPendingBulkInIRP`: the receive
tasklet, the thread that switches the radio and the command thread. Each critical section of
`BulkInLock` is a step; the cancellation, which takes no lock, goes context by context. `load`
bounds failures, radio switches and failed submissions or allocations. The radio goes off by request
of the user, where `RADIO_OFF` is set before the pipe is polled, or because the station is idle, where
it is set after. `mishap` records three
conditions the code does not notice:

- `refused`: a submission, or the allocation of the restart command, failed;
- `torn`: a cancellation or the zeroing of `PendingRx` hit a context between claim and submission;
- `abandoned`: a restart ended because the radio was switched meanwhile.

Two timing assumptions: the 100 ms delay of `ResetBulkInHdlr` and the power-up of `RadioOn` are
long enough for a scheduled tasklet to finish. With them broken the ring can be corrupted.

## 3. Runs

Passing runs:

| Run | Instance | Distinct states | Shows |
|---|---|---|---|
| `mlme_queue` | ring of 4, at most 5 counted, one sender, one receiver, the MLME thread | 518,000 | FIFO and stable element until an overrun and after recovery, room kept for requests, dispatch, refinement of `MlmeFifo` |
| `sta_safety` | 2 networks (symmetric), open; infrastructure and ad hoc | 705,000 | `CntlServed`, `DataResumes`, `AssocAuthenticated`, `LinkUpGranted` |
| `sta_requests` | 1 network, shared key or ad hoc, 2 channels | 1,850,000 | `MachinesTimed`, `LinkUpGranted` under all ioctls |
| `sta_faults` | 1 network, open; allocation failures, coexistence scans | 2,370,000 | `MachinesTimed` |
| `sta_returns` | 1 network, auto-switch or WPA-PSK, fairness | 92,000 | `CntlServed`, `CntlReturns`, `HeldDataFlows` |
| `ba_reorder` | 32 sequence numbers from 28, window 2 or 3, 8 frames, 3 requests | 952,000 | window, order, no loss, pool |
| `usb_bulk_in` | 2 contexts, 3 buffers, three loads, fairness | 487,000 | ownership of URBs and buffers, order, restart |

What they do **not** show:

- `CntlServed` is claimed only for the events of `sta_safety` and `sta_returns`. Trying each event
  alone (one network, with `reconnect`), it fails for `ssid`, `bssid`, `mlme`, `nomem` and
  `privacy`. A confirm queued before `RESET_CONF` makes CNTL send one more request, which then
  meets the request of the ioctl (`ssid`). The deauthentication ioctl makes AUTH idle under a
  waiting CNTL (`mlme`). A failed allocation sends no confirm (`nomem`). The CNTL machine then stays
  in its wait until another ioctl resets it. No text of the repository promises otherwise, so these
  are hazards with a note and not findings. Pairs of events outside the runs were not all tried;
  `scan` with `deauth` is known to fail as well.
- `MachinesTimed` holds for every event alone except `privacy`: when the privacy bit of a network
  changes before the join, `PeerBeaconAtJoinAction` stops its timer and stays in `JOIN_WAIT_BEACON`.
- `DataResumes` fails for `ssid` and `bssid` (ad hoc) and `coex`.
- `RingIsFifo` and `ElemStable` stop at an overrun and resume when the handler has emptied the ring.
  An overrun takes more than 40 messages, the one in hand included; a single `MlmeEnqueue` with `Num`
  at 39 while the handler performs is one. The handler then finds another message in its entry, or a
  message for which the enqueuer got `TRUE` is lost.
- `BufferInWindow`, `ResetEmpty`, `NothingLost` and `InOrder` stop at the first `torn`: a frame left in
  a list that was just flushed breaks each of them, and `ba_teardown` shows one way.
- `PoolConserved` is claimed for peers that send no EAPOL frame inside a session. The code allocates
  a block for such a frame and does not free it (`ba_action.c:1638`).
- `MachinesTimed` is about the machines below CNTL. It does not say that CNTL gets the confirm it
  waits for: a coexistence scan, or a failed allocation, may leave it waiting.
- The flush of the queue on a channel switch is in `sta_returns`, but CNTL is idle there whenever the
  flush discards a message.
- `InOrder` and `BufferInWindow` are checked for a peer that repeats frames, for one that sends
  EAPOL frames and for one with too few blocks, not for one that does two of these: see `ba_eap`.
- In `usb_bulk_in` the ownership invariants stop at the first `torn` mishap, and `RxResumes` at
  the first mishap of any kind.

Runs that show a disagreement between the code and what the repository says of it:

| Run | Text | What happens |
|---|---|---|
| `mlme_queue_reinit` | "done only once (at the init stage), no need to be locked" (`common/mlme.c:3893`) | a channel switch re-initialises the live ring; `Num`, `Head` and `Tail` disagree |
| `sta_leave` | "enqueue MT2_DISASSOC_CONF to reset CntlMachine..." (`sta/assoc.c:1538`) | a disassociation that meets `CNTL_WAIT_OID_DISASSOC` strands the machine |
| `ba_eap` | `ASSERT(... qlen <= BAWinSize)` (`common/ba_action.c:1669`) | after an EAPOL frame inside the window the list keeps stale frames and outgrows the window |
| `ba_teardown` | `ASSERT(pBAEntry->list.qlen == 0)` (`common/ba_action.c:709`) | a frame buffered during a teardown is found by the next session |
| `usb_radio` | "Send Bulkin IRPs after flag ... is cleared" (`chips/rt65xx.c:253`) | a restart that overlaps a radio switch leaves the pipe without an URB |

Every property of a passing run has a mutant: a variant of one definition, with a plausible slip,
under which TLC finds the property violated. They stand before the definitions they vary.

## 4. Bounds and fairness

**Bounds.** A ring of 4 wraps, fills and overruns, and `MaxLen \div 2` is neither 0 nor `MaxLen`.
`MaxNum = 5` lets the ring take one message more than it has entries, plus those of the threads that
have passed the test; the guard has no effect while `Num` is at most `MaxLen`. Two events
are enough for a connection and one disturbance, or a disturbance of a disturbance; a frame at a
time in the queue already meets every state of every machine, because messages of the machines
interleave with it. `MaxQ = 8` (40 in the code) is reached only in `sta_faults`, where
the message that finds no room is dropped, as in the code; elsewhere the bound has no effect. One channel per scan (two in `sta_requests`, with a scan interrupted after
`ImprovedMax = 1`) reaches each branch of the scan. 32 sequence numbers starting at 28 wrap within
the 8 frames; `BaAssumption` keeps window and discards below half the space, as 802.11 demands of
a peer. Two receive contexts wrap with three buffers.

`MlmeQueue` and `StaConnect` check deadlock. `BaReorder` and `UsbBulkIn` really stop when the
peer's frames, or the device's buffers, are used up, so theirs is off.

**Fairness.** The kernel schedules runnable threads and tasklets: weak fairness of the MLME
handler, of a thread inside an enqueue, of a popped or expired timer, of tasklet, radio and command
thread. The periodic timer re-arms itself, which justifies weak fairness of `PeriodicWake`,
`ResumeScan` and `Unblock`. `RT65xxDisableTxRx` polls at most 2000 times, hence strong fairness of
leaving the poll, which is enabled again and again but not all the time. The air, the peer, users
and the device get no fairness.

## 5. Proofs

`MlmeQueueProofs` proves, for every ring length of at least 2, all finite sets of threads and all
sets of messages, with no assumption on the traffic:

- `TypeCorrect`: `Spec => []TypeOK`;
- `RingFifo`: `Spec => []RingIsFifo`;
- `ElemNotOverwritten`: `Spec => []ElemStable`;
- `RingImplementsFifo`: `Spec => ImplementsFifo`, that is, `Fifo!Spec`. An overrun comes exactly when the
  messages waiting and the one in hand fill the ring, no sooner, and the ring recovers;
- `RequestsHaveRoom`: `Spec => []FramesLeaveRoom`, for any number of receivers.

`RingIsFifo` is not inductive. `IInv` adds to it and to `ElemStable`:

- `ElemBehindHead`: the handler's entry is the one before the head, so an insertion that finds the
  tail free does not touch it;
- `DequeueFindsOne`: the ring is not empty when the handler is about to dequeue;
- `TailAfterHead`: even in an overrun, tail and head plus `Num` differ by whole turns of the ring;
- `NoneLeftOver`: an entry that holds neither a waiting message nor the one in hand is not occupied.

The last two carry recovery: when the handler is done and `Num` is 0 the indices agree again and no entry
is left occupied, so the ring is sound whatever happened before. They also show that the tail is
occupied only if the ring is used up, which the refinement needs. There is one lemma per kind of step.
`RequestsHaveRoom` has an invariant of its own, `RoomInv`: frames queued plus receivers between test
and insertion stay below the bound. It uses the finite-set theorems.

The refinement maps the abstract queue to `fifo`, the abstract element to what the ring holds in the
handler's entry, and `spoiled` to `overrun`. Its steps use `IInv` before and after.

Assumptions: `MaxLenAssumption`, `MaxNumAssumption`, `ThreadAssumption`, `MsgAssumption`.

Only model-checked: everything about `StaConnect`, `BaReorder` and `UsbBulkIn`, and all liveness,
which is out of the prover's reach.

## 6. Plan

In this order:

1. `TimerQueue`: insertion, removal, pop and cancel of `rtmp_timer.c`; an entry is in one list, no
   timer is lost while entries are free, a cancelled timer fires at most once more. Then `StaConnect`
   can be compared with it.
2. `BaOriginator`: session table, ADDBA exchange, setup timeout, DELBA; counters against tables,
   composed with the recipient.
3. `UsbBulkOut`: write, bulk-out and free positions of a queue, pending flags, completion tasklet,
   reset of the pipe; composed with the command queue (`CmdQueue`).
4. `AndesMcu`: the message lists, sequence numbers, waits with timeout against late responses.
5. `WpaHandshake` and the MAC table: replay counter, key installation, port; a handshake restarted
   by the peer.
6. `PowerSave`: doze and wake-up against bulk-in; the cancellation of `AsicSleepThenAutoWakeup`.
7. `LifeCycle`: open, close, disconnect against threads and queues.
8. Runs for the observations of section 3: `privacy`, the requested BSSID that is skipped
   (`sta/connect.c:1047`).
9. Proofs: `PoolConserved`, `ResetEmpty` and `BufferInWindow` of `BaReorder`;
   `OneRestart`, `SubmitFree` and `BufferUntouched` of `UsbBulkIn`; refinement of `TimerQueue` to a
   set of timers.

## 7. Not modelled

- Rate adaptation, statistics and calibration: numeric heuristics without protocol state.
- Register, EEPROM, firmware and profile access: pure I/O.
- Ciphers and hashes: bit-level algorithms, out of TLC's reach.
- Parsing of frames: `StaConnect` takes frames that pass the sanity checks.
- In `StaConnect`: wpa_supplicant and WPS variants, `bFastConnect`, `START_UP`, own requests that
  fail their sanity check, contents of beacons beyond BSSID, network type and privacy.
- In `UsbBulkIn`: the URB for MCU events, suspend, sleep between beacons; lost updates of the
  adapter flags, which are read-modify-writes without a lock (`include/rtmp.h:276`).
- In `MlmeQueue`: what the handler does with the freed ring between `MlmeQueueDestroy` and the end of
  the MLME thread.
- In `BaReorder`: several sessions sharing the pool, and the check of the entry's status outside
  the lock in `BATableFreeRecEntry`.
- Code that this build never reaches: `Connectinfoflag` is never set, so forced scan and join are
  dead; so are the `bAutoConnectByBssid` branch, `CNTL_WAIT_REASSOC` and `IterateOnBssTab2`,
  `InvalidStateWhenScan` and `InvalidStateWhenJoin`, `MlmeCheckForRoaming`, `RTUSBWatchDog` (its
  call is commented out) and `BaReOrderingBufferMaintain` (never called).
