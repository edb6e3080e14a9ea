----------------------------- MODULE BaReorder ------------------------------
(***************************************************************************)
(* The receive side of one block-ack session (common/ba_action.c): the     *)
(* reordering list of a BA_REC_ENTRY, the pool of reordering_mpdu blocks,  *)
(* and the MLME thread's functions that open, reopen and tear the session  *)
(* down, against a peer that sends, loses, repeats and gives up MPDUs.     *)
(*                                                                         *)
(* An MPDU is the number n of the frame in the peer's stream.  The driver  *)
(* only ever sees its 12-bit sequence number, Seqno(n); every comparison   *)
(* of the code is made on that.                                            *)
(*                                                                         *)
(* The receive tasklet runs a whole frame at a time.  It can run between   *)
(* two critical sections of the MLME thread, so those functions are split  *)
(* there; torn records that it buffered a frame in such a gap.             *)
(***************************************************************************)
EXTENDS Integers, Sequences

CONSTANTS
    Modulus,        \* MAXSEQ + 1
    WinLimit,       \* BACapability.field.RxBAWinLimit
    BufSizes,       \* the BaParm.BufSize values a peer asks for
    DefaultWin,     \* the window used for BufSize 0 (64 in the code)
    Starts,         \* numbers the peer's stream may begin with
    Peers,          \* records [eap, dups, blocks], see Init
    MaxFrames,      \* bound: frames the peer sends
    MaxDiscards,    \* bound: frames the peer gives up
    MaxRequests     \* bound: ADDBA requests and teardowns

ASSUME BaAssumption ==
    /\ Modulus \in Nat /\ Modulus > 1 /\ Modulus % 2 = 0
    /\ BufSizes \subseteq Nat
    /\ WinLimit \in Nat \ {0} /\ DefaultWin \in Nat \ {0}
    /\ Starts \subseteq Nat
    /\ \A p \in Peers : p.dups \in BOOLEAN /\ p.blocks \in Nat
    /\ MaxFrames \in Nat /\ MaxRequests \in Nat
    \* The driver may be one window and the frames given up behind the peer's
    \* window, and the last frame of that must not look old.
    /\ MaxDiscards \in Nat
    /\ 2 * WinLimit + MaxDiscards < Modulus \div 2
    /\ 2 * DefaultWin + MaxDiscards < Modulus \div 2

VARIABLES
    peer,       \* what the peer and the pool are like in this behaviour
    first,      \* the number the peer's stream began with
    wstart,     \* the oldest frame the peer still cares about
    got,        \* frames from wstart on that reached the driver
    discards,   \* frames given up so far
    requests,   \* session requests so far
    thr,        \* where the MLME thread is: "idle", "fill", "erase", "free"
    ask,        \* the window of the ADDBA request being performed
    idx,        \* BARecWcidArray[TID] # 0
    status,     \* REC_BA_Status
    win,        \* BAWinSize
    st,         \* [last: LastIndSeq, list: the list's frames, free: blocks in
                \*  the free list, up: frames indicated by the last step]
    torn,       \* a frame was buffered while the session was being changed
    age,        \* time since LastIndSeqAtTimer: 0, 1 (> 100 ms), 2 (> 500 ms)
    done,       \* frames from wstart on indicated so far
    top,        \* highest frame indicated since LastIndSeq was last reset
    skipped     \* frames from wstart on that the driver chose not to wait for

env  == <<peer, first>>
air  == <<wstart, got, discards>>
mlme == <<requests, thr, ask, idx, status, win>>
vars == <<env, air, mlme, st, torn, age, done, top, skipped>>

-----------------------------------------------------------------------------
(* Sequence numbers. *)

MaxSeq == Modulus - 1

\* RESET_RCV_SEQ, 0xFFFF for a 12-bit MAXSEQ: no sequence number, with all
\* low bits set.
Reset == 16 * Modulus - 1

Seqno(n) == n % Modulus

SEQ_STEPONE(s1, s2) == s1 = (s2 + 1) % Modulus

\* The half-space bit of the difference.
SEQ_SMALLER(s1, s2) == (s1 - s2) % Modulus >= Modulus \div 2

-----------------------------------------------------------------------------
(* The list and the pool. *)

\* The frames of a sequence.
Frames(q) == {q[i] : i \in 1 .. Len(q)}

\* Dequeue, announce and free the first k blocks.
Indicate(s, k) ==
    [s EXCEPT !.list = SubSeq(@, k + 1, Len(@)),
              !.free = @ + k,
              !.up   = @ \o SubSeq(s.list, 1, k)]

\* The number of leading frames at which the loop goes on.
Leading(s, goes) ==
    CHOOSE k \in 0 .. Len(s.list) : 1 .. k \subseteq goes /\ k + 1 \notin goes

\* ba_indicate_reordering_mpdus_in_order, with its caller's update of
\* LastIndSeq.
IndicateInOrder(s) ==
    LET goes == {i \in 1 .. Len(s.list) :
                    SEQ_STEPONE(Seqno(s.list[i]), (s.last + i - 1) % Modulus)}
        k    == Leading(s, goes)
    IN  [Indicate(s, k) EXCEPT
            !.last = IF k = 0 THEN @ ELSE Seqno(s.list[k])]

\* Slip: the frame numbered seq itself is left behind.
IndicateLtSeq(s, seq) ==
    LET goes == {i \in 1 .. Len(s.list) : SEQ_SMALLER(Seqno(s.list[i]), seq)}
    IN  Indicate(s, Leading(s, goes))

\* ba_indicate_reordering_mpdus_le_seq.
IndicateLeSeq(s, seq) ==
    LET goes == {i \in 1 .. Len(s.list) : \/ Seqno(s.list[i]) = seq
                                       \/ SEQ_SMALLER(Seqno(s.list[i]), seq)}
    IN  Indicate(s, Leading(s, goes))

\* ba_refresh_reordering_mpdus.
Refresh(s) == [Indicate(s, Len(s.list)) EXCEPT !.last = Reset]

\* Slip: frames are queued in the order they arrive.
InsertLast(s, n) ==
    IF n \in Frames(s.list) THEN s
    ELSE [s EXCEPT !.list = Append(@, n), !.free = @ - 1]

\* Frame n behind the first k of the list.
InsertAfter(s, k, n) ==
    SubSeq(s.list, 1, k) \o <<n>> \o SubSeq(s.list, k + 1, Len(s.list))

\* Slip: the block of a duplicate is forgotten.
InsertLeaking(s, n) ==
    LET goes == {i \in 1 .. Len(s.list) : SEQ_SMALLER(Seqno(s.list[i]), Seqno(n))}
        k    == Leading(s, goes)
    IN  [s EXCEPT !.free = @ - 1,
                  !.list = IF n \in Frames(@) THEN @ ELSE InsertAfter(s, k, n)]

\* ba_reordering_mpdu_insertsorted; a duplicate gives its block back.
InsertSorted(s, n) ==
    LET goes == {i \in 1 .. Len(s.list) : SEQ_SMALLER(Seqno(s.list[i]), Seqno(n))}
        k    == Leading(s, goes)
    IN  IF k < Len(s.list) /\ Seqno(s.list[k + 1]) = Seqno(n)
        THEN s
        ELSE [s EXCEPT !.list = InsertAfter(s, k, n), !.free = @ - 1]

\* ba_flush_reordering_timeout_mpdus.
FlushTimeout(s) ==
    IF s.list = << >> \/ age = 0 THEN s
    ELSE IF age = 2 /\ Len(s.list) > 1 THEN Refresh(s)
    ELSE LET seq == (s.last + 1) % Modulus
         IN  IndicateInOrder([IndicateLeSeq(s, seq) EXCEPT !.last = seq])

IsEap(n) == (n - first) \in peer.eap

\* ba_enqueue_reordering_packet.  An EAPOL frame takes the branch of a failed
\* allocation, and the block allocated for it is not given back.
Enqueue(s, n) ==
    IF s.free > 0 /\ ~IsEap(n)
    THEN InsertSorted(s, n)
    ELSE LET r == [s EXCEPT !.free = IF @ > 0 THEN @ - 1 ELSE 0]
         IN  [IndicateLeSeq(r, Seqno(n)) EXCEPT !.last = Seqno(n),
                                                !.up   = Append(@, n)]

\* Slip: case V opens a window that is one frame short.
ReceiveShort(s, n) ==
    LET seq    == Seqno(n)
        passed == [s EXCEPT !.last = seq, !.up = Append(@, n)]
        start  == (seq - win + 1) % Modulus
    IN  IF s.last = Reset THEN passed
        ELSE IF SEQ_STEPONE(seq, s.last) THEN IndicateInOrder(passed)
        ELSE IF seq = s.last \/ SEQ_SMALLER(seq, s.last) THEN s
        ELSE IF SEQ_SMALLER(seq, (s.last + win + 1) % Modulus) THEN Enqueue(s, n)
        ELSE IndicateInOrder(
                Enqueue([IndicateLeSeq(s, start) EXCEPT !.last = start], n))

\* The five cases of Indicate_AMPDU_Packet, after the timeouts are dealt with.
Receive(s, n) ==
    LET seq    == Seqno(n)
        passed == [s EXCEPT !.last = seq, !.up = Append(@, n)]
        start  == (seq - win) % Modulus
    IN  IF s.last = Reset THEN passed
        ELSE IF SEQ_STEPONE(seq, s.last) THEN IndicateInOrder(passed)
        ELSE IF seq = s.last \/ SEQ_SMALLER(seq, s.last) THEN s
        ELSE IF SEQ_SMALLER(seq, (s.last + win + 1) % Modulus) THEN Enqueue(s, n)
        ELSE IndicateInOrder(
                Enqueue([IndicateLeSeq(s, start) EXCEPT !.last = start], n))

-----------------------------------------------------------------------------
(* Bookkeeping for the properties. *)

\* The frames the peer may have in flight: as many as the window it was
\* granted, one at a time without a session.
Window == wstart .. wstart + (IF win = 0 THEN 1 ELSE win) - 1

\* Frames the driver drops from now on.
Behind(last) ==
    {n \in Window : last # Reset
                    /\ (Seqno(n) = last \/ SEQ_SMALLER(Seqno(n), last))}

\* r is the new st; fresh says that LastIndSeq was reset when the frames of
\* r.up were indicated; own, that the driver moved LastIndSeq by itself.
Account(r, fresh, own) ==
    /\ st' = r
    /\ done' = done \cup {n \in Frames(r.up) : n >= wstart}
    /\ top' = LET old == IF fresh THEN -1 ELSE top
              IN  IF r.last = Reset THEN -1
                  ELSE IF r.up # << >> /\ r.up[Len(r.up)] > old THEN r.up[Len(r.up)]
                  ELSE old
    /\ skipped' = IF own THEN skipped \cup (Behind(r.last) \ done')
                  ELSE skipped

Quiet == st' = [st EXCEPT !.up = << >>] /\ UNCHANGED <<done, top, skipped>>

-----------------------------------------------------------------------------
(* The receive tasklet. *)

\* Indicate_AMPDU_Packet: frame n arrives, for the first time or again.
IndicateAmpdu(n) ==
    LET s == [st EXCEPT !.up = << >>]
        t == FlushTimeout(s)
        r == Receive(t, n)
    IN  /\ n < first + MaxFrames
        /\ n \in got => peer.dups
        /\ got' = got \cup {n}
        /\ \/ /\ ~idx
              /\ Account([s EXCEPT !.up = <<n>>], FALSE, FALSE)
              /\ UNCHANGED age
           \/ /\ idx
              /\ Account(r, t.last = Reset,
                         t # s \/ t.last = Reset \/ (IsEap(n) \/ t.free = 0))
              /\ age' = 0
        /\ torn' = (torn \/ (thr # "idle" /\ st'.list # << >>))
        /\ UNCHANGED <<env, wstart, discards, mlme>>

\* Indicate_Legacy_Packet: a frame outside the session finds the list overdue.
IndicateLegacy ==
    /\ idx /\ st.list # << >> /\ age > 0
    /\ LET r == FlushTimeout([st EXCEPT !.up = << >>])
       IN  Account(r, FALSE, TRUE)
    /\ age' = 0
    /\ UNCHANGED <<env, air, torn, mlme>>

\* Slip: the sequence number before 0 is not MAXSEQ.
BarReceivedNoWrap ==
    LET seq == Seqno(wstart)
        r   == IndicateLeSeq([st EXCEPT !.up = << >>], seq)
    IN  /\ idx /\ SEQ_SMALLER(st.last, seq)
        /\ Account([r EXCEPT !.last = seq - 1], st.last = Reset, FALSE)
        /\ UNCHANGED <<env, air, torn, mlme, age>>

\* CntlEnqueueForRecv: a BAR with the peer's window start.  Without a session
\* it works on the unused entry 0.
BarReceived ==
    LET seq == Seqno(wstart)
        r   == IndicateLeSeq([st EXCEPT !.up = << >>], seq)
    IN  /\ idx /\ SEQ_SMALLER(st.last, seq)
        /\ Account([r EXCEPT !.last = IF seq = 0 THEN MaxSeq ELSE seq - 1],
                   st.last = Reset, FALSE)
        /\ UNCHANGED <<env, air, torn, mlme, age>>

-----------------------------------------------------------------------------
(* The MLME thread. *)

Requested == requests < MaxRequests /\ requests' = requests + 1

\* Slip: an open session is reopened without flushing its list.
RecSessionAddNoFlush(size) ==
    LET w == IF size < WinLimit THEN size ELSE WinLimit
    IN  /\ thr = "idle" /\ Requested
        /\ thr' = "fill"
        /\ ask' = IF w = 0 THEN DefaultWin ELSE w
        /\ status' = IF idx THEN status ELSE "USED"
        /\ Quiet
        /\ UNCHANGED <<env, air, torn, idx, win, age>>

\* BARecSessionAdd up to the point where the entry is filled in.
RecSessionAdd(size) ==
    LET w == IF size < WinLimit THEN size ELSE WinLimit
    IN  /\ thr = "idle" /\ Requested
        /\ thr' = "fill"
        /\ ask' = IF w = 0 THEN DefaultWin ELSE w
        /\ \/ idx  /\ Account(Refresh([st EXCEPT !.up = << >>]), FALSE, FALSE)
                   /\ UNCHANGED status
           \/ ~idx /\ status = "NONE" /\ status' = "USED" /\ Quiet
        /\ UNCHANGED <<env, air, torn, idx, win, age>>

\* ... and the rest of it.
RecSessionFill ==
    /\ thr = "fill"
    /\ thr' = "idle"
    /\ st' = [st EXCEPT !.last = Reset, !.up = << >>]
    /\ top' = -1
    /\ status' = "Accept" /\ win' = ask /\ idx' = TRUE
    /\ UNCHANGED <<env, air, torn, requests, ask, age, done, skipped>>

\* BARecSessionTearDown: the list is flushed, ...
RecSessionTearDown ==
    /\ thr = "idle" /\ Requested
    /\ idx /\ status = "Accept"
    /\ Account(Refresh([st EXCEPT !.up = << >>]), FALSE, FALSE)
    /\ thr' = "erase"
    /\ UNCHANGED <<env, air, torn, ask, idx, status, win, age>>

\* ... the session is erased under BATabLock, ...
RecSessionErase ==
    /\ thr = "erase"
    /\ thr' = "free"
    /\ st' = [st EXCEPT !.last = Reset, !.up = << >>]
    /\ top' = -1
    /\ win' = 0 /\ idx' = FALSE
    /\ UNCHANGED <<env, air, torn, requests, ask, status, age, done, skipped>>

\* ... and BATableFreeRecEntry gives the entry back.
FreeRecEntry ==
    /\ thr = "free"
    /\ thr' = "idle"
    /\ status' = "NONE"
    /\ Quiet
    /\ UNCHANGED <<env, air, torn, requests, ask, idx, win, age>>

-----------------------------------------------------------------------------
(* The peer and time. *)

\* The peer's window moves past its oldest frame: acknowledged, or given up.
PeerAdvance ==
    /\ wstart < first + MaxFrames
    /\ \/ wstart \in got /\ UNCHANGED discards
       \/ wstart \notin got /\ discards < MaxDiscards /\ discards' = discards + 1
    /\ wstart' = wstart + 1
    /\ got' = got \ {wstart}
    /\ done' = done \ {wstart}
    /\ skipped' = skipped \ {wstart}
    /\ st' = [st EXCEPT !.up = << >>]
    /\ UNCHANGED <<env, torn, mlme, age, top>>

Tick ==
    /\ st.list # << >> /\ age < 2
    /\ age' = age + 1
    /\ Quiet
    /\ UNCHANGED <<env, air, torn, mlme>>

Init ==
    /\ peer \in Peers
    /\ first \in Starts
    /\ wstart = first /\ got = {} /\ discards = 0
    /\ requests = 0 /\ thr = "idle" /\ ask = 0
    /\ idx = FALSE /\ status = "NONE" /\ win = 0
    /\ st = [last |-> Reset, list |-> << >>, free |-> peer.blocks, up |-> << >>]
    /\ torn = FALSE /\ age = 0
    /\ done = {} /\ top = -1 /\ skipped = {}

Next ==
    \/ \E n \in Window : IndicateAmpdu(n)
    \/ IndicateLegacy
    \/ BarReceived
    \/ \E size \in BufSizes : RecSessionAdd(size)
    \/ RecSessionFill
    \/ RecSessionTearDown
    \/ RecSessionErase
    \/ FreeRecEntry
    \/ PeerAdvance
    \/ Tick

Spec == Init /\ [][Next]_vars

-----------------------------------------------------------------------------
(* Properties. *)

\* LastIndSeq stays a sequence number or RESET_RCV_SEQ, whatever arithmetic a
\* BAR or a timeout does on it, and the pool never holds more than its blocks.
TypeOK ==
    /\ peer \in Peers /\ first \in Starts
    /\ wstart \in first .. first + MaxFrames
    /\ got \cup done \cup skipped \subseteq wstart .. wstart + Modulus
    /\ thr \in {"idle", "fill", "erase", "free"}
    /\ status \in {"NONE", "USED", "Accept"}
    /\ st.last \in 0 .. MaxSeq \cup {Reset}
    /\ st.list \in Seq(Nat) /\ st.free \in 0 .. peer.blocks
    /\ age \in 0 .. 2

\* The list never holds more frames than the window (the ASSERT of
\* ba_enqueue_reordering_packet).
BufferBound == idx => Len(st.list) <= win

\* Every buffered frame lies ahead of LastIndSeq and inside the window, and
\* the list is sorted, so that Indicate_AMPDU_Packet's cases and the loops that
\* stop at the first frame they do not want find every frame.  Like ResetEmpty,
\* NothingLost and InOrder, this is promised until a frame is buffered between
\* the flush of the list and the end of BARecSessionTearDown or BARecSessionAdd.
BufferInWindow ==
    ~torn =>
      /\ \A i \in 1 .. Len(st.list) :
            (Seqno(st.list[i]) - st.last) % Modulus \in 1 .. win
      /\ \A i, j \in 1 .. Len(st.list) : i < j => st.list[i] < st.list[j]

\* A session starts with an empty list (the ASSERT of BARecSessionAdd), whatever
\* the receive tasklet did while the entry's last session was torn down.
AddOnEmpty == [][thr = "idle" /\ thr' = "fill" => st'.list = << >>]_vars

\* LastIndSeq is reset only with an empty list (the ASSERTs of
\* Indicate_AMPDU_Packet and BARecSessionAdd): the next frame then starts the
\* sequence afresh.
ResetEmpty == (st.last = Reset /\ ~torn) => st.list = << >>

\* A frame of the peer's window that reached the driver has been passed up, is
\* waiting in the list, or belongs to those the driver stopped waiting for by
\* itself: the drops of cases II and III and the move of the window in case V
\* lose nothing the peer can still send.
NothingLost == ~torn => got \subseteq done \cup skipped \cup Frames(st.list)

\* As long as LastIndSeq is not reset and the list not flushed for being overdue,
\* no frame is passed up after one that follows it in the peer's stream.
InOrder ==
    [][ (/\ st.last # Reset /\ st'.last # Reset /\ ~torn'
         /\ ~(age = 2 /\ Len(st.list) > 1)) =>
        \A i \in 1 .. Len(st'.up) :
            /\ st'.up[i] >= top
            /\ i > 1 => st'.up[i] >= st'.up[i - 1] ]_vars

\* Every reordering_mpdu block is in the free list or carries a buffered frame,
\* as long as no EAPOL frame passes (ba_enqueue_reordering_packet keeps the block
\* of one).
PoolConserved == peer.eap = {} => st.free + Len(st.list) = peer.blocks
=============================================================================
