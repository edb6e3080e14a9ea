----------------------------- MODULE StaConnect -----------------------------
(***************************************************************************)
(* How the station finds, joins, leaves and roams between networks: the    *)
(* CNTL machine (sta/connect.c) and the machines it drives, SYNC           *)
(* (sta/sync.c, common/scan.c), AUTH (sta/auth.c), AUTH_RSP                *)
(* (sta/auth_rsp.c) and ASSOC (sta/assoc.c), together with the timers they *)
(* arm, the periodic function and the ioctls that disturb them.            *)
(*                                                                         *)
(* The MLME thread takes one message at a time from the queue and runs its *)
(* handler: one action here.  The timer thread and the ioctl callers run   *)
(* between two messages.  Known networks carry one SSID and match the      *)
(* station's security settings; wpa_supplicant is not used.                *)
(***************************************************************************)
EXTENDS Integers, Sequences, FiniteSets

CONSTANTS
    Bss,            \* BSSIDs on the air
    NoBss,          \* the zero BSSID
    Ibss,           \* the random BSSID of an ad hoc network started here
    Modes,          \* the configurations considered, see mode
    Events,         \* the disturbances that may happen, see Enabled
    MaxEvents,      \* bound: requests and periodic effects in a behaviour
    MaxQ,           \* MAX_LEN_OF_MLME_QUEUE
    MaxFrames,      \* bound: received frames in the queue
    NChan,          \* length of the channel list
    ImprovedMax     \* ImprovedScan_MaxScanChannelCnt, 7 in the code

ASSUME ModeAssumption ==
    /\ Modes \subseteq [auth : {"open", "shared", "autoswitch", "wpapsk"},
                        type : {"infra", "adhoc"}]
    /\ NoBss \notin Bss /\ Ibss \notin Bss \cup {NoBss}
ASSUME BoundAssumption ==
    /\ MaxEvents \in Nat /\ MaxQ \in Nat \ {0} /\ MaxFrames \in Nat
    /\ NChan \in Nat \ {0} /\ ImprovedMax \in Nat \ {0}
    /\ IsFiniteSet(Bss)

VARIABLES
    cntl, auth, assoc, sync,    \* Mlme.CntlMachine.CurrState, ...
    q,              \* Mlme.Queue, oldest message first
    armed,          \* timers that are running
    firing,         \* the timer the timer thread has popped, or "none"
    scanTab,        \* ScanTab
    ssidTab, bssNr, bssIdx,     \* MlmeAux.SsidBssTab: array and BssNr; BssIdx
    roamTab,        \* MlmeAux.RoamTab
    auxBssid, auxAlg,           \* MlmeAux.Bssid, MlmeAux.Alg
    chan,           \* channels still to scan; 0 when the scan is over
    scanCnt,        \* StaCfg.ScanChannelCnt
    link,           \* INFRA_ON, ADHOC_ON or neither
    bssid,          \* CommonCfg.Bssid
    media,          \* fOP_STATUS_MEDIA_STATE_CONNECTED
    secured,        \* StaCfg.PortSecured
    indicated,      \* IndicateMediaState is Connected
    scan2040,       \* fOP_STATUS_SCAN_2040
    scanning,       \* fRTMP_ADAPTER_BSS_SCAN_IN_PROGRESS: data is held back
    improvedScan, notFirstScan, fromNdis, configChanged, blockAssoc,
    autoSsid,       \* MlmeAux.AutoReconnectSsid is a valid SSID
    mode,           \* StaCfg.AuthMode and StaCfg.BssType, fixed
    budget,         \* bound: requests and periodic effects still to come
    authed,         \* history: its last answer authenticated us
    granted         \* history: its last answer associated us

machines == <<cntl, auth, assoc, sync>>
timers == <<armed, firing>>
tables == <<scanTab, ssidTab, bssNr, bssIdx, roamTab>>
target == <<auxBssid, auxAlg>>
scan == <<chan, scanCnt>>
conn == <<link, bssid, media, secured, indicated, scan2040>>
flags == <<scanning, improvedScan, notFirstScan, fromNdis, configChanged,
           blockAssoc, autoSsid>>
env == <<mode, budget>>
hist == <<authed, granted>>
vars == <<machines, q, timers, tables, target, scan, conn, flags, env, hist>>

AuthMode == mode.auth
BssType == mode.type

-----------------------------------------------------------------------------
CntlStates == {"IDLE", "WAIT_DISASSOC", "WAIT_JOIN", "WAIT_START", "WAIT_AUTH",
    "WAIT_AUTH2", "WAIT_ASSOC", "WAIT_OID_LIST_SCAN", "WAIT_OID_DISASSOC"}
Timers == {"Scan", "Beacon", "Auth", "Assoc", "Disassoc", "LinkDown", "Mic"}

FrameTypes == {"PEER_BEACON", "PEER_PROBE_RSP", "PEER_AUTH", "PEER_DEAUTH",
    "PEER_DISASSOC", "PEER_ASSOC_RSP", "PEER_PUBLIC"}
MsgTypes == FrameTypes \cup {"OID_SSID", "OID_BSSID", "OID_SCAN",
    "OID_DISASSOC", "OID_MIC_REPORT", "ROAMING_REQ", "RESET_CONF",
    "SCAN_REQ", "SCAN_CONF", "SCAN_TIMEOUT", "START_REQ", "START_CONF",
    "JOIN_REQ", "JOIN_CONF", "BEACON_TIMEOUT",
    "AUTH_REQ", "AUTH_CONF", "AUTH_TIMEOUT", "DEAUTH_CONF",
    "ASSOC_REQ", "ASSOC_CONF", "ASSOC_TIMEOUT",
    "DISASSOC_REQ", "DISASSOC_CONF", "DISASSOC_TIMEOUT"}

Address == Bss \cup {NoBss, Ibss}

\* n is the table index of a JOIN_REQ, the algorithm of an AUTH_REQ (0 open,
\* 1 shared key) or the sequence number of an authentication frame.  ok is the
\* status of a confirm or response; for a beacon, that its privacy bit agrees
\* with the station's; for PEER_BEACON, n = 1 announces a channel switch.
Message == [type : MsgTypes, bss : Address, ok : BOOLEAN, n : 0 .. 9]

Msg(t, b, ok, n) == [type |-> t, bss |-> b, ok |-> ok, n |-> n]
Req(t) == Msg(t, NoBss, TRUE, 0)
Conf(t, ok) == Msg(t, NoBss, ok, 0)

\* MlmeEnqueue; no caller below looks at its result except ScanTimeout.
Enq(qq, m) == IF Len(qq) < MaxQ THEN Append(qq, m) ELSE qq

Enabled(e) == e \in Events
Wpa == AuthMode = "wpapsk"

\* The MLME thread has dequeued a message of type t; its handler sees the
\* queue behind it.
At(t) == q # << >> /\ q[1].type = t
Elem == q[1]
rest == Tail(q)

\* BssTableSsidSort and BssTableSortByRssi: the received signal strengths may
\* put the matching entries in any order.
Orders(S) == {s \in [1 .. Cardinality(S) -> S] :
                 \A i, j \in DOMAIN s : s[i] = s[j] => i = j}

\* SsidBssTab.BssEntry[i]; entries never written are zero.
Entry(tab, i) == IF i < Len(tab) THEN tab[i + 1] ELSE NoBss

-----------------------------------------------------------------------------
(* Procedures of several handlers, as the part of the step they determine. *)

downVars == <<link, media, secured, indicated, scan2040, scanning,
              improvedScan, fromNdis, notFirstScan>>

LinkDownThen(first) ==
    /\ link' = "none" /\ media' = FALSE /\ secured' = FALSE
    /\ indicated' = FALSE /\ scan2040' = FALSE
    /\ scanning' = FALSE /\ improvedScan' = FALSE
    /\ fromNdis' = (fromNdis /\ link = "adhoc")
    /\ notFirstScan' = first

LinkDown == LinkDownThen(notFirstScan /\ BssType = "adhoc")

LinkDownIf(c) == IF c THEN LinkDown ELSE UNCHANGED downVars

\* LinkDown also forgets the network it leaves, unless the upper layer asked
\* for the change or a WPA handshake was not completed.
ScanTabAfterLinkDown(ndis) ==
    IF link = "adhoc" \/ (~ndis /\ (secured \/ ~Wpa))
      THEN scanTab \ {bssid} ELSE scanTab

\* DisassocTimer is cancelled and MlmeAux becomes CommonCfg; tell says whether
\* LinkUp or its caller indicates the connection at once.  The 20/40 scan flag
\* depends on the access point.
LinkUp(type, tell) ==
    /\ link' = type /\ bssid' = auxBssid
    /\ indicated' = (indicated \/ tell)
    /\ improvedScan' = FALSE /\ notFirstScan' = TRUE
    /\ scanning' = FALSE /\ configChanged' = FALSE
    /\ media' = (media \/ type = "infra")
    /\ secured' = (secured /\ ~(Wpa /\ type = "infra"))
    /\ scan2040' \in {scan2040, scan2040 \/ (Enabled("coex") /\ type = "infra")}
    /\ armed' = (armed \ {"Disassoc"})
                  \cup (IF Wpa /\ type = "infra" THEN {"LinkDown"} ELSE {})
    /\ UNCHANGED <<firing, fromNdis, blockAssoc, autoSsid>>

\* IterateOnBssTab with SsidBssTab = tab, BssNr = nr, BssIdx = idx, ScanTab =
\* known and the message queue qq.
IterateOnBssTab(tab, nr, idx, known, qq) ==
    /\ ssidTab' = tab /\ bssIdx' = idx
    /\ \/ /\ idx < nr
          /\ q' = Enq(qq, Msg("JOIN_REQ", NoBss, TRUE, idx))
          /\ cntl' = "WAIT_JOIN"
          /\ bssNr' = nr /\ scanTab' = known
       \/ /\ idx >= nr /\ BssType = "adhoc"
          /\ q' = Enq(qq, Req("START_REQ"))
          /\ cntl' = "WAIT_START"
          /\ bssNr' = nr /\ scanTab' = known
       \/ /\ idx >= nr /\ BssType = "infra"
          /\ q' = qq
          /\ cntl' = "IDLE"
          /\ bssNr' = 0 /\ scanTab' = known \ {Entry(tab, 0)}

NextBss(known) == IterateOnBssTab(ssidTab, bssNr, bssIdx + 1, known, rest)

\* A request of the CNTL machine to another machine.
Ask(t, state) == q' = Enq(rest, Req(t)) /\ cntl' = state
AskBss(t, alg, state) ==
    q' = Enq(rest, Msg(t, auxBssid, TRUE, alg)) /\ cntl' = state

\* AUTH_MODE_KEY first for Shared and AutoSwitch.
FirstAlg == IF AuthMode \in {"shared", "autoswitch"} THEN 1 ELSE 0

\* ScanNextChannel on channel c, with ScanChannelCnt = cnt, the queue qq, and
\* the timers tt and data hold held so far.  An allocation failure in
\* scan_active ends the scan with its timer left running.
ScanNextChannel(c, cnt, qq, tt, held) ==
    /\ \/ /\ (c = 0 \/ (improvedScan /\ cnt >= ImprovedMax))
          /\ chan' = c /\ scanCnt' = 0 /\ armed' = tt
          /\ IF c # 0
               THEN /\ sync' = "SCAN_PENDING" /\ scanning' = FALSE
                    /\ q' = qq /\ UNCHANGED improvedScan
               ELSE /\ sync' = "SYNC_IDLE" /\ scanning' = held
                    /\ q' = Enq(qq, Conf("SCAN_CONF", TRUE))
                    /\ improvedScan' = FALSE
       \/ /\ c # 0 /\ ~(improvedScan /\ cnt >= ImprovedMax)
          /\ chan' = c /\ armed' = tt \cup {"Scan"}
          /\ scanCnt' = IF cnt < ImprovedMax THEN cnt + 1 ELSE cnt
          /\ scanning' = held
          /\ UNCHANGED improvedScan
          /\ \/ sync' = "SCAN_LISTEN" /\ q' = qq
             \/ /\ Enabled("nomem")
                /\ sync' = "SYNC_IDLE" /\ q' = Enq(qq, Conf("SCAN_CONF", FALSE))
    /\ UNCHANGED <<firing, notFirstScan, fromNdis, configChanged, blockAssoc,
                   autoSsid>>

\* MlmeDisassocReqAction with the queue qq.
SendDisassoc(qq) ==
    \/ /\ assoc' = "DISASSOC_WAIT_RSP"
       /\ armed' = armed \cup {"Disassoc"}
       /\ q' = qq
    \/ /\ Enabled("nomem")
       /\ assoc' = "ASSOC_IDLE"
       /\ q' = Enq(qq, Conf("DISASSOC_CONF", FALSE))
       /\ UNCHANGED armed

-----------------------------------------------------------------------------
(* The CNTL machine: CntlIdleProc, then one action per waiting state.      *)

CntlOidScanProc ==
    /\ At("OID_SCAN") /\ cntl = "IDLE"
    /\ \/ Ask("SCAN_REQ", "WAIT_OID_LIST_SCAN")
       \/ Enabled("nomem") /\ q' = rest /\ UNCHANGED cntl
    /\ UNCHANGED <<auth, assoc, sync, timers, tables, target, scan, conn,
                   flags, env, hist>>

\* Case 1: already with the strongest access point of the SSID.
OidSsidSameBss(tab) ==
    /\ link = "infra" /\ media /\ Entry(tab, 0) = bssid
    /\ IF (Wpa /\ ~secured) \/ configChanged
         THEN Ask("DISASSOC_REQ", "WAIT_DISASSOC") /\ UNCHANGED indicated
         ELSE q' = rest /\ cntl' = "IDLE" /\ indicated' = TRUE
    /\ ssidTab' = tab /\ bssNr' = Len(tab)
    /\ UNCHANGED <<bssIdx, scanTab, link, media, secured, scan2040, scanning,
                   improvedScan, fromNdis, notFirstScan>>

\* Case 2: leave the current access point first.
OidSsidOtherBss(tab) ==
    /\ link = "infra" /\ ~(media /\ Entry(tab, 0) = bssid)
    /\ Ask("DISASSOC_REQ", "WAIT_DISASSOC")
    /\ ssidTab' = tab /\ bssNr' = Len(tab)
    /\ UNCHANGED <<bssIdx, scanTab, downVars>>

\* Case 3: no access point; scan if none is known, else try them in turn.
OidSsidNoBss(tab) ==
    LET known == IF link = "adhoc" THEN ScanTabAfterLinkDown(fromNdis) ELSE scanTab
        first == IF BssType = "infra" THEN ~scanning \/ link = "adhoc"
                                      ELSE ~notFirstScan
    IN  /\ link # "infra"
        /\ IF tab = << >> /\ first
             THEN /\ Ask("SCAN_REQ", "WAIT_OID_LIST_SCAN")
                  /\ ssidTab' = tab /\ bssNr' = 0 /\ scanTab' = known
                  /\ IF link = "adhoc"
                       THEN LinkDownThen(TRUE)
                       ELSE /\ notFirstScan' = TRUE
                            /\ UNCHANGED <<link, media, secured, indicated,
                                   scan2040, scanning, improvedScan, fromNdis>>
                  /\ UNCHANGED bssIdx
             ELSE /\ IterateOnBssTab(tab, Len(tab), 0, known, rest)
                  /\ LinkDownIf(link = "adhoc")

CntlOidSsidProc ==
    /\ At("OID_SSID") /\ cntl = "IDLE"
    /\ autoSsid' = TRUE
    /\ auxBssid' = IF BssType = "infra" THEN NoBss ELSE auxBssid
    /\ \E tab \in Orders(scanTab) :
          OidSsidSameBss(tab) \/ OidSsidOtherBss(tab) \/ OidSsidNoBss(tab)
    /\ UNCHANGED <<auth, assoc, sync, timers, roamTab, auxAlg, scan, bssid,
                   configChanged, blockAssoc, env, hist>>

\* The entry may also fail to match by channel, SSID or cipher.
OidBssidNotFound ==
    /\ IF (BssType = "infra" /\ ~scanning) \/ ~notFirstScan
         THEN /\ Ask("SCAN_REQ", "WAIT_OID_LIST_SCAN")
              /\ notFirstScan' = (notFirstScan \/ BssType = "adhoc")
         ELSE Ask("START_REQ", "WAIT_START") /\ UNCHANGED notFirstScan
    /\ UNCHANGED <<link, media, secured, indicated, scan2040, scanning,
                   improvedScan, fromNdis, tables, autoSsid>>

\* The entry becomes SsidBssTab's only one; entries behind it are left over.
OidBssidFound ==
    /\ Elem.bss \in scanTab
    /\ autoSsid' = TRUE
    /\ bssIdx' = 0 /\ bssNr' = 1
    /\ ssidTab' = << Elem.bss >> \o SubSeq(ssidTab, 2, Len(ssidTab))
    /\ IF link = "infra"
         THEN Ask("DISASSOC_REQ", "WAIT_DISASSOC")
         ELSE Ask("JOIN_REQ", "WAIT_JOIN")
    /\ LinkDownIf(link = "adhoc")
    /\ scanTab' = IF link = "adhoc" THEN ScanTabAfterLinkDown(fromNdis) ELSE scanTab
    /\ UNCHANGED roamTab

CntlOidRTBssidProc ==
    /\ At("OID_BSSID") /\ cntl = "IDLE"
    /\ auxBssid' = Elem.bss
    /\ OidBssidNotFound \/ OidBssidFound
    /\ UNCHANGED <<auth, assoc, sync, timers, auxAlg, scan, bssid,
                   configChanged, blockAssoc, env, hist>>

\* CntlIdleProc, case OID_802_11_DISASSOCIATE.
CntlOidDisassoc ==
    /\ At("OID_DISASSOC") /\ cntl = "IDLE"
    /\ Ask("DISASSOC_REQ", "WAIT_OID_DISASSOC")
    /\ autoSsid' = FALSE
    /\ UNCHANGED <<auth, assoc, sync, timers, tables, target, scan, conn,
                   scanning, improvedScan, notFirstScan, fromNdis,
                   configChanged, blockAssoc, env, hist>>

\* The roaming candidates are tried while the old link is still up.
CntlMlmeRoamingProc ==
    /\ At("ROAMING_REQ") /\ cntl = "IDLE"
    /\ \E tab \in Orders(roamTab) :
          IterateOnBssTab(tab, Len(tab), 0, scanTab, rest)
    /\ UNCHANGED <<auth, assoc, sync, timers, roamTab, target, scan, conn,
                   flags, env, hist>>

CntlWaitDisassocProc ==
    /\ At("DISASSOC_CONF") /\ cntl = "WAIT_DISASSOC"
    /\ LinkDown
    /\ LET known == ScanTabAfterLinkDown(fromNdis)
       IN  IF bssNr = 0 /\ BssType = "adhoc"
             THEN /\ Ask("START_REQ", "WAIT_START")
                  /\ scanTab' = known
                  /\ UNCHANGED <<ssidTab, bssNr, bssIdx>>
             ELSE NextBss(known)
    /\ UNCHANGED <<auth, assoc, sync, timers, roamTab, target, scan, bssid,
                   configChanged, blockAssoc, autoSsid, env, hist>>

\* An ad hoc network may not be used on a radar channel.
AdhocUp(tell) ==
    /\ q' = rest /\ cntl' = "IDLE"
    /\ \/ LinkUp("adhoc", tell)
       \/ Enabled("radar") /\ UNCHANGED <<conn, flags, timers>>

\* A joined ad hoc network is linked at once; an access point is asked to
\* authenticate us.
CntlWaitJoinProc ==
    /\ At("JOIN_CONF") /\ cntl = "WAIT_JOIN"
    /\ \/ /\ Elem.ok /\ BssType = "adhoc"
          /\ AdhocUp(TRUE)
          /\ UNCHANGED tables
       \/ /\ Elem.ok /\ BssType = "infra"
          /\ AskBss("AUTH_REQ", FirstAlg, "WAIT_AUTH")
          /\ UNCHANGED <<conn, flags, timers, tables>>
       \/ /\ ~Elem.ok
          /\ NextBss(scanTab)
          /\ UNCHANGED <<conn, flags, timers, roamTab>>
    /\ UNCHANGED <<auth, assoc, sync, target, scan, env, hist>>

CntlWaitStartProc ==
    /\ At("START_CONF") /\ cntl = "WAIT_START"
    /\ IF Elem.ok
         THEN AdhocUp(FALSE)
         ELSE q' = rest /\ cntl' = "IDLE" /\ UNCHANGED <<conn, flags, timers>>
    /\ UNCHANGED <<auth, assoc, sync, tables, target, scan, env, hist>>

\* Deviation: the status of the confirm is not looked at.
WaitAuthUnchecked ==
    /\ At("AUTH_CONF") /\ cntl = "WAIT_AUTH"
    /\ AskBss("ASSOC_REQ", 0, "WAIT_ASSOC")
    /\ UNCHANGED <<auth, assoc, sync, timers, tables, target, scan, conn,
                   flags, env, hist>>

CntlWaitAuthProc ==
    /\ At("AUTH_CONF") /\ cntl = "WAIT_AUTH"
    /\ IF Elem.ok THEN AskBss("ASSOC_REQ", 0, "WAIT_ASSOC")
                  ELSE AskBss("AUTH_REQ", FirstAlg, "WAIT_AUTH2")
    /\ UNCHANGED <<auth, assoc, sync, timers, tables, target, scan, conn,
                   flags, env, hist>>

CntlWaitAuthProc2 ==
    /\ At("AUTH_CONF") /\ cntl = "WAIT_AUTH2"
    /\ \/ /\ Elem.ok
          /\ AskBss("ASSOC_REQ", 0, "WAIT_ASSOC")
          /\ UNCHANGED tables
       \/ /\ ~Elem.ok /\ AuthMode = "autoswitch" /\ auxAlg = 1
          /\ AskBss("AUTH_REQ", 0, "WAIT_AUTH2")
          /\ UNCHANGED tables
       \/ /\ ~Elem.ok /\ ~(AuthMode = "autoswitch" /\ auxAlg = 1)
          /\ NextBss(scanTab)
          /\ UNCHANGED roamTab
    /\ UNCHANGED <<auth, assoc, sync, timers, target, scan, conn, flags,
                   env, hist>>

\* Deviation: the status of the confirm is not looked at.
WaitAssocUnchecked ==
    /\ At("ASSOC_CONF") /\ cntl = "WAIT_ASSOC"
    /\ LinkUp("infra", ~Wpa)
    /\ q' = rest /\ cntl' = "IDLE"
    /\ UNCHANGED <<scanTab, ssidTab, bssNr, bssIdx>>
    /\ UNCHANGED <<auth, assoc, sync, roamTab, target, scan, env, hist>>

CntlWaitAssocProc ==
    /\ At("ASSOC_CONF") /\ cntl = "WAIT_ASSOC"
    /\ IF Elem.ok
         THEN /\ LinkUp("infra", ~Wpa)
              /\ q' = rest /\ cntl' = "IDLE"
              /\ UNCHANGED <<scanTab, ssidTab, bssNr, bssIdx>>
         ELSE NextBss(scanTab) /\ UNCHANGED <<conn, flags, timers>>
    /\ UNCHANGED <<auth, assoc, sync, roamTab, target, scan, env, hist>>

\* Deviation: data is not released.
ScanDoneHeld ==
    /\ At("SCAN_CONF") /\ cntl = "WAIT_OID_LIST_SCAN"
    /\ UNCHANGED scanning /\ improvedScan' = FALSE
    /\ \E kept \in IF Elem.ok /\ ~media THEN SUBSET scanTab ELSE {scanTab} :
          IF indicated
            THEN /\ q' = rest /\ cntl' = "IDLE" /\ scanTab' = kept
                 /\ UNCHANGED <<ssidTab, bssNr, bssIdx>>
            ELSE \E tab \in Orders(scanTab) :
                    IterateOnBssTab(tab, Len(tab), 0, kept, rest)
    /\ UNCHANGED <<auth, assoc, sync, timers, roamTab, target, scan, conn,
                   notFirstScan, fromNdis, configChanged, blockAssoc,
                   autoSsid, env, hist>>

\* case CNTL_WAIT_OID_LIST_SCAN: data flows again, an unconnected station
\* tries what the scan found, and MaintainBssTable drops entries not heard of
\* for long (never those of the connected SSID).
CntlScanDone ==
    /\ At("SCAN_CONF") /\ cntl = "WAIT_OID_LIST_SCAN"
    /\ scanning' = FALSE /\ improvedScan' = FALSE
    /\ \E kept \in IF Elem.ok /\ ~media THEN SUBSET scanTab ELSE {scanTab} :
          IF indicated
            THEN /\ q' = rest /\ cntl' = "IDLE" /\ scanTab' = kept
                 /\ UNCHANGED <<ssidTab, bssNr, bssIdx>>
            ELSE \E tab \in Orders(scanTab) :
                    IterateOnBssTab(tab, Len(tab), 0, kept, rest)
    /\ UNCHANGED <<auth, assoc, sync, timers, roamTab, target, scan, conn,
                   notFirstScan, fromNdis, configChanged, blockAssoc,
                   autoSsid, env, hist>>

\* case CNTL_WAIT_OID_DISASSOC
CntlDisassocDone ==
    /\ At("DISASSOC_CONF") /\ cntl = "WAIT_OID_DISASSOC"
    /\ LinkDown
    /\ scanTab' = ScanTabAfterLinkDown(fromNdis)
    /\ q' = rest /\ cntl' = "IDLE"
    /\ UNCHANGED <<auth, assoc, sync, timers, ssidTab, bssNr, bssIdx, roamTab,
                   target, scan, bssid, configChanged, blockAssoc, autoSsid,
                   env, hist>>

CntlAction ==
    \/ CntlOidScanProc \/ CntlOidSsidProc \/ CntlOidRTBssidProc
    \/ CntlOidDisassoc \/ CntlMlmeRoamingProc \/ CntlWaitDisassocProc
    \/ CntlWaitJoinProc \/ CntlWaitStartProc \/ CntlWaitAuthProc
    \/ CntlWaitAuthProc2 \/ CntlWaitAssocProc \/ CntlScanDone
    \/ CntlDisassocDone

-----------------------------------------------------------------------------
(* The AUTH and AUTH_RSP machines.                                         *)

AuthResult(ok) == q' = Enq(rest, Conf("AUTH_CONF", ok))

\* While association is blocked the request is refused, yet AUTH_ReqSend
\* returns TRUE and the machine waits for an answer without a timer.
MlmeAuthReqAction ==
    /\ At("AUTH_REQ") /\ auth = "IDLE"
    /\ \/ /\ blockAssoc
          /\ auth' = "WAIT_SEQ2" /\ AuthResult(FALSE)
          /\ UNCHANGED <<armed, target>>
       \/ /\ ~blockAssoc
          /\ auxBssid' = Elem.bss /\ auxAlg' = Elem.n
          /\ \/ auth' = "WAIT_SEQ2" /\ armed' = armed \cup {"Auth"} /\ q' = rest
             \/ /\ Enabled("nomem")
                /\ auth' = "IDLE" /\ armed' = armed \ {"Auth"}
                /\ q' = Enq(Enq(rest, Conf("AUTH_CONF", FALSE)),
                            Conf("AUTH_CONF", FALSE))
    /\ UNCHANGED <<cntl, assoc, sync, firing, tables, scan, conn, flags,
                   env, hist>>

\* PeerAuthRspAtSeq2Action and PeerAuthRspAtSeq4Action on a frame that is for
\* us; open system ends after frame 2, shared key after frame 4.
AuthAnswered(last) ==
    /\ Elem.bss = auxBssid
    /\ \/ /\ Elem.ok /\ ~last
          /\ auth' = "WAIT_SEQ4" /\ armed' = armed \cup {"Auth"}
          /\ q' = rest /\ UNCHANGED authed
       \/ /\ ~Elem.ok \/ last \/ Enabled("nomem")
          /\ auth' = "IDLE" /\ armed' = armed \ {"Auth"}
          /\ LET ok == Elem.ok /\ last
             IN  /\ AuthResult(ok)
                 /\ authed' = IF ok THEN authed \cup {Elem.bss}
                                    ELSE authed \ {Elem.bss}

PeerAuthRspAtSeq2Action ==
    /\ At("PEER_AUTH") /\ auth = "WAIT_SEQ2" /\ Elem.n = 2
    /\ AuthAnswered(auxAlg = 0)
    /\ UNCHANGED <<cntl, assoc, sync, firing, tables, target, scan, conn,
                   flags, env, granted>>

PeerAuthRspAtSeq4Action ==
    /\ At("PEER_AUTH") /\ auth = "WAIT_SEQ4" /\ Elem.n = 4
    /\ AuthAnswered(TRUE)
    /\ UNCHANGED <<cntl, assoc, sync, firing, tables, target, scan, conn,
                   flags, env, granted>>

\* Deviation: the CNTL machine is not told.
AuthTimeoutSilent ==
    /\ At("AUTH_TIMEOUT") \/ At("AUTH_REQ")
    /\ auth # "IDLE"
    /\ auth' = "IDLE" /\ q' = rest
    /\ UNCHANGED <<cntl, assoc, sync, timers, tables, target, scan, conn,
                   flags, env, hist>>

\* AuthTimeoutAction, and InvalidStateWhenAuth for a request while waiting.
AuthTimeoutAction ==
    /\ At("AUTH_TIMEOUT") \/ At("AUTH_REQ")
    /\ auth # "IDLE"
    /\ auth' = "IDLE" /\ AuthResult(FALSE)
    /\ UNCHANGED <<cntl, assoc, sync, timers, tables, target, scan, conn,
                   flags, env, hist>>

\* The access point has deauthenticated us; an unfinished WPA-PSK handshake
\* goes on to the next network.  The CNTL machine may be in any state.
PeerDeauthAction ==
    /\ At("PEER_DEAUTH") /\ link = "infra" /\ Elem.bss = bssid
    /\ authed' = authed \ {Elem.bss} /\ granted' = granted \ {Elem.bss}
    /\ LinkDown
    /\ LET known == ScanTabAfterLinkDown(fromNdis)
       IN  IF Wpa /\ ~secured
             THEN NextBss(known)
             ELSE /\ q' = rest /\ scanTab' = known
                  /\ UNCHANGED <<cntl, ssidTab, bssNr, bssIdx>>
    /\ UNCHANGED <<auth, assoc, sync, timers, roamTab, target, scan, bssid,
                   configChanged, blockAssoc, autoSsid, env>>

AuthAction ==
    \/ MlmeAuthReqAction \/ PeerAuthRspAtSeq2Action \/ PeerAuthRspAtSeq4Action
    \/ AuthTimeoutAction \/ PeerDeauthAction

-----------------------------------------------------------------------------
(* The ASSOC machine.                                                      *)

assocOther == <<auth, sync, firing, target, scan, env, authed>>

\* Deviation: AssocTimer is not set.
AssocReqUntimed ==
    /\ At("ASSOC_REQ") /\ assoc = "ASSOC_IDLE"
    /\ \/ /\ ~blockAssoc
          /\ auxBssid' = Elem.bss
          /\ assoc' = "ASSOC_WAIT_RSP" /\ UNCHANGED armed
          /\ q' = rest
       \/ /\ blockAssoc \/ Enabled("nomem")
          /\ assoc' = "ASSOC_IDLE"
          /\ q' = Enq(rest, Conf("ASSOC_CONF", FALSE))
          /\ auxBssid' = IF blockAssoc THEN auxBssid ELSE Elem.bss
          /\ armed' = IF blockAssoc THEN armed ELSE armed \ {"Assoc"}
    /\ UNCHANGED <<cntl, auth, sync, firing, auxAlg, scan, tables, conn, flags,
                   env, hist>>

MlmeAssocReqAction ==
    /\ At("ASSOC_REQ") /\ assoc = "ASSOC_IDLE"
    /\ \/ /\ ~blockAssoc
          /\ auxBssid' = Elem.bss
          /\ assoc' = "ASSOC_WAIT_RSP" /\ armed' = armed \cup {"Assoc"}
          /\ q' = rest
       \/ /\ blockAssoc \/ Enabled("nomem")
          /\ assoc' = "ASSOC_IDLE"
          /\ q' = Enq(rest, Conf("ASSOC_CONF", FALSE))
          /\ auxBssid' = IF blockAssoc THEN auxBssid ELSE Elem.bss
          /\ armed' = IF blockAssoc THEN armed ELSE armed \ {"Assoc"}
    /\ UNCHANGED <<cntl, auth, sync, firing, auxAlg, scan, tables, conn, flags,
                   env, hist>>

MlmeDisassocReqAction ==
    /\ At("DISASSOC_REQ") /\ assoc = "ASSOC_IDLE"
    /\ SendDisassoc(rest)
    /\ UNCHANGED <<cntl, assocOther, tables, conn, flags, granted>>

PeerAssocRspAction ==
    /\ At("PEER_ASSOC_RSP") /\ assoc = "ASSOC_WAIT_RSP" /\ Elem.bss = auxBssid
    /\ armed' = armed \ {"Assoc"}
    /\ assoc' = "ASSOC_IDLE"
    /\ q' = Enq(rest, Conf("ASSOC_CONF", Elem.ok))
    /\ granted' = IF Elem.ok THEN granted \cup {Elem.bss}
                              ELSE granted \ {Elem.bss}
    /\ UNCHANGED <<cntl, assocOther, tables, conn, flags>>

\* The access point has disassociated us.
PeerDisassocAction ==
    /\ At("PEER_DISASSOC") /\ link = "infra" /\ Elem.bss = bssid
    /\ granted' = granted \ {Elem.bss}
    /\ assoc' = "ASSOC_IDLE"
    /\ IF cntl = "WAIT_DISASSOC"
         THEN /\ q' = Enq(rest, Conf("DISASSOC_CONF", TRUE))
              /\ UNCHANGED <<downVars, scanTab>>
         ELSE /\ LinkDown
              /\ scanTab' = ScanTabAfterLinkDown(fromNdis)
              /\ q' = rest
    /\ UNCHANGED <<cntl, assocOther, armed, ssidTab, bssNr, bssIdx, roamTab,
                   bssid, configChanged, blockAssoc, autoSsid>>

\* The timeouts, and InvalidStateWhenAssoc and InvalidStateWhenDisassociate
\* for a request while waiting.
AssocTimeoutAction ==
    /\ \/ At("ASSOC_TIMEOUT") /\ assoc = "ASSOC_WAIT_RSP"
       \/ At("ASSOC_REQ") /\ assoc # "ASSOC_IDLE"
    /\ assoc' = "ASSOC_IDLE" /\ q' = Enq(rest, Conf("ASSOC_CONF", FALSE))
    /\ UNCHANGED <<cntl, assocOther, armed, tables, conn, flags, granted>>

\* Deviation: the CNTL machine is not told.
DisassocTimeoutSilent ==
    /\ \/ At("DISASSOC_TIMEOUT") /\ assoc = "DISASSOC_WAIT_RSP"
       \/ At("DISASSOC_REQ") /\ assoc # "ASSOC_IDLE"
    /\ assoc' = "ASSOC_IDLE"
    /\ q' = rest
    /\ UNCHANGED <<cntl, assocOther, armed, tables, conn, flags, granted>>

DisassocTimeoutAction ==
    /\ \/ At("DISASSOC_TIMEOUT") /\ assoc = "DISASSOC_WAIT_RSP"
       \/ At("DISASSOC_REQ") /\ assoc # "ASSOC_IDLE"
    /\ assoc' = "ASSOC_IDLE"
    /\ q' = Enq(rest, Conf("DISASSOC_CONF", At("DISASSOC_TIMEOUT")))
    /\ UNCHANGED <<cntl, assocOther, armed, tables, conn, flags, granted>>

AssocAction ==
    \/ MlmeAssocReqAction \/ MlmeDisassocReqAction \/ PeerAssocRspAction
    \/ PeerDisassocAction \/ AssocTimeoutAction \/ DisassocTimeoutAction

-----------------------------------------------------------------------------
(* The SYNC machine.                                                       *)

MlmeScanReqAction ==
    /\ At("SCAN_REQ") /\ sync \in {"SYNC_IDLE", "SCAN_PENDING"}
    /\ ScanNextChannel(
          IF improvedScan /\ sync = "SCAN_PENDING" THEN chan ELSE NChan,
          scanCnt, rest, armed \ {"Beacon", "Scan"}, TRUE)
    /\ UNCHANGED <<cntl, auth, assoc, tables, target, conn, env, hist>>

ScanTimeoutAction ==
    /\ At("SCAN_TIMEOUT") /\ sync = "SCAN_LISTEN"
    /\ ScanNextChannel(chan - 1, scanCnt, rest, armed, scanning)
    /\ UNCHANGED <<cntl, auth, assoc, tables, target, conn, env, hist>>

\* Deviation: BeaconTimer is not set.
JoinReqUntimed ==
    /\ At("JOIN_REQ") /\ sync # "SCAN_PENDING"
    /\ auxBssid' = Entry(ssidTab, Elem.n)
    /\ armed' = armed \ {"Scan"}
    /\ sync' = "JOIN_WAIT_BEACON" /\ q' = rest
    /\ UNCHANGED <<cntl, auth, assoc, firing, tables, auxAlg, scan, conn,
                   flags, env, hist>>

\* The table entry is read when the request is processed, not when it was made.
MlmeJoinReqAction ==
    /\ At("JOIN_REQ") /\ sync # "SCAN_PENDING"
    /\ auxBssid' = Entry(ssidTab, Elem.n)
    /\ armed' = (armed \ {"Scan"}) \cup {"Beacon"}
    /\ sync' = "JOIN_WAIT_BEACON" /\ q' = rest
    /\ UNCHANGED <<cntl, auth, assoc, firing, tables, auxAlg, scan, conn,
                   flags, env, hist>>

\* A channel without IBSS is refused; an allocation failure is silent.
MlmeStartReqAction ==
    /\ At("START_REQ") /\ sync = "SYNC_IDLE"
    /\ \/ /\ auxBssid' = Ibss
          /\ armed' = armed \ {"Scan", "Beacon"}
          /\ q' = Enq(rest, Conf("START_CONF", TRUE))
       \/ /\ Enabled("radar")
          /\ q' = Enq(rest, Conf("START_CONF", FALSE))
          /\ UNCHANGED <<auxBssid, armed>>
       \/ /\ Enabled("nomem")
          /\ q' = rest /\ UNCHANGED <<auxBssid, armed>>
    /\ UNCHANGED <<machines, firing, tables, auxAlg, scan, conn, flags,
                   env, hist>>

\* A START_REQ while joining or scanning; the timers are left running.
InvalidStateWhenStart ==
    /\ At("START_REQ") /\ sync \in {"JOIN_WAIT_BEACON", "SCAN_LISTEN"}
    /\ sync' = "SYNC_IDLE" /\ q' = Enq(rest, Conf("START_CONF", FALSE))
    /\ UNCHANGED <<cntl, auth, assoc, timers, tables, target, scan, conn,
                   flags, env, hist>>

PeerBeaconAtScanAction ==
    /\ \/ At("PEER_BEACON") /\ sync = "SCAN_LISTEN"
       \/ At("PEER_PROBE_RSP") /\ sync \in {"SCAN_LISTEN", "JOIN_WAIT_BEACON"}
    /\ scanTab' = scanTab \cup {Elem.bss} /\ q' = rest
    /\ UNCHANGED <<machines, timers, ssidTab, bssNr, bssIdx, roamTab, target,
                   scan, conn, flags, env, hist>>

\* The beacon waited for.  If the network is known and its privacy setting
\* has changed, a new scan is asked for.
PeerBeaconAtJoinAction ==
    /\ At("PEER_BEACON") /\ sync = "JOIN_WAIT_BEACON" /\ Elem.bss = auxBssid
    /\ armed' = armed \ {"Beacon"}
    /\ IF Elem.bss \in scanTab /\ ~Elem.ok
         THEN /\ Ask("SCAN_REQ", "WAIT_OID_LIST_SCAN")
              /\ UNCHANGED <<sync, scanTab>>
         ELSE /\ sync' = "SYNC_IDLE"
              /\ q' = Enq(rest, Conf("JOIN_CONF", TRUE))
              /\ scanTab' = scanTab \cup {Elem.bss}
              /\ UNCHANGED cntl
    /\ UNCHANGED <<auth, assoc, firing, ssidTab, bssNr, bssIdx, roamTab,
                   target, scan, conn, flags, env, hist>>

\* Deviation: the CNTL machine is not told.
BeaconTimeoutSilent ==
    /\ At("BEACON_TIMEOUT") /\ sync = "JOIN_WAIT_BEACON"
    /\ sync' = "SYNC_IDLE" /\ q' = rest
    /\ UNCHANGED <<cntl, auth, assoc, timers, tables, target, scan, conn,
                   flags, env, hist>>

BeaconTimeoutAtJoinAction ==
    /\ At("BEACON_TIMEOUT") /\ sync = "JOIN_WAIT_BEACON"
    /\ sync' = "SYNC_IDLE" /\ q' = Enq(rest, Conf("JOIN_CONF", FALSE))
    /\ UNCHANGED <<cntl, auth, assoc, timers, tables, target, scan, conn,
                   flags, env, hist>>

\* Deviation: a known access point is counted again.
NoteBssCounted ==
    IF \E i \in 1 .. bssNr : ssidTab[i] = Elem.bss
      THEN bssNr' = bssNr + 1 /\ UNCHANGED ssidTab
      ELSE /\ bssNr' = bssNr + 1
           /\ ssidTab' = SubSeq(ssidTab, 1, bssNr) \o << Elem.bss >>
                            \o SubSeq(ssidTab, bssNr + 2, Len(ssidTab))

\* A new access point of our SSID is added to both tables.
NoteBss ==
    IF \E i \in 1 .. bssNr : ssidTab[i] = Elem.bss
      THEN UNCHANGED <<ssidTab, bssNr>>
      ELSE /\ bssNr' = bssNr + 1
           /\ ssidTab' = SubSeq(ssidTab, 1, bssNr) \o << Elem.bss >>
                            \o SubSeq(ssidTab, bssNr + 2, Len(ssidTab))

\* A beacon of our network outside scan and join.  Our access point may have
\* announced a channel switch (the queue and the scan table are cleared) or
\* changed its privacy setting (the scan table is cleared); an ad hoc station
\* moves to the larger BSSID and is connected once it hears a peer.
PeerBeacon ==
    /\ At("PEER_BEACON") /\ sync \in {"SYNC_IDLE", "SCAN_PENDING"}
    /\ link # "none" /\ cntl # "WAIT_DISASSOC"
    /\ NoteBss
    /\ \E mine \in {Elem.bss = bssid, Elem.bss = bssid \/ link = "adhoc"} :
          LET switch == mine /\ Elem.n = 1
              leave == switch \/ (mine /\ ~Elem.ok /\ link = "infra")
          IN  /\ bssid' = IF mine THEN Elem.bss ELSE bssid
              /\ scanTab' = IF leave THEN {} ELSE scanTab \cup {Elem.bss}
              /\ q' = IF switch THEN << >> ELSE rest
              /\ IF leave
                   THEN LinkDown
                   ELSE LET peer == mine /\ Elem.ok /\ link = "adhoc" /\ ~media
                        IN  /\ media' = (media \/ peer)
                            /\ indicated' = (indicated \/ peer)
                            /\ UNCHANGED <<link, secured, scan2040, scanning,
                                           improvedScan, fromNdis, notFirstScan>>
    /\ UNCHANGED <<machines, timers, bssIdx, roamTab, target, scan,
                   configChanged, blockAssoc, autoSsid, env, hist>>

SyncAction ==
    \/ MlmeScanReqAction \/ ScanTimeoutAction \/ MlmeJoinReqAction
    \/ MlmeStartReqAction \/ InvalidStateWhenStart \/ PeerBeaconAtScanAction
    \/ PeerBeaconAtJoinAction \/ BeaconTimeoutAtJoinAction \/ PeerBeacon

-----------------------------------------------------------------------------
\* MlmeRestartStateMachine: every machine is idle again; the queue is kept.
MlmeRestartStateMachine ==
    /\ At("RESET_CONF")
    /\ cntl' = "IDLE" /\ auth' = "IDLE" /\ assoc' = "ASSOC_IDLE"
    /\ sync' = "SYNC_IDLE"
    /\ armed' = armed \cap {"LinkDown", "Mic"}
    /\ scanning' = FALSE
    /\ q' = rest
    /\ UNCHANGED <<firing, tables, target, scan, conn, improvedScan,
                   notFirstScan, fromNdis, configChanged, blockAssoc, autoSsid,
                   env, hist>>

\* A coexistence scan: the CNTL machine waits for it whatever it was doing.
CoexScan(qq) ==
    /\ scan2040
    /\ q' = Enq(qq, Req("SCAN_REQ")) /\ cntl' = "WAIT_OID_LIST_SCAN"

\* The ACTION machine: our access point asks for a coexistence report.
StaPublicAction ==
    /\ At("PEER_PUBLIC")
    /\ CoexScan(rest)
    /\ UNCHANGED <<auth, assoc, sync, timers, tables, target, scan, conn,
                   flags, env, hist>>

CntlTakes(t) ==
    CASE t \in {"OID_SCAN", "OID_SSID", "OID_BSSID", "OID_DISASSOC",
                "ROAMING_REQ"} -> cntl = "IDLE"
      [] t = "DISASSOC_CONF" -> cntl \in {"WAIT_DISASSOC", "WAIT_OID_DISASSOC"}
      [] t = "JOIN_CONF" -> cntl = "WAIT_JOIN"
      [] t = "START_CONF" -> cntl = "WAIT_START"
      [] t = "AUTH_CONF" -> cntl \in {"WAIT_AUTH", "WAIT_AUTH2"}
      [] t = "ASSOC_CONF" -> cntl = "WAIT_ASSOC"
      [] t = "SCAN_CONF" -> cntl = "WAIT_OID_LIST_SCAN"
      [] t \in {"DEAUTH_CONF", "OID_MIC_REPORT"} -> FALSE
      [] OTHER -> TRUE

\* The tables set up by SyncStateMachineInit, AuthStateMachineInit,
\* AuthRspStateMachineInit and AssocStateMachineInit, with the conditions
\* under which a handler does anything at all.
Takes(e) ==
    LET mine == link = "infra" /\ e.bss = bssid
    IN  CASE e.type = "AUTH_TIMEOUT" -> auth # "IDLE"
          [] e.type = "PEER_AUTH" ->
                /\ e.bss = auxBssid
                /\ (auth = "WAIT_SEQ2" /\ e.n = 2) \/ (auth = "WAIT_SEQ4" /\ e.n = 4)
          [] e.type \in {"PEER_DEAUTH", "PEER_DISASSOC"} -> mine
          [] e.type = "ASSOC_TIMEOUT" -> assoc = "ASSOC_WAIT_RSP"
          [] e.type = "DISASSOC_TIMEOUT" -> assoc = "DISASSOC_WAIT_RSP"
          [] e.type = "PEER_ASSOC_RSP" -> assoc = "ASSOC_WAIT_RSP" /\ e.bss = auxBssid
          [] e.type = "SCAN_REQ" -> sync \in {"SYNC_IDLE", "SCAN_PENDING"}
          [] e.type = "SCAN_TIMEOUT" -> sync = "SCAN_LISTEN"
          [] e.type \in {"JOIN_REQ", "START_REQ"} -> sync # "SCAN_PENDING"
          [] e.type = "BEACON_TIMEOUT" -> sync = "JOIN_WAIT_BEACON"
          [] e.type = "PEER_PROBE_RSP" -> sync \in {"SCAN_LISTEN", "JOIN_WAIT_BEACON"}
          [] e.type = "PEER_BEACON" ->
                \/ sync = "SCAN_LISTEN"
                \/ sync = "JOIN_WAIT_BEACON" /\ e.bss = auxBssid
                \/ /\ sync \in {"SYNC_IDLE", "SCAN_PENDING"}
                   /\ link # "none" /\ cntl # "WAIT_DISASSOC"
          [] e.type = "PEER_PUBLIC" -> scan2040
          [] OTHER -> CntlTakes(e.type)

\* Drop, or a handler that finds the message is not for it.
Drop ==
    /\ q # << >> /\ ~Takes(Elem)
    /\ q' = rest
    /\ UNCHANGED <<machines, timers, tables, target, scan, conn, flags, env,
                   hist>>

MlmeHandler ==
    \/ CntlAction \/ AuthAction \/ AssocAction \/ SyncAction
    \/ MlmeRestartStateMachine \/ StaPublicAction \/ Drop

-----------------------------------------------------------------------------
(* The timer thread, the receive path and the ioctls, between two messages *)
(* of the MLME thread.                                                     *)

\* The timer thread takes an expired timer from its queue; RTMPCancelTimer
\* no longer reaches it.
TimerPop(t) ==
    /\ t \in armed /\ firing = "none"
    /\ firing' = t /\ armed' = armed \ {t}
    /\ UNCHANGED <<machines, q, tables, target, scan, conn, flags, env, hist>>

TimeoutMsg(t) ==
    CASE t = "Beacon" -> "BEACON_TIMEOUT" [] t = "Auth" -> "AUTH_TIMEOUT"
      [] t = "Assoc" -> "ASSOC_TIMEOUT" [] t = "Disassoc" -> "DISASSOC_TIMEOUT"
      [] OTHER -> "SCAN_TIMEOUT"

\* BeaconTimeout, AuthTimeout, AssocTimeout, DisassocTimeout.
Timeout ==
    /\ firing \in {"Beacon", "Auth", "Assoc", "Disassoc"}
    /\ firing' = "none"
    /\ q' = Enq(q, Req(TimeoutMsg(firing)))
    /\ UNCHANGED <<machines, armed, tables, target, scan, conn, flags, env,
                   hist>>

\* ScanTimeout; with a full queue it ends the scan itself.
ScanTimeout ==
    /\ firing = "Scan"
    /\ firing' = "none"
    /\ IF Len(q) < MaxQ
         THEN /\ q' = Append(q, Req("SCAN_TIMEOUT"))
              /\ UNCHANGED <<sync, armed, scan, scanning, improvedScan>>
         ELSE /\ chan' = 0 /\ scanCnt' = 0 /\ sync' = "SYNC_IDLE"
              /\ improvedScan' = FALSE
              /\ UNCHANGED <<q, armed, scanning>>
    /\ UNCHANGED <<cntl, auth, assoc, tables, target, conn, notFirstScan,
                   fromNdis, configChanged, blockAssoc, autoSsid, env, hist>>

\* LinkDownExec: the WPA handshake has not completed in time.
LinkDownExec ==
    /\ firing = "LinkDown"
    /\ firing' = "none"
    /\ IF link = "infra" /\ ~secured
         THEN /\ q' = Enq(q, Req("DISASSOC_REQ"))
              /\ cntl' = "WAIT_DISASSOC" /\ indicated' = FALSE
         ELSE UNCHANGED <<q, cntl, indicated>>
    /\ UNCHANGED <<auth, assoc, sync, armed, tables, target, scan, link, bssid,
                   media, secured, scan2040, flags, env, hist>>

\* STAMlmePeriodicExec runs in the timer thread as well.
Periodic(e) ==
    /\ Enabled(e) /\ firing = "none"
    /\ budget > 0 /\ budget' = budget - 1 /\ UNCHANGED mode

\* The improved scan goes on a second after it was interrupted.
ResumeScan ==
    /\ firing = "none"
    /\ improvedScan /\ ~scanning /\ sync = "SCAN_PENDING"
    /\ \A i \in DOMAIN q : q[i].type # "SCAN_REQ"   \* bound
    /\ q' = Enq(q, Req("SCAN_REQ"))
    /\ UNCHANGED <<machines, timers, tables, target, scan, conn, flags, env,
                   hist>>

\* MlmeAutoReconnectLastSSID
AutoReconnect(qq) == IF cntl = "IDLE" /\ autoSsid THEN Enq(qq, Req("OID_SSID")) ELSE qq

\* The channel quality is dead (the link is taken down here, in the timer
\* thread) or bad.
LostBeacons ==
    /\ Periodic("cqi")
    /\ link = "infra" /\ ~scanning /\ ~improvedScan
    /\ q' = AutoReconnect(q)
    /\ \/ /\ LinkDown
          /\ scanTab' = ScanTabAfterLinkDown(FALSE)
       \/ UNCHANGED <<downVars, scanTab>>
    /\ UNCHANGED <<machines, timers, ssidTab, bssNr, bssIdx, roamTab, target,
                   scan, bssid, configChanged, blockAssoc, autoSsid, hist>>

\* MlmeCheckForFastRoaming, and MlmeAutoScan when there is no candidate.
Roam ==
    /\ Periodic("roam")
    /\ link = "infra" /\ ~scanning /\ sync = "SYNC_IDLE"
    /\ \E cand \in SUBSET (scanTab \ {bssid}) :
          /\ roamTab' = cand
          /\ q' = IF cntl # "IDLE" THEN q
                  ELSE Enq(q, Req(IF cand = {} THEN "OID_SCAN" ELSE "ROAMING_REQ"))
    /\ UNCHANGED <<machines, timers, scanTab, ssidTab, bssNr, bssIdx, target,
                   scan, conn, flags, hist>>

\* Not connected: connect to the last SSID, after a scan if none is known.
Reconnect ==
    /\ Periodic("reconnect")
    /\ link = "none" /\ autoSsid /\ cntl = "IDLE"
    /\ \/ /\ scanTab = {}
          /\ q' = Enq(q, Req("SCAN_REQ")) /\ cntl' = "WAIT_OID_LIST_SCAN"
          /\ notFirstScan' = (notFirstScan \/ BssType = "adhoc")
       \/ /\ q' = AutoReconnect(q)
          /\ UNCHANGED <<cntl, notFirstScan>>
    /\ UNCHANGED <<auth, assoc, sync, timers, tables, target, scan, conn,
                   scanning, improvedScan, fromNdis, configChanged, blockAssoc,
                   autoSsid, hist>>

\* The periodic 20/40 coexistence scan.
PeriodicCoex ==
    /\ Periodic("coex")
    /\ CoexScan(q)
    /\ UNCHANGED <<auth, assoc, sync, timers, tables, target, scan, conn, flags,
                   hist>>

\* All peers of the ad hoc network have left.
AdhocAlone ==
    /\ Periodic("alone")
    /\ link = "adhoc" /\ media
    /\ media' = FALSE /\ indicated' = FALSE
    /\ UNCHANGED <<machines, q, timers, tables, target, scan, link, bssid,
                   secured, scan2040, flags, hist>>

\* The receive path has found the second MIC failure within a minute.
RTMPReportMicError ==
    /\ Enabled("mic") /\ budget > 0 /\ budget' = budget - 1 /\ UNCHANGED mode
    /\ link = "infra" /\ Wpa /\ secured
    /\ q' = Enq(q, Req("OID_MIC_REPORT"))
    /\ armed' = armed \cup {"Mic"}
    /\ UNCHANGED <<machines, firing, tables, target, scan, conn, flags, hist>>

WpaDisassocApAndBlockAssoc ==
    /\ firing = "Mic"
    /\ firing' = "none"
    /\ q' = Enq(q, Req("DISASSOC_REQ"))
    /\ cntl' = "WAIT_DISASSOC" /\ blockAssoc' = TRUE
    /\ UNCHANGED <<auth, assoc, sync, armed, tables, target, scan, conn,
                   scanning, improvedScan, notFirstScan, fromNdis,
                   configChanged, autoSsid, env, hist>>

\* STAMlmePeriodicExec ends the blocking after 60 seconds.
Unblock ==
    /\ firing = "none" /\ blockAssoc
    /\ blockAssoc' = FALSE
    /\ UNCHANGED <<machines, q, timers, tables, target, scan, conn, scanning,
                   improvedScan, notFirstScan, fromNdis, configChanged,
                   autoSsid, env, hist>>

-----------------------------------------------------------------------------
\* PORT_SECURED: the four-way handshake has completed.
PortSecured ==
    /\ Wpa /\ link = "infra" /\ ~secured
    /\ secured' = TRUE /\ indicated' = TRUE
    /\ armed' = armed \ {"LinkDown"}
    /\ UNCHANGED <<machines, q, firing, tables, target, scan, link, bssid,
                   media, scan2040, flags, env, hist>>

Frames ==
    LET air(t, oks, ns) == {Msg(t, b, ok, n) : b \in Bss, ok \in oks, n \in ns}
    IN  UNION {
          air("PEER_BEACON", IF Enabled("privacy") THEN BOOLEAN ELSE {TRUE},
              IF Enabled("csa") THEN {0, 1} ELSE {0}),
          air("PEER_PROBE_RSP", {TRUE}, {0}),
          air("PEER_AUTH", BOOLEAN, IF FirstAlg = 1 THEN {2, 4} ELSE {2}),
          air("PEER_ASSOC_RSP", BOOLEAN, {0}),
          IF Enabled("deauth") THEN air("PEER_DEAUTH", {TRUE}, {0}) ELSE {},
          IF Enabled("disassoc") THEN air("PEER_DISASSOC", {TRUE}, {0}) ELSE {},
          IF Enabled("coex") THEN {Req("PEER_PUBLIC")} ELSE {}}

\* MlmeEnqueueForRecv of any frame, requested or not, late or repeated.
Receive(f) ==
    /\ Cardinality({i \in DOMAIN q : q[i].type \in FrameTypes}) < MaxFrames
    /\ 2 * Len(q) < MaxQ
    /\ q' = Append(q, f)
    /\ UNCHANGED <<machines, timers, tables, target, scan, conn, flags, env,
                   hist>>

\* An ioctl.  A busy CNTL machine is told to reset first.
Ioctl(e) == Enabled(e) /\ budget > 0 /\ budget' = budget - 1 /\ UNCHANGED mode
Reset(qq) == IF cntl = "IDLE" THEN qq ELSE Enq(qq, Req("RESET_CONF"))

Set_SSID_Proc ==
    /\ Ioctl("ssid")
    /\ q' = Enq(Reset(q), Req("OID_SSID"))
    /\ autoSsid' = TRUE /\ fromNdis' = TRUE /\ configChanged' = TRUE
    /\ notFirstScan' = FALSE
    /\ UNCHANGED <<machines, timers, tables, target, scan, conn, scanning,
                   improvedScan, blockAssoc, hist>>

StaSiteSurvey ==
    /\ Ioctl("scan")
    /\ ~scanning
    /\ q' = Enq(Reset(q), Req("OID_SCAN"))
    /\ improvedScan' = (improvedScan \/ link = "infra")
    /\ scanCnt' = IF link = "infra" THEN 0 ELSE scanCnt
    /\ UNCHANGED <<machines, timers, tables, target, chan, conn, scanning,
                   notFirstScan, fromNdis, configChanged, blockAssoc, autoSsid,
                   hist>>

\* rt_ioctl_siwap: a BSSID to connect to, or the zero address to disconnect.
SetBssid(b) ==
    /\ Ioctl("bssid")
    /\ q' = IF b = NoBss THEN Reset(q)
            ELSE Enq(Reset(q), Msg("OID_BSSID", b, TRUE, 0))
    /\ autoSsid' = FALSE
    /\ IF b = NoBss /\ link = "infra"
         THEN LinkDown /\ scanTab' = ScanTabAfterLinkDown(FALSE)
         ELSE /\ fromNdis' = FALSE
              /\ UNCHANGED <<link, media, secured, indicated, scan2040, scanning,
                             improvedScan, notFirstScan, scanTab>>
    /\ UNCHANGED <<machines, timers, ssidTab, bssNr, bssIdx, roamTab, target,
                   scan, bssid, configChanged, blockAssoc, hist>>

\* OID_802_11_DISASSOCIATE
SetDisassociate ==
    /\ Ioctl("leave")
    /\ fromNdis' = TRUE
    /\ q' = IF link = "infra" THEN Enq(Reset(q), Req("OID_DISASSOC")) ELSE q
    /\ UNCHANGED <<machines, timers, tables, target, scan, conn, scanning,
                   improvedScan, notFirstScan, configChanged, blockAssoc,
                   autoSsid, hist>>

\* IW_MLME_DISASSOC: the ASSOC handler is called in the caller's context.
MlmeDisassocIoctl ==
    /\ Ioctl("mlme")
    /\ cntl' = "WAIT_OID_DISASSOC"
    /\ SendDisassoc(q)
    /\ UNCHANGED <<auth, sync, firing, tables, target, scan, conn, flags, hist>>

\* IW_MLME_DEAUTH
MlmeDeauthIoctl ==
    /\ Ioctl("mlme")
    /\ auth' = "IDLE" /\ q' = Enq(q, Req("DEAUTH_CONF"))
    /\ LinkDownIf(link = "infra")
    /\ scanTab' = IF link = "infra" THEN ScanTabAfterLinkDown(fromNdis) ELSE scanTab
    /\ assoc' = IF link = "infra" THEN "ASSOC_IDLE" ELSE assoc
    /\ UNCHANGED <<cntl, sync, timers, ssidTab, bssNr, bssIdx, roamTab, target,
                   scan, bssid, configChanged, blockAssoc, autoSsid, hist>>

-----------------------------------------------------------------------------
Init ==
    /\ cntl = "IDLE" /\ auth = "IDLE" /\ assoc = "ASSOC_IDLE"
    /\ sync = "SYNC_IDLE"
    /\ q = << >> /\ armed = {} /\ firing = "none"
    /\ scanTab = {} /\ ssidTab = << >> /\ bssNr = 0 /\ bssIdx = 0 /\ roamTab = {}
    /\ auxBssid = NoBss /\ auxAlg = 0 /\ chan = 0 /\ scanCnt = 0
    /\ link = "none" /\ bssid = NoBss /\ media = FALSE /\ secured = FALSE
    /\ indicated = FALSE /\ scan2040 = FALSE
    /\ scanning = FALSE /\ improvedScan = FALSE /\ notFirstScan = FALSE
    /\ fromNdis = FALSE /\ configChanged = FALSE /\ blockAssoc = FALSE
    /\ autoSsid \in BOOLEAN
    /\ mode \in Modes /\ budget = MaxEvents /\ authed = {} /\ granted = {}

TimerThread ==
    \/ \E t \in Timers : TimerPop(t)
    \/ Timeout \/ ScanTimeout \/ LinkDownExec \/ WpaDisassocApAndBlockAssoc
    \/ ResumeScan \/ Unblock

Next ==
    \/ MlmeHandler
    \/ TimerThread
    \/ LostBeacons \/ Roam \/ Reconnect \/ PeriodicCoex \/ AdhocAlone
    \/ RTMPReportMicError \/ PortSecured
    \/ \E f \in Frames : Receive(f)
    \/ Set_SSID_Proc \/ StaSiteSurvey \/ SetDisassociate
    \/ MlmeDisassocIoctl \/ MlmeDeauthIoctl
    \/ \E b \in Bss \cup {NoBss} : SetBssid(b)

Spec == Init /\ [][Next]_vars

\* The MLME thread runs while there are messages, and the timer thread runs
\* expired timers and the periodic function.
FairSpec ==
    /\ Spec
    /\ WF_vars(MlmeHandler)
    /\ \A t \in Timers : WF_vars(TimerPop(t))
    /\ WF_vars(Timeout \/ ScanTimeout \/ LinkDownExec
                 \/ WpaDisassocApAndBlockAssoc)
    /\ WF_vars(ResumeScan)
    /\ WF_vars(Unblock)

-----------------------------------------------------------------------------
\* The type invariant of the machines, tables and flags.
TypeOK ==
    /\ cntl \in CntlStates /\ auth \in {"IDLE", "WAIT_SEQ2", "WAIT_SEQ4"}
    /\ assoc \in {"ASSOC_IDLE", "ASSOC_WAIT_RSP", "DISASSOC_WAIT_RSP"}
    /\ sync \in {"SYNC_IDLE", "JOIN_WAIT_BEACON", "SCAN_LISTEN", "SCAN_PENDING"}
    /\ q \in Seq(Message) /\ Len(q) <= MaxQ
    /\ armed \subseteq Timers /\ firing \in Timers \cup {"none"}
    /\ scanTab \subseteq Bss /\ roamTab \subseteq Bss
    /\ ssidTab \in Seq(Bss) /\ bssNr \in 0 .. Len(ssidTab) /\ bssIdx \in Nat
    /\ auxBssid \in Address /\ auxAlg \in {0, 1}
    /\ chan \in 0 .. NChan /\ scanCnt \in 0 .. ImprovedMax
    /\ link \in {"none", "infra", "adhoc"} /\ bssid \in Address
    /\ {media, secured, indicated, scan2040, scanning, improvedScan,
        notFirstScan, fromNdis, configChanged, blockAssoc, autoSsid} \subseteq BOOLEAN
    /\ mode \in Modes /\ budget \in 0 .. MaxEvents
    /\ authed \subseteq Bss /\ granted \subseteq Bss

Queued(S) == \E i \in DOMAIN q : q[i].type \in S
Ticking(t) == t \in armed \/ firing = t \/ Queued({TimeoutMsg(t)})

\* What ends each waiting state of the CNTL machine: the request is still
\* queued, or the machine it went to is busy with it and its timer will end
\* that, or the confirm is queued.
CntlServed ==
    \/ cntl = "IDLE" \/ Queued({"RESET_CONF"})
    \/ /\ cntl = "WAIT_JOIN"
       /\ \/ Queued({"JOIN_REQ", "JOIN_CONF"})
          \/ sync = "JOIN_WAIT_BEACON" /\ Ticking("Beacon")
    \/ cntl = "WAIT_START" /\ Queued({"START_REQ", "START_CONF"})
    \/ /\ cntl \in {"WAIT_AUTH", "WAIT_AUTH2"}
       /\ \/ Queued({"AUTH_REQ", "AUTH_CONF"})
          \/ auth # "IDLE" /\ Ticking("Auth")
    \/ /\ cntl = "WAIT_ASSOC"
       /\ \/ Queued({"ASSOC_REQ", "ASSOC_CONF"})
          \/ assoc = "ASSOC_WAIT_RSP" /\ Ticking("Assoc")
    \/ /\ cntl \in {"WAIT_DISASSOC", "WAIT_OID_DISASSOC"}
       /\ \/ Queued({"DISASSOC_REQ", "DISASSOC_CONF"})
          \/ assoc = "DISASSOC_WAIT_RSP" /\ Ticking("Disassoc")
    \/ /\ cntl = "WAIT_OID_LIST_SCAN"
       /\ \/ Queued({"SCAN_REQ", "SCAN_CONF"})
          \/ sync = "SCAN_LISTEN" /\ Ticking("Scan")
          \/ sync = "SCAN_PENDING" /\ improvedScan

\* Every wait of the AUTH, ASSOC and SYNC machines for the air is bounded by
\* its timer.
MachinesTimed ==
    /\ auth # "IDLE" => Ticking("Auth") \/ Queued({"AUTH_CONF"})
    /\ assoc = "ASSOC_WAIT_RSP" => Ticking("Assoc")
    /\ assoc = "DISASSOC_WAIT_RSP" => Ticking("Disassoc")
    /\ sync = "JOIN_WAIT_BEACON" => Ticking("Beacon")
    /\ sync = "SCAN_LISTEN" => Ticking("Scan")

\* LinkUp takes over MlmeAux.Bssid, which other handlers may have replaced
\* since the response came: still the station links only to an access point
\* whose last answer to an association request was an acceptance.
LinkUpGranted ==
    [][link' = "infra" /\ <<link, bssid>>' # <<link, bssid>> => bssid' \in granted]_vars

\* The CNTL machine goes on to association only with an access point whose
\* last answer to an authentication request was an acceptance.
AssocAuthenticated ==
    [][cntl' = "WAIT_ASSOC" /\ cntl # "WAIT_ASSOC" => auxBssid \in authed]_vars

\* "Resume TxRing after SCANING complete" (connect.c:157): while data is held
\* back a scan is under way, its end is on the way to the CNTL machine, or
\* that machine is busy.
DataResumes ==
    scanning => \/ sync = "SCAN_LISTEN" /\ Ticking("Scan")
                \/ Queued({"SCAN_CONF", "RESET_CONF"})
                \/ cntl # "IDLE"

\* The CNTL machine, which takes new requests only when idle, comes back to
\* idle again and again.
CntlReturns == []<>(cntl = "IDLE")

\* Data held back for a scan flows again in the end.
HeldDataFlows == scanning ~> ~scanning

\* PeerDisassocAction "enqueue[s] MT2_DISASSOC_CONF to reset
\* CntlMachine.CurrState to CNTL_IDLE" (assoc.c:1544) when the access point
\* disassociates us while we are leaving: leaving ends.
LeavingEnds ==
    cntl \in {"WAIT_DISASSOC", "WAIT_OID_DISASSOC"} ~> cntl = "IDLE"
=============================================================================
