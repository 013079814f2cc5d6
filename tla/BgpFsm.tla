------------------------------- MODULE BgpFsm -------------------------------
(***************************************************************************)
(* One BGP finite state machine (src/bgp/fsm): the goroutine StartFSM, the *)
(* goroutines that dial the peer (OutTCPConn), the pair of goroutines that *)
(* read the peer connection (PeerConn.StartReading and ReadPkt), and the   *)
(* timers.                                                                 *)
(*                                                                         *)
(* StartFSM handles one event at a time.  The only place where it blocks   *)
(* inside a handler is ClearPeerConn, which waits for the reader to exit.  *)
(* A Go timer that has fired leaves its tick in a channel; Stop and Reset  *)
(* do not remove it, so a tick can be handled long after the timer was     *)
(* stopped.  Peer, network, manager and server are the environment.        *)
(***************************************************************************)
EXTENDS Naturals, Sequences, FiniteSets

CONSTANTS
    ConfigHold,   \* configured hold time
    PeerHolds,    \* hold times the peer may announce
    Kinds,        \* kinds of message the peer sends
    BfdEnabled,   \* RunningConf.BfdEnable
    Inputs,       \* what manager and server do: accept, close, command
    StartStates,  \* states in which FSMs are created
    RxCapacity,   \* capacity of pktRxCh
    ErrCapacity,  \* capacity of outConnCh and outConnErrCh
    MaxOld,       \* bound: dial attempts that were told to stop
    MaxBfd        \* bound: BFD status messages under way

\* The configured hold time is one that SetHoldTime accepts, and not 0.
ASSUME HoldAssumption == ConfigHold \in Nat \ 0..2 /\ PeerHolds \subseteq Nat
ASSUME KindAssumption ==
    Kinds \subseteq {"BGPOpen", "MsgErr", "NotifMsg", "KeepAliveMsg", "UpdateMsg"}
ASSUME InputAssumption == Inputs \subseteq {"accept", "close", "command"}
ASSUME StartAssumption == StartStates \subseteq {"Idle", "Connect", "Active"}
ASSUME BfdAssumption == BfdEnabled \in BOOLEAN
ASSUME CapacityAssumption == {RxCapacity, ErrCapacity, MaxOld, MaxBfd} \subseteq Nat

BGPFSMState == {"Idle", "Connect", "Active", "OpenSent", "OpenConfirm", "Established"}
Session == {"OpenSent", "OpenConfirm", "Established"}

Timer == {"restart", "connectRetry", "hold", "keepAlive"}

\* A packet handed to StartFSM; "current" says whether it was read from the
\* connection in use.  Reading stops after a notification and after an error.
Message == [event : Kinds \cap {"BGPOpen"}, hold : PeerHolds]
           \cup [event : Kinds \ {"BGPOpen"}, hold : {0}]
Packet == [msg : Message, current : BOOLEAN]
LastMessage(m) == m.event \in {"MsgErr", "NotifMsg"}

VARIABLES
    fsm,       \* the FSM object
    fired,     \* timers with a tick in their channel
    pc,        \* what StartFSM is doing
    reader,    \* the goroutines of the peer connection
    pktRxCh,
    outConnCh, \* number of dialled connections waiting for StartFSM
    errCh,     \* outConnErrCh: "dial", "conn" (connection in use) or "stale"
    incoming,  \* the manager is handing over an incoming connection
    closeCh,   \* the manager has told the FSM to close
    bfdDown,   \* BfdNeighborState is "down"
    useBfd,    \* UseBfdState
    bfdCh      \* bfdStatusCh

env == <<bfdDown, useBfd, bfdCh>>
vars == <<fsm, fired, pc, reader, pktRxCh, outConnCh, errCh, incoming, closeCh, env>>

FSM ==
    [state : BGPFSMState, peerConn : {"none", "in", "out"},
     outTCPConn : BOOLEAN,       \* an attempt to dial the peer is expected to report
     dialing : BOOLEAN,          \* that attempt has not reported yet
     old : 0..MaxOld,            \* attempts told to stop that may still report
     armed : SUBSET Timer,
     hold : PeerHolds \cup {ConfigHold},
     negotiated : PeerHolds \cup {ConfigHold},   \* as agreed in the last OPEN
     passive : BOOLEAN, close : BOOLEAN,
     accept : BOOLEAN,           \* acceptConn of the manager
     active : BOOLEAN]           \* the manager's activeFSM is this FSM

-----------------------------------------------------------------------------
(* Operations of the FSM object                                             *)

StartTimer(f, t) == [f EXCEPT !.armed = @ \cup {t}]
StopTimer(f, t) == [f EXCEPT !.armed = @ \ {t}]

StartHoldTimer(f) == IF f.hold # 0 THEN StartTimer(f, "hold") ELSE StopTimer(f, "hold")

\* Fault: Stop without Reset.
StartKeepAliveTimerStops(f) == StopTimer(f, "keepAlive")

StartKeepAliveTimer(f) ==
    IF f.hold # 0 THEN StartTimer(f, "keepAlive") ELSE StopTimer(f, "keepAlive")

\* An attempt that is told to stop may report before it sees the message.
StopConnToPeer(f) ==
    IF f.outTCPConn
    THEN [f EXCEPT !.outTCPConn = FALSE, !.dialing = FALSE,
                   !.old = IF f.dialing /\ @ < MaxOld THEN @ + 1 ELSE @]
    ELSE f

InitiateConnToPeer(f) ==
    IF f.outTCPConn THEN f ELSE [f EXCEPT !.outTCPConn = TRUE, !.dialing = TRUE]

\* Fault: the restart timer is not started.
EnterIdleForGood(f) ==
    [f EXCEPT !.armed = @ \ {"keepAlive", "hold"}, !.accept = FALSE]

EnterIdle(f) ==
    [f EXCEPT !.armed = (@ \ {"keepAlive", "hold"}) \cup {"restart"}, !.accept = FALSE]

\* The fields set by leaving the old state and by entering the new one.
Leave(f) ==
    IF f.state \in {"OpenConfirm", "Established"} THEN [f EXCEPT !.hold = ConfigHold] ELSE f

Enter(f, s) ==
    LET g == [f EXCEPT !.state = s]
    IN  CASE s = "Idle" -> EnterIdle(g)
          [] s = "Connect" ->
                IF BfdEnabled /\ useBfd /\ bfdDown
                THEN [g EXCEPT !.state = "Active", !.accept = TRUE]
                ELSE InitiateConnToPeer([g EXCEPT !.accept = TRUE])
          [] s = "Active" -> [g EXCEPT !.accept = TRUE]
          [] OTHER -> g

\* ConnBroken and ConnEstablished tell the manager.
ChangeState(f, s) ==
    IF f.close THEN f
    ELSE [Enter(Leave(f), s) EXCEPT !.active = (s = "Established")]

\* SetPeerConn, sendOpenMessage, SetHoldTime and StartHoldTimer.
OpenConnection(f, dir) ==
    ChangeState(StartHoldTimer([StopTimer(f, "connectRetry") EXCEPT
                                   !.peerConn = dir, !.hold = ConfigHold,
                                   !.negotiated = ConfigHold]),
                "OpenSent")

-----------------------------------------------------------------------------
(* The states.  e is the event, dir the direction of a new connection.      *)

IdleState(f, e) ==
    CASE e = "AutoStart" -> ChangeState(StartTimer(f, "connectRetry"), "Connect")
      [] e = "AutoStartPassTcpEst" -> ChangeState(StartTimer(f, "connectRetry"), "Active")
      [] OTHER -> f

ConnectState(f, e, dir) ==
    CASE e \in {"AutoStart", "AutoStartPassTcpEst"} -> f
      [] e = "ConnRetryTimerExp" ->
            InitiateConnToPeer(StartTimer(StopConnToPeer(f), "connectRetry"))
      [] e = "TcpConn" -> OpenConnection(f, dir)
      [] OTHER -> ChangeState(StopConnToPeer(StopTimer(f, "connectRetry")), "Idle")

\* ClearPeerConn returns at once: there is no connection in this state.
ActiveState(f, e, dir) ==
    CASE e \in {"AutoStart", "AutoStartPassTcpEst"} -> f
      [] e = "ConnRetryTimerExp" -> ChangeState(StartTimer(f, "connectRetry"), "Connect")
      [] e = "TcpConn" -> OpenConnection(f, dir)
      [] e = "TcpConnFails" ->
            ChangeState(StopConnToPeer(StartTimer(f, "connectRetry")), "Idle")
      [] OTHER -> ChangeState(StopConnToPeer(StopTimer(f, "connectRetry")), "Idle")

\* Fault: a malformed message is ignored once the session is established.
HarmlessErrors(s) ==
    {"AutoStart", "AutoStartPassTcpEst", "TcpConn", "BGPOpen", "KeepAliveTimerExp",
     "KeepAliveMsg", "UpdateMsg"}
    \cup (IF s = "Established" THEN {"MsgErr"} ELSE {})

\* Events that leave the session up; all others tear it down.
Harmless(s) ==
    {"AutoStart", "AutoStartPassTcpEst", "TcpConn", "BGPOpen"}
    \cup (IF s = "OpenSent" THEN {} ELSE {"KeepAliveTimerExp", "KeepAliveMsg"})
    \cup (IF s = "Established" THEN {"UpdateMsg"} ELSE {})

\* A session in which the event is harmless.  A new connection goes to the
\* manager (HandleAnotherConnection), an update to the server.
SessionState(f, e) ==
    CASE e = "KeepAliveTimerExp" -> StartKeepAliveTimer(f)
      [] e = "KeepAliveMsg" /\ f.state = "OpenConfirm" ->
            ChangeState(StartHoldTimer(f), "Established")
      [] e \in {"KeepAliveMsg", "UpdateMsg"} /\ f.state = "Established" -> StartHoldTimer(f)
      [] OTHER -> f

\* ProcessOpenMessage and what follows when the manager returns accepted;
\* SetHoldTime ignores the values 1 and 2.
ProcessOpenMessage(f, announced, accepted) ==
    LET h == IF announced < f.hold /\ announced \notin 1..2 THEN announced ELSE f.hold
        g == [StopTimer(f, "connectRetry") EXCEPT !.hold = h, !.negotiated = h]
    IN  IF accepted
        THEN ChangeState(StartHoldTimer(StartKeepAliveTimer(g)), "OpenConfirm")
        ELSE g

TearsDown(f, e) == f.state \in Session /\ e \notin Harmless(f.state)

processEvent(f, e, dir) ==
    CASE f.state = "Idle" -> IdleState(f, e)
      [] f.state = "Connect" -> ConnectState(f, e, dir)
      [] f.state = "Active" -> ActiveState(f, e, dir)
      [] OTHER -> SessionState(f, e)

\* A connection that fails before the peer's OPEN sends the FSM to Active.
ToActive(f, e) == f.state = "OpenSent" /\ e = "TcpConnFails"

\* Tearing a session down, up to the wait in ClearPeerConn ...
BeginTearDown(f, e) ==
    LET g == [f EXCEPT !.armed = @ \ {"keepAlive", "hold"}]
    IN  IF ToActive(f, e) THEN g ELSE StopTimer(g, "connectRetry")

\* Fault: peerConn is kept.
EndTearDownKeepsConn(f, toActive) == ChangeState(StopConnToPeer(f), "Idle")

\* Fault: the FSM enters Active without starting the retry timer.
EndTearDownNoRetry(f, toActive) ==
    ChangeState(StopConnToPeer([f EXCEPT !.peerConn = "none"]),
                IF toActive THEN "Active" ELSE "Idle")

\* ... and after it.
EndTearDown(f, toActive) ==
    LET g == StopConnToPeer([f EXCEPT !.peerConn = "none"])
    IN  IF toActive
        THEN ChangeState(StartTimer(g, "connectRetry"), "Active")
        ELSE ChangeState(g, "Idle")

-----------------------------------------------------------------------------
(* StartFSM                                                                 *)

AtSelect == [at |-> "select"]
Select == pc.at = "select"
NoReader == [at |-> "none"]
Reading == [at |-> "reading"]

\* What was read from the connection in use is stale from now on.
Forget ==
    /\ pktRxCh' = [i \in DOMAIN pktRxCh |-> [pktRxCh[i] EXCEPT !.current = FALSE]]
    /\ errCh' = [i \in DOMAIN errCh |-> IF errCh[i] = "conn" THEN "stale" ELSE errCh[i]]

\* Process event e on object f, and AutoStart after it if again; pkts and errs
\* are the channels from which the event was taken.
Process(f, e, dir, again, pkts, errs) ==
    IF TearsDown(f, e)
    THEN /\ fsm' = BeginTearDown(f, e)
         /\ pc' = [at |-> "clear", toActive |-> ToActive(f, e), again |-> again]
         /\ pktRxCh' = pkts /\ errCh' = errs /\ reader' = reader
    ELSE LET g == processEvent(f, e, dir)
             h == IF again THEN processEvent(g, "AutoStart", dir) ELSE g
         IN  /\ fsm' = h
             /\ pc' = IF f.close THEN [at |-> "closed"] ELSE AtSelect
             /\ reader' = IF f.peerConn = "none" /\ h.peerConn # "none" THEN Reading ELSE reader
             /\ pktRxCh' = pkts /\ errCh' = errs

\* The rest of ClearPeerConn and of the handler, once the reader has exited.
\* The reader exits when it is not sending.
FinishClear ==
    /\ pc.at = "clear"
    /\ reader.at \in {"reading", "failed"}
    /\ reader' = NoReader
    /\ Forget
    /\ LET g == EndTearDown(fsm, pc.toActive)
       IN  fsm' = IF pc.again THEN processEvent(g, "AutoStart", "none") ELSE g
    /\ pc' = IF fsm.close THEN [at |-> "closed"] ELSE AtSelect
    /\ UNCHANGED <<fired, outConnCh, incoming, closeCh, env>>

OutConn ==
    /\ Select
    /\ outConnCh > 0
    /\ outConnCh' = outConnCh - 1
    /\ IF fsm.outTCPConn
       THEN Process(StopConnToPeer(fsm), "TcpConn", "out", FALSE, pktRxCh, errCh)
       ELSE UNCHANGED <<fsm, pc, reader, pktRxCh, errCh>>
    /\ UNCHANGED <<fired, incoming, closeCh, env>>

OutConnErr ==
    /\ Select
    /\ errCh # <<>>
    /\ IF Head(errCh) = "stale"
       THEN fsm' = StopConnToPeer(fsm) /\ errCh' = Tail(errCh) /\ UNCHANGED <<pc, reader, pktRxCh>>
       ELSE Process(StopConnToPeer(fsm), "TcpConnFails", "none", FALSE, pktRxCh, Tail(errCh))
    /\ UNCHANGED <<fired, outConnCh, incoming, closeCh, env>>

InConn ==
    /\ Select
    /\ incoming
    /\ incoming' = FALSE
    /\ Process(fsm, "TcpConn", "in", FALSE, pktRxCh, errCh)
    /\ UNCHANGED <<fired, outConnCh, closeCh, env>>

Close ==
    /\ Select
    /\ closeCh
    /\ closeCh' = FALSE
    /\ Process([fsm EXCEPT !.close = TRUE], "ManualStop", "none", FALSE, pktRxCh, errCh)
    /\ UNCHANGED <<fired, outConnCh, incoming, env>>

SetPassiveTcpEstablishment ==
    /\ Select
    /\ ~fsm.passive
    /\ fsm' = [fsm EXCEPT !.passive = TRUE]
    /\ UNCHANGED <<fired, pc, reader, pktRxCh, outConnCh, errCh, incoming, closeCh, env>>

SendUpdate ==
    /\ Select
    /\ fsm.state = "Established"
    /\ fsm' = StartKeepAliveTimer(fsm)
    /\ UNCHANGED <<fired, pc, reader, pktRxCh, outConnCh, errCh, incoming, closeCh, env>>

\* When the manager finds a collision (receivedBGPOpenMessage) and closes this
\* FSM it has put a message into closeCh.
ProcessPacket ==
    /\ Select
    /\ pktRxCh # <<>>
    /\ LET m == Head(pktRxCh).msg
       IN  IF fsm.state = "OpenSent" /\ m.event = "BGPOpen"
           THEN \E accepted \in BOOLEAN :
                  /\ closeCh' = (closeCh \/ ~accepted)
                  /\ fsm' = ProcessOpenMessage(fsm, m.hold, accepted)
                  /\ pktRxCh' = Tail(pktRxCh)
                  /\ UNCHANGED <<pc, reader, errCh>>
           ELSE Process(fsm, m.event, "none", FALSE, Tail(pktRxCh), errCh) /\ UNCHANGED closeCh
    /\ UNCHANGED <<fired, outConnCh, incoming, env>>

\* A reset by the user, a prefix limit and an interface that goes down (StopFSM).
Command(e) ==
    /\ Select
    /\ "command" \in Inputs
    /\ Process(fsm, e, "none", TRUE, pktRxCh, errCh)
    /\ UNCHANGED <<fired, outConnCh, incoming, closeCh, env>>

BfdStatus ==
    /\ Select
    /\ bfdCh # <<>>
    /\ bfdCh' = Tail(bfdCh)
    /\ IF Head(bfdCh) = "down" \/ fsm.state \notin Session
       THEN Process(fsm, "AutoStop", "none", TRUE, pktRxCh, errCh)
       ELSE Process(fsm, "AutoStart", "none", FALSE, pktRxCh, errCh)
    /\ UNCHANGED <<fired, outConnCh, incoming, closeCh, bfdDown, useBfd>>

Expiry == [connectRetry |-> "ConnRetryTimerExp", hold |-> "HoldTimerExp",
           keepAlive |-> "KeepAliveTimerExp"]

TimerExpired(t) ==
    /\ Select
    /\ t \in fired
    /\ fired' = fired \ {t}
    /\ LET e == IF t # "restart" THEN Expiry[t]
                ELSE IF fsm.passive THEN "AutoStartPassTcpEst" ELSE "AutoStart"
       IN  Process(fsm, e, "none", FALSE, pktRxCh, errCh)
    /\ UNCHANGED <<outConnCh, incoming, closeCh, env>>

-----------------------------------------------------------------------------
(* Other goroutines and the environment                                     *)

Fire(t) ==
    /\ t \in fsm.armed
    /\ fsm' = StopTimer(fsm, t)
    /\ fired' = fired \cup {t}
    /\ UNCHANGED <<pc, reader, pktRxCh, outConnCh, errCh, incoming, closeCh, env>>

\* The attempt in progress, or one that was told to stop, reports.
Attempt(f) ==
    \/ fsm.dialing /\ f = [fsm EXCEPT !.dialing = FALSE]
    \/ fsm.old > 0 /\ f = [fsm EXCEPT !.old = @ - 1]

DialSucceeds ==
    /\ Attempt(fsm')
    /\ outConnCh < ErrCapacity
    /\ outConnCh' = outConnCh + 1
    /\ UNCHANGED <<fired, pc, reader, pktRxCh, errCh, incoming, closeCh, env>>

DialFails ==
    /\ Attempt(fsm')
    /\ Len(errCh) < ErrCapacity
    /\ errCh' = Append(errCh, "dial")
    /\ UNCHANGED <<fired, pc, reader, pktRxCh, outConnCh, incoming, closeCh, env>>

DialStops ==
    /\ fsm.old > 0
    /\ fsm' = [fsm EXCEPT !.old = @ - 1]
    /\ UNCHANGED <<fired, pc, reader, pktRxCh, outConnCh, errCh, incoming, closeCh, env>>

ReadPkt(m) ==
    /\ reader.at = "reading"
    /\ reader' = [at |-> "packet", msg |-> m]
    /\ UNCHANGED <<fsm, fired, pc, pktRxCh, outConnCh, errCh, incoming, closeCh, env>>

\* Fault: the channel takes any number of packets.
DeliverPktUnbounded ==
    /\ reader.at = "packet"
    /\ pktRxCh' = Append(pktRxCh, [msg |-> reader.msg, current |-> TRUE])
    /\ reader' = Reading
    /\ UNCHANGED <<fsm, fired, pc, outConnCh, errCh, incoming, closeCh, env>>

DeliverPkt ==
    /\ reader.at = "packet"
    /\ Len(pktRxCh) < RxCapacity
    /\ pktRxCh' = Append(pktRxCh, [msg |-> reader.msg, current |-> TRUE])
    /\ reader' = IF LastMessage(reader.msg) THEN [at |-> "failed"] ELSE Reading
    /\ UNCHANGED <<fsm, fired, pc, outConnCh, errCh, incoming, closeCh, env>>

ReadFails ==
    /\ reader.at = "reading"
    /\ reader' = [at |-> "error"]
    /\ UNCHANGED <<fsm, fired, pc, pktRxCh, outConnCh, errCh, incoming, closeCh, env>>

DeliverErr ==
    /\ reader.at = "error"
    /\ Len(errCh) < ErrCapacity
    /\ errCh' = Append(errCh, "conn")
    /\ reader' = [at |-> "failed"]
    /\ UNCHANGED <<fsm, fired, pc, pktRxCh, outConnCh, incoming, closeCh, env>>

\* The manager passes a connection on while it accepts connections and has none.
AcceptConn ==
    /\ "accept" \in Inputs
    /\ fsm.accept
    /\ fsm.peerConn # "in"
    /\ ~incoming
    /\ incoming' = TRUE
    /\ UNCHANGED <<fsm, fired, pc, reader, pktRxCh, outConnCh, errCh, closeCh, env>>

fsmClose ==
    /\ "close" \in Inputs
    /\ ~closeCh
    /\ ~fsm.close
    /\ closeCh' = TRUE
    /\ UNCHANGED <<fsm, fired, pc, reader, pktRxCh, outConnCh, errCh, incoming, env>>

BfdFault(down) ==
    /\ BfdEnabled
    /\ Len(bfdCh) < MaxBfd
    /\ bfdDown' = down
    /\ bfdCh' = Append(bfdCh, IF down THEN "down" ELSE "up")
    /\ UNCHANGED <<fsm, fired, pc, reader, pktRxCh, outConnCh, errCh, incoming, closeCh, useBfd>>

\* UseBfdState is set when the server has seen the session and reset when a
\* fault has lasted too long.
UseBfdState ==
    /\ BfdEnabled
    /\ \/ fsm.active /\ ~useBfd /\ useBfd' = TRUE
       \/ bfdDown /\ useBfd /\ useBfd' = FALSE
    /\ UNCHANGED <<fsm, fired, pc, reader, pktRxCh, outConnCh, errCh, incoming, closeCh, bfdDown, bfdCh>>

-----------------------------------------------------------------------------

NewFSM(s) ==
    [state |-> s, peerConn |-> "none", outTCPConn |-> FALSE, dialing |-> FALSE, old |-> 0,
     armed |-> {}, hold |-> ConfigHold, negotiated |-> ConfigHold, passive |-> FALSE,
     close |-> FALSE, accept |-> FALSE, active |-> FALSE]

\* The beginning of StartFSM: enter the first state, then AutoStart.  An FSM
\* created for a collision starts in Connect or Active and is handed a
\* connection.
Init ==
    /\ fired = {} /\ reader = NoReader /\ pktRxCh = <<>> /\ errCh = <<>>
    /\ closeCh = FALSE /\ bfdDown = FALSE /\ useBfd = FALSE /\ bfdCh = <<>>
    /\ pc = AtSelect
    /\ \E s \in StartStates :
          /\ fsm = processEvent(Enter(NewFSM(s), s), "AutoStart", "none")
          /\ outConnCh = IF s = "Connect" THEN 1 ELSE 0
          /\ incoming = (s = "Active")

StartFSM ==
    \/ OutConn \/ OutConnErr \/ InConn \/ Close \/ ProcessPacket \/ FinishClear
    \/ SetPassiveTcpEstablishment \/ BfdStatus
    \/ \E t \in Timer : TimerExpired(t)

Reader == DeliverPkt \/ DeliverErr \/ ReadFails \/ \E m \in Message : ReadPkt(m)

\* A closed FSM is not observed any more.
Next ==
    /\ pc.at # "closed"
    /\ \/ StartFSM \/ SendUpdate
       \/ \E e \in {"ManualStop", "AutoStop", "TcpConnFails"} : Command(e)
       \/ \E t \in Timer : Fire(t)
       \/ DialSucceeds \/ DialFails \/ DialStops
       \/ Reader
       \/ AcceptConn \/ fsmClose \/ UseBfdState
       \/ \E down \in BOOLEAN : BfdFault(down)

\* select picks every ready channel in the end, an armed timer fires, a dial
\* attempt reports (Connect has a timeout) and the reader delivers what it has.
Fairness ==
    /\ WF_vars(FinishClear) /\ WF_vars(DeliverPkt) /\ WF_vars(DeliverErr)
    /\ SF_vars(InConn) /\ SF_vars(OutConn) /\ SF_vars(OutConnErr)
    /\ \A t \in {"restart", "connectRetry"} : WF_vars(Fire(t)) /\ SF_vars(TimerExpired(t))

Spec == Init /\ [][Next]_vars
FairSpec == Spec /\ Fairness

-----------------------------------------------------------------------------
(* Properties                                                               *)

TypeOK ==
    /\ fsm \in FSM
    /\ fired \subseteq Timer
    /\ pc \in [at : {"select", "closed"}]
              \cup [at : {"clear"}, toActive : BOOLEAN, again : BOOLEAN]
    /\ reader \in [at : {"none", "reading", "error", "failed"}] \cup [at : {"packet"}, msg : Message]
    /\ pktRxCh \in Seq(Packet) /\ Len(pktRxCh) <= RxCapacity
    /\ outConnCh \in Nat
    /\ errCh \in Seq({"dial", "conn", "stale"}) /\ Len(errCh) <= ErrCapacity
    /\ incoming \in BOOLEAN /\ closeCh \in BOOLEAN
    /\ bfdDown \in BOOLEAN /\ useBfd \in BOOLEAN
    /\ bfdCh \in Seq({"down", "up"}) /\ Len(bfdCh) <= MaxBfd

Ticking(t) == t \in fsm.armed \cup fired

\* In every state something is bound to happen without the help of the peer or of
\* the user: a timer is running, an attempt to dial is going to report, or the
\* manager is handing over a connection.  (A hold time of 0 disables the timer.)
NeverStranded ==
    Select =>
        CASE fsm.state = "Idle" -> Ticking("restart")
          [] fsm.state = "Connect" ->
                \/ Ticking("connectRetry") \/ fsm.dialing
                \/ outConnCh > 0 \/ "dial" \in {errCh[i] : i \in DOMAIN errCh}
          [] fsm.state = "Active" -> Ticking("connectRetry") \/ incoming
          [] OTHER -> Ticking("hold") \/ fsm.negotiated = 0

\* A session that has sent its first KEEPALIVE goes on sending them.
KeepsTalking ==
    Select /\ fsm.state \in {"OpenConfirm", "Established"} =>
        Ticking("keepAlive") \/ fsm.negotiated = 0

\* A session whose reader has stopped has the reason for it still to handle: no
\* session lives on without anybody reading its connection.
NoDeafSession ==
    Select /\ fsm.state \in Session /\ reader.at = "failed" =>
        \/ \E i \in DOMAIN pktRxCh : pktRxCh[i].current /\ LastMessage(pktRxCh[i].msg)
        \/ "conn" \in {errCh[i] : i \in DOMAIN errCh}

\* A connection and its reader belong to a session, and the manager regards the
\* FSM as active exactly while it is Established.
ConnectionBelongsToSession ==
    /\ fsm.peerConn # "none" <=> fsm.state \in Session /\ pc.at # "closed"
    /\ fsm.peerConn # "none" <=> reader.at # "none"
    /\ fsm.active => fsm.state = "Established"

\* An FSM that is neither closed nor in a session, nor waiting for a reader to
\* exit, dials again and again.
AlwaysRetries == []<>(fsm.dialing \/ fsm.state \in Session \/ pc.at # "select" \/ closeCh)

\* "Conn exited" (log of ClearPeerConn): the wait for the reader ends.
ClearCompletes == (pc.at = "clear") ~> (pc.at # "clear")
=============================================================================
