----------------------------- MODULE BfdSession -----------------------------
(***************************************************************************)
(* Two BFD endpoints (src/bfd/server/bfdSession.go) that run one session   *)
(* over a path that loses, delays and reorders packets and may fail for    *)
(* good.                                                                   *)
(*                                                                         *)
(* Each endpoint runs four goroutines on the same unlocked BfdSession:     *)
(* the dispatcher of received datagrams (Dispatch), the session server     *)
(* (ProcessPacket), the callback of sessionTimer (SessionTimeout) and the  *)
(* callback of txTimer (TxFire, TxWrite, TxDone), besides the management   *)
(* goroutine (AdminUp, AdminDown, Reset, UpdateParam).  The transmit       *)
(* callback is split where it copies the session into the packet and where *)
(* it clears the "changed" flags, because nothing stops the other          *)
(* goroutines from changing the session in between.  The other handlers    *)
(* are one step each.                                                      *)
(*                                                                         *)
(* Time is abstracted: an armed timer may fire at any moment.  Intervals   *)
(* are abstracted to "startup" (cfg = FALSE) and "configured" (TRUE).  The *)
(* four flags paramChanged, remoteParamChanged, pollChanged, stateChanged  *)
(* are only read by NeedBfdPacketUpdate as a disjunction and only cleared  *)
(* together: they are the one field "changed".  A discriminator is 0 or    *)
(* not: FALSE or TRUE.                                                     *)
(***************************************************************************)
EXTENDS Naturals, Sequences, FiniteSets

CONSTANTS
    Node,        \* the two endpoints
    Demands,     \* values DemandMode may be configured to
    Managed,     \* endpoints on which management operations are performed
    PathMayFail, \* whether behaviours in which the path fails are included
    MaxInFlight, \* bound: packets under way from one endpoint
    MaxQueue,    \* capacity of ReceivedPacketCh (PACKET_QUEUE_SIZE)
    MaxSent,     \* bound: packets an endpoint sends in a behaviour
    MaxTimeouts, \* bound: expiries of sessionTimer of an endpoint before the path fails
    MaxMgmt      \* bound: management operations and failures of the path in a behaviour

ASSUME TwoEndpoints == \E a, b \in Node : a # b /\ Node = {a, b}
ASSUME ManagedAssumption == Managed \subseteq Node
ASSUME DemandsAssumption == Demands \in SUBSET BOOLEAN
ASSUME BoundsAssumption == {MaxInFlight, MaxQueue, MaxSent, MaxTimeouts, MaxMgmt} \subseteq Nat

VARIABLES
    sess,   \* the BfdSession struct of each endpoint
    txpc,   \* where its transmit callback is
    net,    \* packets under way, by sender
    queue,  \* ReceivedPacketCh, by receiver
    cut,    \* the path has failed for good
    mgmt,   \* management operations so far
    sent,   \* packets each endpoint has sent
    expired,\* expiries of each sessionTimer while the path works
    heard   \* history: the endpoint has processed a packet of its peer

vars == <<sess, txpc, net, queue, cut, mgmt, sent, expired, heard>>

AdminDownState == "AdminDown"
DownState == "Down"
InitState == "Init"
UpState == "Up"

BfdSessionState == {AdminDownState, DownState, InitState, UpState}
BfdSessionEvent == {"REMOTE_DOWN", "REMOTE_INIT", "REMOTE_UP", "TIMEOUT",
                    "ADMIN_DOWN", "ADMIN_UP", "REMOTE_ADMIN_DOWN"}

BfdControlPacket ==
    [state : BfdSessionState, poll : BOOLEAN, final : BOOLEAN,
     demand : BOOLEAN, cfg : BOOLEAN]

BfdSessionType ==
    [state : BfdSessionState, remote : BfdSessionState, remoteDisc : BOOLEAN,
     remoteCfg : BOOLEAN, started : BOOLEAN, active : BOOLEAN,
     movedToDown : BOOLEAN, notified : BOOLEAN, changed : BOOLEAN,
     poll : BOOLEAN, final : BOOLEAN, demand : BOOLEAN, remoteDemand : BOOLEAN,
     txCfg : BOOLEAN, txTimer : BOOLEAN, sessionTimer : BOOLEAN,
     packet : BfdControlPacket]

Peer(n) == CHOOSE m \in Node : m # n

-----------------------------------------------------------------------------
(* State transitions of one session                                         *)

\* SendBfdNotification with GetBfdSessionNotification: what the registered
\* protocols were last told.
SendBfdNotification(s) ==
    [s EXCEPT !.notified = \/ s.state \in {UpState, AdminDownState}
                           \/ s.remote = AdminDownState]

LocalAdminDown(s) ==
    [SendBfdNotification([s EXCEPT !.state = AdminDownState])
        EXCEPT !.changed = TRUE, !.txCfg = FALSE,
               !.txTimer = TRUE, !.sessionTimer = FALSE]

\* The session keeps its own state: only what it knows of the peer changes.
RemoteAdminDown(s) ==
    [SendBfdNotification([s EXCEPT !.remote = AdminDownState])
        EXCEPT !.txCfg = FALSE, !.txTimer = TRUE, !.sessionTimer = FALSE]

\* Fault: the protocols are not told that the session went down.
MoveToDownStateSilent(s) ==
    [s EXCEPT !.state = DownState, !.movedToDown = TRUE, !.changed = TRUE,
              !.txCfg = FALSE, !.txTimer = TRUE, !.sessionTimer = TRUE]

MoveToDownState(s) ==
    [SendBfdNotification([s EXCEPT !.state = DownState])
        EXCEPT !.movedToDown = TRUE, !.changed = TRUE, !.txCfg = FALSE,
               !.txTimer = TRUE, !.sessionTimer = TRUE]

\* No notification here.
MoveToInitState(s) ==
    [s EXCEPT !.state = InitState, !.changed = TRUE, !.movedToDown = FALSE]

\* Fault: the protocols are not told.
MoveToUpStateSilent(s) ==
    [s EXCEPT !.state = UpState, !.changed = TRUE, !.movedToDown = FALSE]


MoveToUpState(s) ==
    [SendBfdNotification([s EXCEPT !.state = UpState])
        EXCEPT !.changed = TRUE, !.movedToDown = FALSE]

EventHandler(s, event) ==
    CASE ~s.active \/ s.state = AdminDownState -> s
      [] OTHER ->
         CASE event = "ADMIN_DOWN" -> LocalAdminDown(s)
           [] event = "REMOTE_ADMIN_DOWN" -> RemoteAdminDown(s)
           [] s.state = DownState /\ event = "REMOTE_DOWN" -> MoveToInitState(s)
           [] s.state = DownState /\ event = "REMOTE_INIT" -> MoveToUpState(s)
           [] s.state = DownState /\ event = "ADMIN_UP" -> MoveToDownState(s)
           [] s.state = InitState /\ event \in {"REMOTE_INIT", "REMOTE_UP"} -> MoveToUpState(s)
           [] s.state = InitState /\ event = "TIMEOUT" -> MoveToDownState(s)
           [] s.state = UpState /\ event \in {"REMOTE_DOWN", "TIMEOUT"} -> MoveToDownState(s)
           [] OTHER -> s

-----------------------------------------------------------------------------
(* Receiving                                                                *)

CheckAnyRemoteParamChanged(s, p) ==
    [s EXCEPT !.changed = \/ s.changed
                          \/ s.remote # p.state
                          \/ ~s.remoteDisc
                          \/ s.remoteCfg # p.cfg,
              !.remote = p.state, !.remoteDisc = TRUE, !.remoteCfg = p.cfg]

\* Fault: the wrong timer is stopped.
RemoteDemandStopsDetection(s, p) ==
    [s EXCEPT !.remoteDemand = p.demand,
              !.sessionTimer = s.sessionTimer /\ ~p.demand]


RemoteChangedDemandMode(s, p) ==
    [s EXCEPT !.remoteDemand = p.demand,
              !.txTimer = IF p.demand THEN FALSE ELSE s.txTimer \/ s.remoteDemand]

ProcessPollSequence(s, p) ==
    IF s.state = AdminDownState THEN s
    ELSE [s EXCEPT !.final = s.final \/ p.poll,
                   !.poll = s.poll /\ ~p.final,
                   !.changed = s.changed \/ p.poll \/ p.final]

\* Fault: a peer that is Down counts as a peer that has heard of us.
RemoteEventDownIsInit(p) ==
    CASE p.state \in {DownState, InitState} -> "REMOTE_INIT"
      [] p.state = UpState -> "REMOTE_UP"
      [] p.state = AdminDownState -> "REMOTE_ADMIN_DOWN"


RemoteEvent(p) ==
    CASE p.state = DownState -> "REMOTE_DOWN"
      [] p.state = InitState -> "REMOTE_INIT"
      [] p.state = UpState -> "REMOTE_UP"
      [] p.state = AdminDownState -> "REMOTE_ADMIN_DOWN"

\* RestartTx: both ends Up and txInterval still the startup one.
ProcessBfdPacket(s, p) ==
    LET s1 == ProcessPollSequence(
                 RemoteChangedDemandMode(CheckAnyRemoteParamChanged(s, p), p), p)
        RestartTx == s1.state = UpState /\ p.state = UpState /\ ~s1.txCfg
        s2 == [s1 EXCEPT !.sessionTimer = /\ s1.sessionTimer
                                          /\ AdminDownState \notin {s1.state, p.state},
                         !.txCfg = s1.txCfg \/ RestartTx,
                         !.txTimer = s1.txTimer \/ RestartTx]
    IN  EventHandler(s2, RemoteEvent(p))

\* Fault: the state of the peer is reset to a value that is no session state.
ResetRemoteToNothing(s) ==
    [s EXCEPT !.remoteDisc = FALSE, !.remote = "None", !.changed = TRUE]


ResetRemoteSessionParams(s) ==
    [s EXCEPT !.remoteDisc = FALSE, !.remote = DownState, !.changed = TRUE]

\* Fault: the timeout moves the session down whatever its state.
TimeoutAlwaysDown(s) == [MoveToDownState(s) EXCEPT !.sessionTimer = TRUE]

\* Fault: the timeout is not handed to the state machine.
TimeoutIgnored(s) == [s EXCEPT !.sessionTimer = TRUE]

\* EventHandler may stop sessionTimer, the last statement restarts it.
HandleSessionTimeout(s) ==
    LET s1 == IF s.movedToDown
              THEN [ResetRemoteSessionParams(s) EXCEPT !.movedToDown = FALSE]
              ELSE s
    IN  [EventHandler(s1, "TIMEOUT") EXCEPT !.sessionTimer = TRUE]

-----------------------------------------------------------------------------
(* Transmitting                                                             *)

InitiatePollSequence(s) == [s EXCEPT !.poll = TRUE, !.changed = s.changed \/ ~s.poll]

\* UpdateBfdSessionControlPacket up to where it clears the flags: the copy of
\* the session into bfdPacket.  The configured intervals and the demand bit are
\* only written when both ends are Up; the demand bit is never cleared otherwise.
CopyToPacket(s) ==
    LET bothUp == s.state = UpState /\ s.remote = UpState
        startPoll == bothUp /\ ~s.packet.cfg
        demand == IF bothUp THEN s.demand ELSE s.packet.demand
    IN  [s EXCEPT
            !.packet = [state |-> s.state, poll |-> s.poll \/ startPoll,
                        final |-> s.final, demand |-> demand, cfg |-> bothUp],
            !.poll = FALSE,
            !.final = FALSE,
            !.sessionTimer = CASE demand /\ ~s.packet.demand -> FALSE
                               [] s.packet.demand /\ ~demand -> TRUE
                               [] OTHER -> s.sessionTimer]

\* The rest of UpdateBfdSessionControlPacket.  bfdPacketBuf is encoded right after
\* it and only then, so it holds "packet" whenever it is sent.
ClearFlags(s) == [s EXCEPT !.changed = FALSE]

RearmTx(s) ==
    [s EXCEPT !.txTimer = TRUE, !.txCfg = s.txCfg \/ UpState \in {s.state, s.remote}]

-----------------------------------------------------------------------------
(* Management                                                               *)

StartSessionClient(s) ==
    [s EXCEPT !.active = TRUE, !.started = TRUE, !.txTimer = TRUE, !.sessionTimer = TRUE]

StartBfdSession(s) ==
    EventHandler([s EXCEPT !.sessionTimer = TRUE, !.txTimer = TRUE, !.state = DownState],
                 "ADMIN_UP")

StopBfdSession(s) == EventHandler(s, "ADMIN_DOWN")

\* ResetBfdSession with ResetLocalSessionParams: the client's deferred calls stop
\* both timers and close the connection.  A client that never became active
\* is not stopped.
ResetBfdSession(s) ==
    [s EXCEPT !.state = DownState, !.active = FALSE,
              !.txTimer = s.txTimer /\ ~s.active,
              !.sessionTimer = s.sessionTimer /\ ~s.active]

UpdateParam(s, demand) ==
    InitiatePollSequence([s EXCEPT !.demand = demand, !.changed = TRUE])

-----------------------------------------------------------------------------
(* The system                                                               *)

NewSession ==
    LET default == [state |-> DownState, poll |-> FALSE, final |-> FALSE,
                    demand |-> FALSE, cfg |-> TRUE]
    IN  [state |-> DownState, remote |-> DownState, remoteDisc |-> FALSE,
         remoteCfg |-> FALSE, started |-> FALSE, active |-> FALSE,
         movedToDown |-> FALSE, notified |-> FALSE, changed |-> TRUE,
         poll |-> FALSE, final |-> FALSE, demand |-> FALSE,
         remoteDemand |-> FALSE, txCfg |-> FALSE, txTimer |-> FALSE,
         sessionTimer |-> FALSE, packet |-> default]

Init ==
    /\ sess \in [Node -> {[NewSession EXCEPT !.demand = d] : d \in Demands}]
    /\ txpc = [n \in Node |-> "idle"]
    /\ net = [n \in Node |-> {}]
    /\ queue = [n \in Node |-> <<>>]
    /\ cut = FALSE
    /\ mgmt = 0
    /\ sent = [n \in Node |-> 0]
    /\ expired = [n \in Node |-> 0]
    /\ heard = [n \in Node |-> FALSE]

\* txConn.Write: the packet is lost, or under way if the path is not full.
Transmit(n, p) ==
    /\ sent[n] < MaxSent
    /\ sent' = [sent EXCEPT ![n] = @ + 1]
    /\ \/ net' = net
       \/ /\ sess[n].active
          /\ ~cut
          /\ Cardinality(net[n]) < MaxInFlight
          /\ net' = [net EXCEPT ![n] = @ \cup {p}]

\* SendPeriodicControlPackets, nothing changed since the last packet: the
\* encoded packet is sent again.
TxRepeat(n) ==
    /\ txpc[n] = "idle"
    /\ sess[n].txTimer
    /\ ~sess[n].changed
    /\ Transmit(n, sess[n].packet)
    /\ sess' = [sess EXCEPT ![n] = RearmTx(@)]
    /\ UNCHANGED <<txpc, queue, cut, mgmt, expired, heard>>

\* SendPeriodicControlPackets, first half of the update.
TxFire(n) ==
    /\ txpc[n] = "idle"
    /\ sess[n].txTimer
    /\ sess[n].changed
    /\ sess' = [sess EXCEPT ![n] = CopyToPacket([@ EXCEPT !.txTimer = FALSE])]
    /\ txpc' = [txpc EXCEPT ![n] = "copied"]
    /\ UNCHANGED <<net, queue, cut, mgmt, sent, expired, heard>>

\* End of the first update, the write, first half of the second update.
TxWrite(n) ==
    /\ txpc[n] = "copied"
    /\ Transmit(n, sess[n].packet)
    /\ sess' = [sess EXCEPT ![n] = CopyToPacket(ClearFlags(@))]
    /\ txpc' = [txpc EXCEPT ![n] = "recopied"]
    /\ UNCHANGED <<queue, cut, mgmt, expired, heard>>

\* End of the second update; the timer is restarted.
TxDone(n) ==
    /\ txpc[n] = "recopied"
    /\ sess' = [sess EXCEPT ![n] = RearmTx(ClearFlags(@))]
    /\ txpc' = [txpc EXCEPT ![n] = "idle"]
    /\ UNCHANGED <<net, queue, cut, mgmt, sent, expired, heard>>

\* DispatchReceivedBfdPacket: sessionTimer restarts when the packet is queued,
\* before anything looks at it.
Dispatch(n) ==
    \E p \in net[Peer(n)] :
        /\ net' = [net EXCEPT ![Peer(n)] = @ \ {p}]
        /\ \/ /\ ~sess[n].active
              /\ UNCHANGED <<sess, queue>>
           \/ /\ sess[n].active
              /\ Len(queue[n]) < MaxQueue
              /\ sess' = [sess EXCEPT ![n].sessionTimer = TRUE]
              /\ queue' = [queue EXCEPT ![n] = Append(@, p)]
        /\ UNCHANGED <<txpc, cut, mgmt, sent, expired, heard>>

\* StartSessionServer takes a packet from ReceivedPacketCh.
ProcessPacket(n) ==
    /\ queue[n] # <<>>
    /\ sess' = [sess EXCEPT ![n] = ProcessBfdPacket(@, Head(queue[n]))]
    /\ queue' = [queue EXCEPT ![n] = Tail(@)]
    /\ heard' = [heard EXCEPT ![n] = TRUE]
    /\ UNCHANGED <<txpc, net, cut, mgmt, sent, expired>>

SessionTimeout(n) ==
    /\ sess[n].sessionTimer
    /\ \/ cut /\ UNCHANGED expired
       \/ /\ ~cut
          /\ expired[n] < MaxTimeouts
          /\ expired' = [expired EXCEPT ![n] = @ + 1]
    /\ sess' = [sess EXCEPT ![n] = HandleSessionTimeout(@)]
    /\ UNCHANGED <<txpc, net, queue, cut, mgmt, sent, heard>>

ClientStarts(n) ==
    /\ ~sess[n].active
    /\ sess' = [sess EXCEPT ![n] = StartSessionClient(@)]
    /\ UNCHANGED <<txpc, net, queue, cut, mgmt, sent, expired, heard>>

Manage(n) ==
    /\ n \in Managed
    /\ mgmt < MaxMgmt /\ (cut => mgmt + 1 < MaxMgmt)
    /\ mgmt' = mgmt + 1
    /\ \/ sess[n].started /\ sess' = [sess EXCEPT ![n] = StartBfdSession(@)]
       \/ sess' = [sess EXCEPT ![n] = StopBfdSession(@)]
       \/ sess' = [sess EXCEPT ![n] = ResetBfdSession(@)]
       \/ \E d \in Demands : sess' = [sess EXCEPT ![n] = UpdateParam(@, d)]
    /\ UNCHANGED <<txpc, net, queue, cut, sent, expired, heard>>

\* The path fails and takes the packets under way with it.
PathFails ==
    /\ PathMayFail
    /\ ~cut /\ mgmt < MaxMgmt
    /\ cut' = TRUE
    /\ net' = [n \in Node |-> {}]
    /\ UNCHANGED <<sess, txpc, queue, mgmt, sent, expired, heard>>

Next ==
    \/ \E n \in Node :
        \/ TxRepeat(n) \/ TxFire(n) \/ TxWrite(n) \/ TxDone(n)
        \/ Dispatch(n) \/ ProcessPacket(n) \/ SessionTimeout(n)
        \/ ClientStarts(n) \/ Manage(n)
    \/ PathFails

\* A timer that stays armed fires.  Nothing else is assumed.
Fairness == \A n \in Node : WF_vars(SessionTimeout(n))

Spec == Init /\ [][Next]_vars
FairSpec == Spec /\ Fairness

-----------------------------------------------------------------------------
(* Properties                                                               *)

TypeOK ==
    /\ sess \in [Node -> BfdSessionType]
    /\ txpc \in [Node -> {"idle", "copied", "recopied"}]
    /\ net \in [Node -> SUBSET BfdControlPacket]
    /\ queue \in [Node -> Seq(BfdControlPacket)]
    /\ cut \in BOOLEAN
    /\ mgmt \in 0..MaxMgmt
    /\ sent \in [Node -> 0..MaxSent]
    /\ expired \in [Node -> 0..MaxTimeouts]
    /\ heard \in [Node -> BOOLEAN]

\* Three-way handshake: an endpoint is Up only if its peer has processed one of
\* its packets, so a path that works in one direction only never brings a
\* session up (MoveToUpState is reached on a peer that reports Init or Up).
UpOnlyIfPeerHeard ==
    \A n \in Node : sess[n].state = UpState => heard[Peer(n)]

\* A session that is Up, or administratively down, has told the protocols that
\* use it so: they never see "down" for a session in one of these states
\* (SendBfdNotification only publishes changes of notifiedState).
UpIsNotified ==
    \A n \in Node : sess[n].state \in {UpState, AdminDownState} => sess[n].notified

\* As long as no endpoint has been administered, the detection timer of a
\* session that is Up runs, or the session has told its peer that it uses demand
\* mode (UpdateBfdSessionControlPacket stops the timer then and restarts it when
\* demand mode ends).
DetectionArmed ==
    mgmt = 0 => \A n \in Node :
        sess[n].state = UpState => sess[n].sessionTimer \/ sess[n].packet.demand

\* Only the management goroutine takes a session out of AdminDown: no packet
\* that was queued before, and no timer that was running, revives it.
AdminDownHolds ==
    [][\A n \in Node :
        sess[n].state = AdminDownState /\ sess'[n].state # AdminDownState
            => mgmt' = mgmt + 1]_vars

\* What the protocols see of the two sessions.
Service == INSTANCE BfdService WITH
    link <- [n \in Node |-> CASE sess[n].state = UpState -> "up"
                              [] sess[n].state = AdminDownState -> "off"
                              [] OTHER -> "down"],
    told <- [n \in Node |-> sess[n].notified],
    peerOff <- [n \in Node |-> sess[n].remote = AdminDownState],
    met <- heard,
    ops <- mgmt

\* The sessions implement the service: over every interleaving of packets,
\* timers, transmit callbacks and operations, the protocols see a link come
\* up only after a handshake and in one step with the report, and every link
\* that is lost is reported, except to a peer that announced AdminDown
\* (EventHandler, SendBfdNotification).
ImplementsService == Service!ServiceSpec

\* Failure detection: when the path fails, an endpoint that is Up leaves Up
\* ("UP -- DOWN, TIMER --> DOWN" in the diagram above EventHandler), unless its
\* peer had said that it is administratively down.
FailureDetected ==
    \A n \in Node :
        (cut /\ sess[n].state = UpState /\ sess[n].remote # AdminDownState)
            ~> (sess[n].state # UpState \/ sess[n].remote = AdminDownState)

=============================================================================
