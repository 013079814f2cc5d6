-------------------------- MODULE BfdSessionProofs --------------------------
(***************************************************************************)
(* Proofs about BfdSession, for any two endpoints and any bounds: the type *)
(* invariant, the three-way handshake, the notification of the protocols,  *)
(* the arming of the detection timer, the refinement of BfdService and     *)
(* what takes a session out of AdminDown.                                  *)
(***************************************************************************)
EXTENDS BfdSession, SequenceTheorems, TLAPS

States == {InitState, UpState}

USE DEF AdminDownState, DownState, InitState, UpState

\* The peer of an endpoint is the other endpoint.
LEMMA PeerFacts ==
    ASSUME NEW n \in Node
    PROVE  /\ Peer(n) \in Node
           /\ Peer(n) # n
           /\ Peer(Peer(n)) = n
           /\ \A m \in Node : m = n \/ m = Peer(n)
<1>1. PICK a \in Node, b \in Node : a # b /\ Node = {a, b}
  BY TwoEndpoints
<1>2. \E m \in Node : m # n
  BY <1>1
<1>3. Peer(n) \in Node /\ Peer(n) # n
  BY <1>2 DEF Peer
<1>4. \E m \in Node : m # Peer(n)
  BY <1>3
<1>5. Peer(Peer(n)) \in Node /\ Peer(Peer(n)) # Peer(n)
  BY <1>4 DEF Peer
<1>. QED
  BY <1>1, <1>3, <1>5

\* Writing a flag or a timer keeps the session well typed.
LEMMA SetFlagType ==
    ASSUME NEW s \in BfdSessionType, NEW b \in BOOLEAN
    PROVE  /\ [s EXCEPT !.final = b] \in BfdSessionType
           /\ [s EXCEPT !.poll = b] \in BfdSessionType
           /\ [s EXCEPT !.changed = b] \in BfdSessionType
           /\ [s EXCEPT !.sessionTimer = b] \in BfdSessionType
           /\ [s EXCEPT !.txCfg = b] \in BfdSessionType
           /\ [s EXCEPT !.txTimer = b] \in BfdSessionType
BY DEF BfdSessionType

\* A state change followed by its notification.
LEMMA NotifyFacts ==
    ASSUME NEW s \in BfdSessionType, NEW st \in BfdSessionState
    PROVE  LET q == SendBfdNotification([s EXCEPT !.state = st]) IN
           /\ q \in BfdSessionType
           /\ q.state = st /\ q.remote = s.remote /\ q.packet = s.packet
           /\ q.active = s.active /\ q.sessionTimer = s.sessionTimer
           /\ st \in {UpState, AdminDownState} => q.notified
BY DEF SendBfdNotification, BfdSessionType

\* What one event may do to a session: the state machine of EventHandler.
LEMMA EventHandlerFacts ==
    ASSUME NEW s \in BfdSessionType, NEW e \in BfdSessionEvent
    PROVE  LET r == EventHandler(s, e) IN
           /\ r \in BfdSessionType
           /\ r.packet = s.packet /\ r.active = s.active
           /\ r.state \in States => s.state \in States \/ e \in {"REMOTE_DOWN", "REMOTE_INIT"}
           /\ r.state = UpState => s.state = UpState \/ e \in {"REMOTE_INIT", "REMOTE_UP"}
           /\ r.remote \in {s.remote, AdminDownState}
           /\ r.remote # s.remote => e = "REMOTE_ADMIN_DOWN"
           /\ (s.state \in {UpState, AdminDownState} => s.notified)
                => (r.state \in {UpState, AdminDownState} => r.notified)
           /\ r.state = UpState => s.state = UpState \/ s.active
           /\ r.state = AdminDownState => s.state = AdminDownState \/ e = "ADMIN_DOWN"
           /\ e \notin {"ADMIN_DOWN", "REMOTE_ADMIN_DOWN"} => r.sessionTimer \in {TRUE, s.sessionTimer}
<1>. DEFINE r == EventHandler(s, e)
<1>1. \/ r = s
      \/ e = "ADMIN_DOWN" /\ s.active /\ r = LocalAdminDown(s)
      \/ e = "REMOTE_ADMIN_DOWN" /\ s.active /\ r = RemoteAdminDown(s)
      \/ s.state = DownState /\ e = "REMOTE_DOWN" /\ s.active /\ r = MoveToInitState(s)
      \/ s.state # UpState /\ e \in {"REMOTE_INIT", "REMOTE_UP"} /\ s.active
            /\ (s.state = DownState => e = "REMOTE_INIT") /\ s.state # AdminDownState
            /\ r = MoveToUpState(s)
      \/ s.active /\ r = MoveToDownState(s)
  BY DEF EventHandler, BfdSessionType, BfdSessionState
<1>2. CASE r = s
  BY <1>2
<1>3. CASE e = "ADMIN_DOWN" /\ r = LocalAdminDown(s)
  <2>. DEFINE q == SendBfdNotification([s EXCEPT !.state = AdminDownState])
  <2>1. /\ q \in BfdSessionType
        /\ q.state = AdminDownState /\ q.remote = s.remote /\ q.packet = s.packet
        /\ q.active = s.active
        /\ AdminDownState \in {UpState, AdminDownState} => q.notified
    BY NotifyFacts DEF BfdSessionState
  <2>2. r = [q EXCEPT !.changed = TRUE, !.txCfg = FALSE, !.txTimer = TRUE, !.sessionTimer = FALSE]
    BY <1>3 DEF LocalAdminDown
  <2>. HIDE DEF q, r
  <2>3. r \in BfdSessionType
    BY <2>1, <2>2 DEF BfdSessionType
  <2>4. /\ r.state = q.state /\ r.remote = q.remote /\ r.packet = q.packet
        /\ r.active = q.active /\ r.notified = q.notified
        /\ r.sessionTimer = FALSE
    BY <2>1, <2>2 DEF BfdSessionType
  <2>. QED
    BY <1>3, <2>1, <2>3, <2>4 DEF r, States
<1>4. CASE e = "REMOTE_ADMIN_DOWN" /\ r = RemoteAdminDown(s)
  BY <1>4 DEF RemoteAdminDown, SendBfdNotification, BfdSessionType, BfdSessionState, States
<1>5. CASE e = "REMOTE_DOWN" /\ r = MoveToInitState(s)
  BY <1>5 DEF MoveToInitState, BfdSessionType, BfdSessionState, States
<1>6. CASE s.state # UpState /\ e \in {"REMOTE_INIT", "REMOTE_UP"} /\ s.active
            /\ (s.state = DownState => e = "REMOTE_INIT") /\ s.state # AdminDownState
            /\ r = MoveToUpState(s)
  BY <1>6 DEF MoveToUpState, SendBfdNotification, BfdSessionType, BfdSessionState, States
<1>7. CASE r = MoveToDownState(s)
  <2>. DEFINE q == SendBfdNotification([s EXCEPT !.state = DownState])
  <2>1. /\ q \in BfdSessionType
        /\ q.state = DownState /\ q.remote = s.remote /\ q.packet = s.packet
        /\ q.active = s.active
        /\ DownState \in {UpState, AdminDownState} => q.notified
    BY NotifyFacts DEF BfdSessionState
  <2>2. r = [q EXCEPT !.movedToDown = TRUE, !.changed = TRUE, !.txCfg = FALSE,
                        !.txTimer = TRUE, !.sessionTimer = TRUE]
    BY <1>7 DEF MoveToDownState
  <2>. HIDE DEF q, r
  <2>3. r \in BfdSessionType
    BY <2>1, <2>2 DEF BfdSessionType
  <2>4. /\ r.state = q.state /\ r.remote = q.remote /\ r.packet = q.packet
        /\ r.active = q.active /\ r.notified = q.notified
        /\ r.sessionTimer = TRUE
    BY <2>1, <2>2 DEF BfdSessionType
  <2>. QED
    BY <1>7, <2>1, <2>3, <2>4 DEF r, States
<1>. QED
  BY <1>1, <1>2, <1>3, <1>4, <1>5, <1>6, <1>7

\* Before a packet reaches EventHandler only what the session knows of its peer
\* changes, and the detection timer stops if one of the two is AdminDown.
LEMMA PacketPrelude ==
    ASSUME NEW s \in BfdSessionType, NEW p \in BfdControlPacket
    PROVE  \E q \in BfdSessionType :
           /\ ProcessBfdPacket(s, p) = EventHandler(q, RemoteEvent(p))
           /\ q.state = s.state /\ q.remote = p.state /\ q.packet = s.packet
           /\ q.active = s.active /\ q.notified = s.notified
           /\ s.state # AdminDownState /\ p.state # AdminDownState
                => q.sessionTimer = s.sessionTimer
<1>. DEFINE s0 == CheckAnyRemoteParamChanged(s, p)
            s00 == RemoteChangedDemandMode(s0, p)
            s1 == ProcessPollSequence(s00, p)
            RestartTx == s1.state = UpState /\ p.state = UpState /\ ~s1.txCfg
            s2 == [s1 EXCEPT !.sessionTimer = /\ s1.sessionTimer
                                              /\ AdminDownState \notin {s1.state, p.state},
                             !.txCfg = s1.txCfg \/ RestartTx,
                             !.txTimer = s1.txTimer \/ RestartTx]
<1>1. /\ s0 \in BfdSessionType
      /\ s0.state = s.state /\ s0.remote = p.state /\ s0.packet = s.packet
      /\ s0.active = s.active /\ s0.notified = s.notified
      /\ s0.sessionTimer = s.sessionTimer
  <2>. DEFINE c == \/ s.changed \/ s.remote # p.state \/ ~s.remoteDisc \/ s.remoteCfg # p.cfg
  <2>1. s0 = [s EXCEPT !.changed = c, !.remote = p.state, !.remoteDisc = TRUE, !.remoteCfg = p.cfg]
    BY DEF CheckAnyRemoteParamChanged
  <2>2. c \in BOOLEAN
    OBVIOUS
  <2>. HIDE DEF c, s0
  <2>. QED
    BY <2>1, <2>2 DEF BfdSessionType, BfdControlPacket
<1>. HIDE DEF s0
<1>2. /\ s00 \in BfdSessionType
      /\ s00.state = s.state /\ s00.remote = p.state /\ s00.packet = s.packet
      /\ s00.active = s.active /\ s00.notified = s.notified
      /\ s00.sessionTimer = s.sessionTimer
  BY <1>1 DEF RemoteChangedDemandMode, BfdSessionType, BfdControlPacket
<1>. HIDE DEF s00
<1>3. /\ s1 \in BfdSessionType
      /\ s1.state = s.state /\ s1.remote = p.state /\ s1.packet = s.packet
      /\ s1.active = s.active /\ s1.notified = s.notified
      /\ s1.sessionTimer = s.sessionTimer
  <2>. DEFINE f == s00.final \/ p.poll
              q == s00.poll /\ ~p.final
              c == s00.changed \/ p.poll \/ p.final
  <2>1. s1 = IF s00.state = AdminDownState THEN s00
             ELSE [s00 EXCEPT !.final = f, !.poll = q, !.changed = c]
    BY DEF ProcessPollSequence
  <2>2. f \in BOOLEAN /\ q \in BOOLEAN /\ c \in BOOLEAN
    OBVIOUS
  <2>. HIDE DEF f, q, c, s1
  <2>3. CASE s00.state = AdminDownState
    BY <1>2, <2>1, <2>3
  <2>4. CASE s00.state # AdminDownState
    <3>1. s1 = [s00 EXCEPT !.final = f, !.poll = q, !.changed = c]
      BY <2>1, <2>4
    <3>2. s00 \in BfdSessionType
      BY <1>2
    <3>. HIDE DEF s00
    <3>3. s1 \in BfdSessionType
      <4>1. [s00 EXCEPT !.final = f] \in BfdSessionType
        BY <2>2, <3>2, SetFlagType
      <4>2. [s00 EXCEPT !.final = f, !.poll = q] \in BfdSessionType
        BY <2>2, <4>1, SetFlagType
      <4>. QED
        BY <2>2, <3>1, <4>2, SetFlagType
    <3>4. /\ s1.state = s00.state /\ s1.remote = s00.remote /\ s1.packet = s00.packet
          /\ s1.active = s00.active /\ s1.notified = s00.notified
          /\ s1.sessionTimer = s00.sessionTimer
      BY <3>1, <3>2 DEF BfdSessionType
    <3>. QED
      BY <1>2, <3>3, <3>4
  <2>. QED
    BY <2>3, <2>4
<1>. HIDE DEF s1
<1>4. /\ s2 \in BfdSessionType
      /\ s2.state = s.state /\ s2.remote = p.state /\ s2.packet = s.packet
      /\ s2.active = s.active /\ s2.notified = s.notified
      /\ s.state # AdminDownState /\ p.state # AdminDownState
            => s2.sessionTimer = s.sessionTimer
  <2>. DEFINE d == s1.sessionTimer /\ AdminDownState \notin {s1.state, p.state}
              c == s1.txCfg \/ RestartTx
              x == s1.txTimer \/ RestartTx
  <2>1. s2 = [s1 EXCEPT !.sessionTimer = d, !.txCfg = c, !.txTimer = x]
    OBVIOUS
  <2>2. d \in BOOLEAN /\ c \in BOOLEAN /\ x \in BOOLEAN
    OBVIOUS
  <2>3. s.state # AdminDownState /\ p.state # AdminDownState => d = s.sessionTimer
    BY <1>3 DEF BfdSessionType
  <2>. HIDE DEF d, c, x, s2
  <2>5. s1 \in BfdSessionType
    BY <1>3
  <2>6. s2 \in BfdSessionType
    <3>1. [s1 EXCEPT !.sessionTimer = d] \in BfdSessionType
      BY <2>2, <2>5, SetFlagType
    <3>2. [s1 EXCEPT !.sessionTimer = d, !.txCfg = c] \in BfdSessionType
      BY <2>2, <3>1, SetFlagType
    <3>. QED
      BY <2>1, <2>2, <3>2, SetFlagType
  <2>4. /\ s2.state = s1.state /\ s2.remote = s1.remote /\ s2.packet = s1.packet
        /\ s2.active = s1.active /\ s2.notified = s1.notified /\ s2.sessionTimer = d
    BY <2>1, <2>5 DEF BfdSessionType
  <2>. QED
    BY <1>3, <2>3, <2>4, <2>6
<1>5. ProcessBfdPacket(s, p) = EventHandler(s2, RemoteEvent(p))
  BY DEF ProcessBfdPacket, s1, s0, s00
<1>. HIDE DEF s2
<1>. QED
  BY <1>4, <1>5

\* The event that the state of the peer stands for.
LEMMA RemoteEventFacts ==
    ASSUME NEW p \in BfdControlPacket
    PROVE  /\ RemoteEvent(p) \in BfdSessionEvent \ {"ADMIN_DOWN", "ADMIN_UP", "TIMEOUT"}
           /\ RemoteEvent(p) \in {"REMOTE_INIT", "REMOTE_UP"} <=> p.state \in States
           /\ RemoteEvent(p) = "REMOTE_ADMIN_DOWN" <=> p.state = AdminDownState
BY DEF RemoteEvent, BfdSessionEvent, BfdControlPacket, BfdSessionState, States

\* What processing one packet may do to a session.
LEMMA ProcessBfdPacketFacts ==
    ASSUME NEW s \in BfdSessionType, NEW p \in BfdControlPacket
    PROVE  LET r == ProcessBfdPacket(s, p) IN
           /\ r \in BfdSessionType
           /\ r.packet = s.packet /\ r.active = s.active
           /\ r.state = UpState => s.state = UpState \/ p.state \in States
           /\ r.remote = p.state
           /\ (s.state \in {UpState, AdminDownState} => s.notified)
                => (r.state \in {UpState, AdminDownState} => r.notified)
           /\ r.state = UpState => s.state = UpState \/ s.active
           /\ r.state = AdminDownState => s.state = AdminDownState
           /\ s.state # AdminDownState /\ p.state # AdminDownState
                => r.sessionTimer \in {TRUE, s.sessionTimer}
<1>1. PICK s2 \in BfdSessionType :
        /\ ProcessBfdPacket(s, p) = EventHandler(s2, RemoteEvent(p))
        /\ s2.state = s.state /\ s2.remote = p.state /\ s2.packet = s.packet
        /\ s2.active = s.active /\ s2.notified = s.notified
        /\ s.state # AdminDownState /\ p.state # AdminDownState
             => s2.sessionTimer = s.sessionTimer
  BY PacketPrelude
<1>. QED
  <2>. DEFINE e == RemoteEvent(p)
              r == EventHandler(s2, e)
  <2>1. /\ r \in BfdSessionType
        /\ r.packet = s2.packet /\ r.active = s2.active
        /\ r.state = UpState => s2.state = UpState \/ e \in {"REMOTE_INIT", "REMOTE_UP"}
        /\ r.remote \in {s2.remote, AdminDownState}
        /\ r.remote # s2.remote => e = "REMOTE_ADMIN_DOWN"
        /\ (s2.state \in {UpState, AdminDownState} => s2.notified)
              => (r.state \in {UpState, AdminDownState} => r.notified)
        /\ r.state = UpState => s2.state = UpState \/ s2.active
        /\ r.state = AdminDownState => s2.state = AdminDownState \/ e = "ADMIN_DOWN"
        /\ e \notin {"ADMIN_DOWN", "REMOTE_ADMIN_DOWN"} => r.sessionTimer \in {TRUE, s2.sessionTimer}
    BY RemoteEventFacts, EventHandlerFacts
  <2>. HIDE DEF e, r
  <2>2. /\ e \in {"REMOTE_INIT", "REMOTE_UP"} <=> p.state \in States
        /\ e = "REMOTE_ADMIN_DOWN" <=> p.state = AdminDownState
        /\ e # "ADMIN_DOWN"
    BY RemoteEventFacts DEF e
  <2>3. ProcessBfdPacket(s, p) = r
    BY <1>1 DEF r, e
  <2>. QED
    BY <1>1, <2>1, <2>2, <2>3

\* The detection timer expires.
LEMMA HandleSessionTimeoutFacts ==
    ASSUME NEW s \in BfdSessionType
    PROVE  LET r == HandleSessionTimeout(s) IN
           /\ r \in BfdSessionType
           /\ r.packet = s.packet /\ r.active = s.active
           /\ r.state \in States => s.state \in States
           /\ r.state = UpState => s.state = UpState
           /\ r.remote \in {s.remote, DownState}
           /\ (s.state \in {UpState, AdminDownState} => s.notified)
                => (r.state \in {UpState, AdminDownState} => r.notified)
           /\ r.state = AdminDownState => s.state = AdminDownState
           /\ r.sessionTimer
<1>. DEFINE s1 == IF s.movedToDown
                  THEN [ResetRemoteSessionParams(s) EXCEPT !.movedToDown = FALSE]
                  ELSE s
            t == EventHandler(s1, "TIMEOUT")
<1>1. /\ s1 \in BfdSessionType
      /\ s1.state = s.state /\ s1.remote \in {s.remote, DownState}
      /\ s1.packet = s.packet /\ s1.active = s.active /\ s1.notified = s.notified
  <2>1. CASE s.movedToDown
    <3>1. s1 = [[s EXCEPT !.remoteDisc = FALSE, !.remote = DownState, !.changed = TRUE]
                  EXCEPT !.movedToDown = FALSE]
      BY <2>1 DEF ResetRemoteSessionParams
    <3>. HIDE DEF s1
    <3>. QED
      BY <3>1 DEF BfdSessionType, BfdSessionState
  <2>2. CASE ~s.movedToDown
    BY <2>2
  <2>. QED
    BY <2>1, <2>2
<1>. HIDE DEF s1
<1>2. /\ t \in BfdSessionType
      /\ t.packet = s1.packet /\ t.active = s1.active
      /\ t.state \in States => s1.state \in States
      /\ t.state = UpState => s1.state = UpState
      /\ t.remote = s1.remote
      /\ (s1.state \in {UpState, AdminDownState} => s1.notified)
            => (t.state \in {UpState, AdminDownState} => t.notified)
      /\ t.state = AdminDownState => s1.state = AdminDownState
  BY <1>1, EventHandlerFacts, "TIMEOUT" \in BfdSessionEvent DEF BfdSessionEvent
<1>. HIDE DEF t
<1>3. HandleSessionTimeout(s) = [t EXCEPT !.sessionTimer = TRUE]
  BY DEF HandleSessionTimeout, t, s1
<1>4. LET r == HandleSessionTimeout(s) IN
      /\ r \in BfdSessionType
      /\ r.packet = t.packet /\ r.active = t.active /\ r.state = t.state
      /\ r.remote = t.remote /\ r.notified = t.notified /\ r.sessionTimer
  BY <1>2, <1>3 DEF BfdSessionType
<1>. QED
  BY <1>1, <1>2, <1>4

\* The transmit callback: the packet carries the state it was copied from.
LEMMA TransmitFacts ==
    ASSUME NEW s \in BfdSessionType
    PROVE  /\ CopyToPacket(s) \in BfdSessionType
           /\ CopyToPacket(s).packet.state = s.state
           /\ \A f \in {"state", "remote", "active", "notified"} : CopyToPacket(s)[f] = s[f]
           /\ s.sessionTimer \/ s.packet.demand
                => CopyToPacket(s).sessionTimer \/ CopyToPacket(s).packet.demand
           /\ ClearFlags(s) \in BfdSessionType
           /\ \A f \in {"state", "remote", "active", "notified", "packet", "sessionTimer"} :
                ClearFlags(s)[f] = s[f]
           /\ RearmTx(s) \in BfdSessionType
           /\ \A f \in {"state", "remote", "active", "notified", "packet", "sessionTimer"} :
                RearmTx(s)[f] = s[f]
           /\ [s EXCEPT !.txTimer = FALSE] \in BfdSessionType
           /\ \A f \in {"state", "remote", "active", "notified", "packet", "sessionTimer"} :
                [s EXCEPT !.txTimer = FALSE][f] = s[f]
<1>1. /\ CopyToPacket(s) \in BfdSessionType
      /\ CopyToPacket(s).packet.state = s.state
      /\ \A f \in {"state", "remote", "active", "notified"} : CopyToPacket(s)[f] = s[f]
      /\ s.sessionTimer \/ s.packet.demand
           => CopyToPacket(s).sessionTimer \/ CopyToPacket(s).packet.demand
  <2>. DEFINE bothUp == s.state = UpState /\ s.remote = UpState
              poll == s.poll \/ (bothUp /\ ~s.packet.cfg)
              demand == IF bothUp THEN s.demand ELSE s.packet.demand
              pkt == [state |-> s.state, poll |-> poll,
                      final |-> s.final, demand |-> demand, cfg |-> bothUp]
              tm == CASE demand /\ ~s.packet.demand -> FALSE
                      [] s.packet.demand /\ ~demand -> TRUE
                      [] OTHER -> s.sessionTimer
  <2>1. CopyToPacket(s) = [s EXCEPT !.packet = pkt, !.poll = FALSE, !.final = FALSE,
                                    !.sessionTimer = tm]
    BY DEF CopyToPacket
  <2>2. poll \in BOOLEAN /\ bothUp \in BOOLEAN
    OBVIOUS
  <2>3. demand \in BOOLEAN /\ s.packet.demand \in BOOLEAN /\ s.sessionTimer \in BOOLEAN
    BY DEF BfdSessionType, BfdControlPacket
  <2>. HIDE DEF poll, demand, bothUp
  <2>4. pkt \in BfdControlPacket /\ pkt.state = s.state /\ pkt.demand = demand
    BY <2>2, <2>3 DEF BfdSessionType, BfdControlPacket
  <2>5. tm \in BOOLEAN /\ (s.sessionTimer \/ s.packet.demand => tm \/ demand)
    BY <2>3
  <2>. HIDE DEF pkt, tm
  <2>. QED
    BY <2>1, <2>4, <2>5 DEF BfdSessionType
<1>2. /\ ClearFlags(s) \in BfdSessionType
      /\ \A f \in {"state", "remote", "active", "notified", "packet", "sessionTimer"} :
            ClearFlags(s)[f] = s[f]
  BY DEF ClearFlags, BfdSessionType
<1>3. /\ RearmTx(s) \in BfdSessionType
      /\ \A f \in {"state", "remote", "active", "notified", "packet", "sessionTimer"} :
            RearmTx(s)[f] = s[f]
  <2>. DEFINE c == s.txCfg \/ UpState \in {s.state, s.remote}
  <2>1. RearmTx(s) = [s EXCEPT !.txTimer = TRUE, !.txCfg = c]
    BY DEF RearmTx
  <2>2. c \in BOOLEAN
    OBVIOUS
  <2>. HIDE DEF c
  <2>. QED
    BY <2>1, <2>2 DEF BfdSessionType
<1>4. /\ [s EXCEPT !.txTimer = FALSE] \in BfdSessionType
      /\ \A f \in {"state", "remote", "active", "notified", "packet", "sessionTimer"} :
            [s EXCEPT !.txTimer = FALSE][f] = s[f]
  BY DEF BfdSessionType
<1>. QED
  BY <1>1, <1>2, <1>3, <1>4

\* The operations of the management goroutine and the start of the client.
LEMMA ManagementFacts ==
    ASSUME NEW s \in BfdSessionType,
           s.state \in {UpState, AdminDownState} => s.notified,
           NEW r \in {StartBfdSession(s), StopBfdSession(s), ResetBfdSession(s)}
                        \cup {UpdateParam(s, d) : d \in BOOLEAN}
    PROVE  /\ r \in BfdSessionType
           /\ r.packet = s.packet
           /\ r.state \in States => s.state \in States
           /\ r.state = UpState => s.state = UpState
           /\ r.state \in {UpState, AdminDownState} => r.notified
<1>1. CASE r = StartBfdSession(s)
  <2>. DEFINE s1 == [s EXCEPT !.sessionTimer = TRUE, !.txTimer = TRUE, !.state = DownState]
  <2>1. s1 \in BfdSessionType /\ s1.state = DownState /\ s1.packet = s.packet
    BY DEF BfdSessionType, BfdSessionState
  <2>2. r = EventHandler(s1, "ADMIN_UP") /\ "ADMIN_UP" \in BfdSessionEvent
    BY <1>1 DEF StartBfdSession, BfdSessionEvent
  <2>. HIDE DEF s1
  <2>. DEFINE t == EventHandler(s1, "ADMIN_UP")
  <2>3. /\ t \in BfdSessionType
        /\ t.packet = s1.packet
        /\ t.state \in States => s1.state \in States
        /\ t.state = UpState => s1.state = UpState
        /\ (s1.state \in {UpState, AdminDownState} => s1.notified)
              => (t.state \in {UpState, AdminDownState} => t.notified)
    BY <2>1, "ADMIN_UP" \in BfdSessionEvent, EventHandlerFacts DEF BfdSessionEvent
  <2>. HIDE DEF t
  <2>4. r = t
    BY <2>2 DEF t
  <2>. QED
    BY <2>1, <2>3, <2>4 DEF States
<1>2. CASE r = StopBfdSession(s)
  <2>1. r = EventHandler(s, "ADMIN_DOWN") /\ "ADMIN_DOWN" \in BfdSessionEvent
    BY <1>2 DEF StopBfdSession, BfdSessionEvent
  <2>. DEFINE t == EventHandler(s, "ADMIN_DOWN")
  <2>2. /\ t \in BfdSessionType
        /\ t.packet = s.packet
        /\ t.state \in States => s.state \in States
        /\ t.state = UpState => s.state = UpState
        /\ (s.state \in {UpState, AdminDownState} => s.notified)
              => (t.state \in {UpState, AdminDownState} => t.notified)
    BY "ADMIN_DOWN" \in BfdSessionEvent, EventHandlerFacts DEF BfdSessionEvent
  <2>. HIDE DEF t
  <2>3. r = t
    BY <2>1 DEF t
  <2>. QED
    BY <2>2, <2>3
<1>3. CASE r = ResetBfdSession(s)
  <2>. DEFINE x == s.txTimer /\ ~s.active
              d == s.sessionTimer /\ ~s.active
  <2>1. r = [s EXCEPT !.state = DownState, !.active = FALSE, !.txTimer = x, !.sessionTimer = d]
    BY <1>3 DEF ResetBfdSession
  <2>2. x \in BOOLEAN /\ d \in BOOLEAN
    OBVIOUS
  <2>. HIDE DEF x, d
  <2>3. [s EXCEPT !.state = DownState, !.active = FALSE] \in BfdSessionType
    BY DEF BfdSessionType, BfdSessionState
  <2>4. [s EXCEPT !.state = DownState, !.active = FALSE, !.txTimer = x] \in BfdSessionType
    BY <2>2, <2>3, SetFlagType
  <2>5. r \in BfdSessionType
    BY <2>1, <2>2, <2>4, SetFlagType
  <2>6. r.packet = s.packet /\ r.state = DownState
    BY <2>1 DEF BfdSessionType
  <2>. QED
    BY <2>5, <2>6 DEF States
<1>4. CASE \E d \in BOOLEAN : r = UpdateParam(s, d)
  <2>1. PICK d \in BOOLEAN : r = UpdateParam(s, d)
    BY <1>4
  <2>. DEFINE s1 == [s EXCEPT !.demand = d, !.changed = TRUE]
              c == s1.changed \/ ~s1.poll
  <2>2. s1 \in BfdSessionType /\ s1.packet = s.packet /\ s1.state = s.state
           /\ s1.notified = s.notified
    BY DEF BfdSessionType
  <2>3. r = [s1 EXCEPT !.poll = TRUE, !.changed = c]
    BY <2>1 DEF UpdateParam, InitiatePollSequence
  <2>4. c \in BOOLEAN
    OBVIOUS
  <2>. HIDE DEF s1, c
  <2>5. r \in BfdSessionType
    <3>1. [s1 EXCEPT !.poll = TRUE] \in BfdSessionType
      BY <2>2, SetFlagType
    <3>. QED
      BY <2>3, <2>4, <3>1, SetFlagType
  <2>6. r.packet = s1.packet /\ r.state = s1.state /\ r.notified = s1.notified
    BY <2>2, <2>3 DEF BfdSessionType
  <2>. QED
    BY <2>2, <2>5, <2>6
<1>. QED
  BY <1>1, <1>2, <1>3, <1>4

-----------------------------------------------------------------------------
(* The inductive invariant                                                  *)

\* Knowledge of the peer travels with the packets: whoever is in, or has under
\* way, a state beyond Down has heard of its peer.
Handshake ==
    \A n \in Node :
        /\ sess[n].state \in States => heard[n]
        /\ sess[n].state = UpState => heard[Peer(n)]
        /\ sess[n].packet.state \in States => heard[n]
        /\ \A p \in net[n] : p.state \in States => heard[n]
        /\ \A i \in 1..Len(queue[n]) : queue[n][i].state \in States => heard[Peer(n)]

\* Before the first management operation nothing is administratively down, and
\* the client of a session keeps its detection timer running.
Undisturbed ==
    mgmt = 0 => \A n \in Node :
        /\ sess[n].state # AdminDownState
        /\ sess[n].packet.state # AdminDownState
        /\ \A p \in net[n] : p.state # AdminDownState
        /\ \A i \in 1..Len(queue[n]) : queue[n][i].state # AdminDownState
        /\ sess[n].state = UpState => sess[n].active
        /\ sess[n].active => sess[n].sessionTimer \/ sess[n].packet.demand

IInv == TypeOK /\ Handshake /\ UpIsNotified /\ Undisturbed

NetHeard(N, h) == \A m \in Node : \A p \in N[m] : p.state \in States => h[m]
QueueHeard(Q, h) ==
    \A m \in Node : \A i \in 1..Len(Q[m]) : Q[m][i].state \in States => h[Peer(m)]
NetUndisturbed(N) == \A m \in Node : \A p \in N[m] : p.state # AdminDownState
QueueUndisturbed(Q) ==
    \A m \in Node : \A i \in 1..Len(Q[m]) : Q[m][i].state # AdminDownState

\* One endpoint's session becomes r: what r must satisfy for the invariant.
LEMMA SessionStep ==
    ASSUME IInv, NEW n \in Node, NEW r \in BfdSessionType,
           sess' = [sess EXCEPT ![n] = r],
           heard' \in [Node -> BOOLEAN],
           \A m \in Node : heard[m] => heard'[m],
           r.state \in States => heard'[n],
           r.state = UpState => heard'[Peer(n)],
           r.packet.state \in States => heard'[n],
           r.state \in {UpState, AdminDownState} => r.notified,
           NetHeard(net', heard'),
           QueueHeard(queue', heard'),
           mgmt' = 0 => /\ mgmt = 0
                        /\ r.state # AdminDownState
                        /\ r.packet.state # AdminDownState
                        /\ r.state = UpState => r.active
                        /\ r.active => r.sessionTimer \/ r.packet.demand
                        /\ NetUndisturbed(net')
                        /\ QueueUndisturbed(queue')
    PROVE  /\ sess' \in [Node -> BfdSessionType]
           /\ Handshake' /\ UpIsNotified' /\ Undisturbed'
<1>1. /\ sess' \in [Node -> BfdSessionType]
      /\ sess'[n] = r
      /\ \A m \in Node : m # n => sess'[m] = sess[m]
  BY DEF IInv, TypeOK
<1>2. \A m \in Node : Peer(m) \in Node
  BY PeerFacts
<1>3. Handshake'
  <2>. SUFFICES ASSUME NEW m \in Node
                PROVE  /\ sess'[m].state \in States => heard'[m]
                       /\ sess'[m].state = UpState => heard'[Peer(m)]
                       /\ sess'[m].packet.state \in States => heard'[m]
    BY DEF Handshake, NetHeard, QueueHeard
  <2>1. CASE m = n
    BY <1>1, <2>1
  <2>2. CASE m # n
    BY <1>1, <1>2, <2>2 DEF IInv, Handshake
  <2>. QED
    BY <2>1, <2>2
<1>4. UpIsNotified'
  BY <1>1 DEF IInv, UpIsNotified
<1>5. Undisturbed'
  BY <1>1 DEF IInv, Undisturbed, NetUndisturbed, QueueUndisturbed
<1>. QED
  BY <1>1, <1>3, <1>4, <1>5

\* The invariant in the form the steps use.
LEMMA InvariantFacts ==
    ASSUME IInv, NEW n \in Node
    PROVE  /\ sess[n] \in BfdSessionType
           /\ sess[n].state \in States => heard[n]
           /\ sess[n].state = UpState => heard[Peer(n)]
           /\ sess[n].packet.state \in States => heard[n]
           /\ sess[n].state \in {UpState, AdminDownState} => sess[n].notified
           /\ NetHeard(net, heard) /\ QueueHeard(queue, heard)
           /\ mgmt = 0 => /\ sess[n].state # AdminDownState
                          /\ sess[n].packet.state # AdminDownState
                          /\ sess[n].state = UpState => sess[n].active
                          /\ sess[n].active => sess[n].sessionTimer \/ sess[n].packet.demand
                          /\ NetUndisturbed(net)
                          /\ QueueUndisturbed(queue)
           /\ heard \in [Node -> BOOLEAN]
BY DEF IInv, TypeOK, Handshake, UpIsNotified, Undisturbed, NetHeard, QueueHeard,
       NetUndisturbed, QueueUndisturbed

\* Whatever Transmit does to the path keeps it well typed and free of states
\* the packet does not carry.
LEMMA TransmitPath ==
    ASSUME IInv, NEW n \in Node, NEW p \in BfdControlPacket, Transmit(n, p),
           p.state \in States => heard[n],
           mgmt = 0 => p.state # AdminDownState
    PROVE  /\ net' \in [Node -> SUBSET BfdControlPacket]
           /\ sent' \in [Node -> 0..MaxSent]
           /\ NetHeard(net', heard)
           /\ mgmt = 0 => NetUndisturbed(net')
<1>1. sent' \in [Node -> 0..MaxSent]
  BY BoundsAssumption DEF Transmit, IInv, TypeOK
<1>2. NetHeard(net, heard) /\ (mgmt = 0 => NetUndisturbed(net))
  BY InvariantFacts
<1>3. CASE net' = net
  BY <1>1, <1>2, <1>3 DEF IInv, TypeOK, NetHeard, NetUndisturbed
<1>4. CASE net' = [net EXCEPT ![n] = @ \cup {p}]
  BY <1>1, <1>2, <1>4 DEF IInv, TypeOK, NetHeard, NetUndisturbed
<1>. QED
  BY <1>3, <1>4 DEF Transmit

\* The type part that no step of a session touches.
Rest ==
    /\ txpc \in [Node -> {"idle", "copied", "recopied"}]
    /\ net \in [Node -> SUBSET BfdControlPacket]
    /\ queue \in [Node -> Seq(BfdControlPacket)]
    /\ cut \in BOOLEAN
    /\ mgmt \in 0..MaxMgmt
    /\ sent \in [Node -> 0..MaxSent]
    /\ expired \in [Node -> 0..MaxTimeouts]
    /\ heard \in [Node -> BOOLEAN]

\* Initially nobody has heard of anybody and nothing has been administered.
LEMMA InitIInv == Init => IInv
<1>. SUFFICES ASSUME Init PROVE IInv
  OBVIOUS
<1>1. sess \in [Node -> {[NewSession EXCEPT !.demand = d] : d \in Demands}]
  BY DEF Init
<1>2. \A d \in Demands :
        LET s == [NewSession EXCEPT !.demand = d] IN
        /\ s \in BfdSessionType
        /\ s.state = DownState /\ s.packet.state = DownState /\ ~s.active
  BY DemandsAssumption DEF NewSession, BfdSessionType, BfdSessionState, BfdControlPacket
<1>3. \A n \in Node : /\ sess[n] \in BfdSessionType
                      /\ sess[n].state = DownState /\ sess[n].packet.state = DownState
                      /\ ~sess[n].active
  <2>. SUFFICES ASSUME NEW n \in Node
                PROVE  /\ sess[n] \in BfdSessionType
                       /\ sess[n].state = DownState /\ sess[n].packet.state = DownState
                       /\ ~sess[n].active
    OBVIOUS
  <2>1. PICK d \in Demands : sess[n] = [NewSession EXCEPT !.demand = d]
    BY <1>1
  <2>. QED
    BY <1>2, <2>1
<1>4. sess \in [Node -> BfdSessionType]
  BY <1>1, <1>3
<1>5. Rest
  <2>1. 0 \in 0..MaxMgmt /\ 0 \in 0..MaxSent /\ 0 \in 0..MaxTimeouts
    BY BoundsAssumption
  <2>2. << >> \in Seq(BfdControlPacket)
    OBVIOUS
  <2>. QED
    BY <2>1, <2>2 DEF Init, Rest
<1>6. TypeOK
  BY <1>4, <1>5 DEF TypeOK, Rest
<1>7. Handshake /\ UpIsNotified /\ Undisturbed
  BY <1>3 DEF Init, Handshake, UpIsNotified, Undisturbed, States
<1>. QED
  BY <1>6, <1>7 DEF IInv

\* The steps of the transmit callback.
LEMMA TxSteps ==
    ASSUME IInv, NEW n \in Node, TxRepeat(n) \/ TxFire(n) \/ TxWrite(n) \/ TxDone(n)
    PROVE  IInv'
<1>. DEFINE s == sess[n]
            T == BfdSessionType
<1>0. /\ s \in T /\ s.packet \in BfdControlPacket
      /\ Rest
  BY DEF IInv, TypeOK, Rest, BfdSessionType
<1>1. CASE TxRepeat(n)
  <2>1. /\ RearmTx(s) \in T
        /\ \A f \in {"state", "remote", "active", "notified", "packet", "sessionTimer"} :
              RearmTx(s)[f] = s[f]
    BY <1>0, TransmitFacts
  <2>2. /\ net' \in [Node -> SUBSET BfdControlPacket] /\ sent' \in [Node -> 0..MaxSent]
        /\ NetHeard(net', heard) /\ (mgmt = 0 => NetUndisturbed(net'))
    BY <1>0, <1>1, TransmitPath, InvariantFacts DEF TxRepeat
  <2>3. sess' = [sess EXCEPT ![n] = RearmTx(s)]
    BY <1>1 DEF TxRepeat
  <2>4. UNCHANGED <<txpc, queue, cut, mgmt, expired, heard>>
    BY <1>1 DEF TxRepeat
  <2>5. sess' \in [Node -> T] /\ Handshake' /\ UpIsNotified' /\ Undisturbed'
    BY <2>1, <2>2, <2>3, <2>4, SessionStep, InvariantFacts
  <2>. QED
    BY <1>0, <2>2, <2>4, <2>5 DEF IInv, TypeOK, Rest
<1>2. CASE TxFire(n)
  <2>. DEFINE s1 == [s EXCEPT !.txTimer = FALSE]
              r == CopyToPacket(s1)
  <2>1. /\ s1 \in T
        /\ \A f \in {"state", "remote", "active", "notified", "packet", "sessionTimer"} :
              s1[f] = s[f]
    BY <1>0, TransmitFacts
  <2>. HIDE DEF s1
  <2>2. /\ r \in T
        /\ r.packet.state = s1.state
        /\ \A f \in {"state", "remote", "active", "notified"} : r[f] = s1[f]
        /\ s1.sessionTimer \/ s1.packet.demand => r.sessionTimer \/ r.packet.demand
    BY <2>1, TransmitFacts
  <2>3. sess' = [sess EXCEPT ![n] = r]
    BY <1>2 DEF TxFire, s1
  <2>4. /\ txpc' \in [Node -> {"idle", "copied", "recopied"}]
        /\ UNCHANGED <<net, queue, cut, mgmt, sent, expired, heard>>
    BY <1>0, <1>2 DEF TxFire, Rest
  <2>. HIDE DEF r
  <2>5. sess' \in [Node -> T] /\ Handshake' /\ UpIsNotified' /\ Undisturbed'
    BY <2>1, <2>2, <2>3, <2>4, SessionStep, InvariantFacts
  <2>. QED
    BY <1>0, <2>4, <2>5 DEF IInv, TypeOK, Rest
<1>3. CASE TxWrite(n)
  <2>. DEFINE s1 == ClearFlags(s)
              r == CopyToPacket(s1)
  <2>1. /\ s1 \in T
        /\ \A f \in {"state", "remote", "active", "notified", "packet", "sessionTimer"} :
              s1[f] = s[f]
    BY <1>0, TransmitFacts
  <2>. HIDE DEF s1
  <2>2. /\ r \in T
        /\ r.packet.state = s1.state
        /\ \A f \in {"state", "remote", "active", "notified"} : r[f] = s1[f]
        /\ s1.sessionTimer \/ s1.packet.demand => r.sessionTimer \/ r.packet.demand
    BY <2>1, TransmitFacts
  <2>3. sess' = [sess EXCEPT ![n] = r]
    BY <1>3 DEF TxWrite, s1
  <2>4. /\ txpc' \in [Node -> {"idle", "copied", "recopied"}]
        /\ UNCHANGED <<queue, cut, mgmt, expired, heard>>
    BY <1>0, <1>3 DEF TxWrite, Rest
  <2>. HIDE DEF r
  <2>5. /\ net' \in [Node -> SUBSET BfdControlPacket] /\ sent' \in [Node -> 0..MaxSent]
        /\ NetHeard(net', heard) /\ (mgmt = 0 => NetUndisturbed(net'))
    BY <1>0, <1>3, TransmitPath, InvariantFacts DEF TxWrite
  <2>6. sess' \in [Node -> T] /\ Handshake' /\ UpIsNotified' /\ Undisturbed'
    BY <2>1, <2>2, <2>3, <2>4, <2>5, SessionStep, InvariantFacts
  <2>. QED
    BY <1>0, <2>4, <2>5, <2>6 DEF IInv, TypeOK, Rest
<1>4. CASE TxDone(n)
  <2>. DEFINE s1 == ClearFlags(s)
              r == RearmTx(s1)
  <2>1. /\ s1 \in T
        /\ \A f \in {"state", "remote", "active", "notified", "packet", "sessionTimer"} :
              s1[f] = s[f]
    BY <1>0, TransmitFacts
  <2>. HIDE DEF s1
  <2>2. /\ r \in T
        /\ \A f \in {"state", "remote", "active", "notified", "packet", "sessionTimer"} :
              r[f] = s1[f]
    BY <2>1, TransmitFacts
  <2>3. sess' = [sess EXCEPT ![n] = r]
    BY <1>4 DEF TxDone, s1
  <2>4. /\ txpc' \in [Node -> {"idle", "copied", "recopied"}]
        /\ UNCHANGED <<net, queue, cut, mgmt, sent, expired, heard>>
    BY <1>0, <1>4 DEF TxDone, Rest
  <2>. HIDE DEF r
  <2>5. sess' \in [Node -> T] /\ Handshake' /\ UpIsNotified' /\ Undisturbed'
    BY <2>1, <2>2, <2>3, <2>4, SessionStep, InvariantFacts
  <2>. QED
    BY <1>0, <2>4, <2>5 DEF IInv, TypeOK, Rest
<1>. QED
  BY <1>1, <1>2, <1>3, <1>4

\* The steps of the receiving goroutines and of the detection timer.
LEMMA RxSteps ==
    ASSUME IInv, NEW n \in Node, Dispatch(n) \/ ProcessPacket(n) \/ SessionTimeout(n)
    PROVE  IInv'
<1>. DEFINE s == sess[n]
            T == BfdSessionType
<1>0. /\ s \in T /\ Rest
      /\ Peer(n) \in Node /\ Peer(n) # n /\ Peer(Peer(n)) = n
      /\ queue[n] \in Seq(BfdControlPacket)
  BY PeerFacts DEF IInv, TypeOK, Rest
<1>1. CASE Dispatch(n)
  <2>1. PICK p \in net[Peer(n)] :
            /\ net' = [net EXCEPT ![Peer(n)] = @ \ {p}]
            /\ \/ UNCHANGED <<sess, queue>>
               \/ /\ sess' = [sess EXCEPT ![n].sessionTimer = TRUE]
                  /\ queue' = [queue EXCEPT ![n] = Append(@, p)]
            /\ UNCHANGED <<txpc, cut, mgmt, sent, expired, heard>>
    BY <1>1 DEF Dispatch
  <2>2. /\ p \in BfdControlPacket
        /\ p.state \in States => heard[Peer(n)]
        /\ mgmt = 0 => p.state # AdminDownState
    BY <1>0, <2>1, InvariantFacts DEF Rest, NetHeard, NetUndisturbed
  <2>3. /\ net' \in [Node -> SUBSET BfdControlPacket]
        /\ NetHeard(net', heard) /\ (mgmt = 0 => NetUndisturbed(net'))
    BY <1>0, <2>1, InvariantFacts DEF Rest, NetHeard, NetUndisturbed
  <2>4. CASE UNCHANGED <<sess, queue>>
    <3>1. sess' = [sess EXCEPT ![n] = s]
      BY <2>4 DEF IInv, TypeOK
    <3>2. sess' \in [Node -> T] /\ Handshake' /\ UpIsNotified' /\ Undisturbed'
      BY <1>0, <2>1, <2>3, <2>4, <3>1, SessionStep, InvariantFacts
    <3>. QED
      BY <1>0, <2>1, <2>3, <2>4, <3>2 DEF IInv, TypeOK, Rest
  <2>5. CASE /\ sess' = [sess EXCEPT ![n].sessionTimer = TRUE]
             /\ queue' = [queue EXCEPT ![n] = Append(@, p)]
    <3>. DEFINE r == [s EXCEPT !.sessionTimer = TRUE]
    <3>1. sess' = [sess EXCEPT ![n] = r]
      BY <2>5
    <3>2. /\ r \in T /\ r.sessionTimer /\ r.state = s.state /\ r.packet = s.packet
          /\ r.active = s.active /\ r.notified = s.notified
      BY <1>0 DEF BfdSessionType
    <3>. HIDE DEF r
    <3>3. /\ Append(queue[n], p) \in Seq(BfdControlPacket)
          /\ Len(Append(queue[n], p)) = Len(queue[n]) + 1
          /\ \A i \in 1..Len(queue[n]) : Append(queue[n], p)[i] = queue[n][i]
          /\ Append(queue[n], p)[Len(queue[n]) + 1] = p
      BY <1>0, <2>2
    <3>4. /\ queue' \in [Node -> Seq(BfdControlPacket)]
          /\ queue'[n] = Append(queue[n], p)
          /\ \A m \in Node : m # n => queue'[m] = queue[m]
      BY <1>0, <2>5, <3>3 DEF Rest
    <3>5. \A i \in 1..Len(queue'[n]) : i \in 1..Len(queue[n]) \/ i = Len(queue[n]) + 1
      BY <1>0, <3>3, <3>4
    <3>9. \A i \in 1..Len(queue'[n]) :
              queue'[n][i] = p \/ \E j \in 1..Len(queue[n]) : queue'[n][i] = queue[n][j]
      BY <3>3, <3>4, <3>5
    <3>6. QueueHeard(queue', heard)
      <4>1. QueueHeard(queue, heard)
        BY InvariantFacts
      <4>. QED
        BY <2>2, <3>4, <3>9, <4>1 DEF QueueHeard
    <3>7. mgmt = 0 => QueueUndisturbed(queue')
      <4>. SUFFICES ASSUME mgmt = 0, NEW m \in Node, NEW i \in 1..Len(queue'[m])
                    PROVE  queue'[m][i].state # AdminDownState
        BY DEF QueueUndisturbed
      <4>1. QueueUndisturbed(queue)
        BY InvariantFacts
      <4>2. CASE m = n
        BY <2>2, <3>9, <4>1, <4>2 DEF QueueUndisturbed
      <4>3. CASE m # n
        BY <3>4, <4>1, <4>3 DEF QueueUndisturbed
      <4>. QED
        BY <4>2, <4>3
    <3>8. sess' \in [Node -> T] /\ Handshake' /\ UpIsNotified' /\ Undisturbed'
      BY <2>1, <2>3, <3>1, <3>2, <3>6, <3>7, SessionStep, InvariantFacts
    <3>. QED
      BY <1>0, <2>1, <2>3, <3>4, <3>8 DEF IInv, TypeOK, Rest
  <2>. QED
    BY <2>1, <2>4, <2>5
<1>2. CASE ProcessPacket(n)
  <2>. DEFINE p == Head(queue[n])
              r == ProcessBfdPacket(s, p)
  <2>1. /\ queue[n] # << >>
        /\ sess' = [sess EXCEPT ![n] = r]
        /\ queue' = [queue EXCEPT ![n] = Tail(@)]
        /\ heard' = [heard EXCEPT ![n] = TRUE]
        /\ UNCHANGED <<txpc, net, cut, mgmt, sent, expired>>
    BY <1>2 DEF ProcessPacket
  <2>2. /\ p \in BfdControlPacket /\ p = queue[n][1] /\ 1 \in 1..Len(queue[n])
        /\ Tail(queue[n]) \in Seq(BfdControlPacket)
        /\ Len(Tail(queue[n])) = Len(queue[n]) - 1
        /\ \A i \in 1..Len(Tail(queue[n])) :
              i + 1 \in 1..Len(queue[n]) /\ Tail(queue[n])[i] = queue[n][i + 1]
    BY <1>0, <2>1
  <2>3. /\ p.state \in States => heard[Peer(n)]
        /\ mgmt = 0 => p.state # AdminDownState
    BY <2>2, InvariantFacts DEF QueueHeard, QueueUndisturbed
  <2>. HIDE DEF p
  <2>4. /\ r \in T
        /\ r.packet = s.packet /\ r.active = s.active
        /\ r.state = UpState => s.state = UpState \/ p.state \in States
        /\ (s.state \in {UpState, AdminDownState} => s.notified)
             => (r.state \in {UpState, AdminDownState} => r.notified)
        /\ r.state = UpState => s.state = UpState \/ s.active
        /\ r.state = AdminDownState => s.state = AdminDownState
        /\ s.state # AdminDownState /\ p.state # AdminDownState
             => r.sessionTimer \in {TRUE, s.sessionTimer}
    BY <1>0, <2>2, ProcessBfdPacketFacts
  <2>. HIDE DEF r
  <2>5. /\ heard' \in [Node -> BOOLEAN] /\ heard'[n]
        /\ \A m \in Node : heard[m] => heard'[m]
    BY <1>0, <2>1 DEF Rest
  <2>6. /\ queue' \in [Node -> Seq(BfdControlPacket)]
        /\ queue'[n] = Tail(queue[n])
        /\ \A m \in Node : m # n => queue'[m] = queue[m]
    BY <1>0, <2>1, <2>2 DEF Rest
  <2>7. NetHeard(net', heard') /\ QueueHeard(queue', heard')
    <3>1. \A m \in Node : Peer(m) \in Node
      BY PeerFacts
    <3>. QED
      BY <2>1, <2>2, <2>5, <2>6, <3>1, InvariantFacts DEF NetHeard, QueueHeard
  <2>8. mgmt = 0 => NetUndisturbed(net') /\ QueueUndisturbed(queue')
    BY <2>1, <2>2, <2>6, InvariantFacts DEF NetUndisturbed, QueueUndisturbed
  <2>9. sess' \in [Node -> T] /\ Handshake' /\ UpIsNotified' /\ Undisturbed'
    <3>1. r.state = UpState => heard'[Peer(n)]
      BY <1>0, <2>3, <2>4, <2>5, InvariantFacts
    <3>2. /\ r.state \in {UpState, AdminDownState} => r.notified
          /\ mgmt' = 0 => /\ mgmt = 0
                          /\ r.state # AdminDownState
                          /\ r.packet.state # AdminDownState
                          /\ r.state = UpState => r.active
      BY <2>1, <2>3, <2>4, InvariantFacts
    <3>3. mgmt' = 0 /\ r.active => r.sessionTimer \/ r.packet.demand
      BY <2>1, <2>3, <2>4, InvariantFacts
    <3>. QED
      BY <2>1, <2>4, <2>5, <2>7, <2>8, <3>1, <3>2, <3>3, SessionStep
  <2>. QED
    BY <1>0, <2>1, <2>5, <2>6, <2>9 DEF IInv, TypeOK, Rest
<1>3. CASE SessionTimeout(n)
  <2>. DEFINE r == HandleSessionTimeout(s)
  <2>1. /\ r \in T
        /\ r.packet = s.packet /\ r.active = s.active
        /\ r.state \in States => s.state \in States
        /\ r.state = UpState => s.state = UpState
        /\ (s.state \in {UpState, AdminDownState} => s.notified)
             => (r.state \in {UpState, AdminDownState} => r.notified)
        /\ r.state = AdminDownState => s.state = AdminDownState
        /\ r.sessionTimer
    BY <1>0, HandleSessionTimeoutFacts
  <2>2. /\ sess' = [sess EXCEPT ![n] = r]
        /\ UNCHANGED <<txpc, net, queue, cut, mgmt, sent, heard>>
    BY <1>3 DEF SessionTimeout
  <2>3. expired' \in [Node -> 0..MaxTimeouts]
    <3>1. CASE UNCHANGED expired
      BY <1>0, <3>1 DEF Rest
    <3>2. CASE expired[n] < MaxTimeouts /\ expired' = [expired EXCEPT ![n] = @ + 1]
      <4>1. expired \in [Node -> 0..MaxTimeouts]
        BY <1>0 DEF Rest
      <4>2. expired[n] + 1 \in 0..MaxTimeouts
        BY <3>2, <4>1, BoundsAssumption
      <4>. QED
        BY <3>2, <4>1, <4>2
    <3>. QED
      BY <1>3, <3>1, <3>2 DEF SessionTimeout
  <2>. HIDE DEF r
  <2>4. sess' \in [Node -> T] /\ Handshake' /\ UpIsNotified' /\ Undisturbed'
    BY <2>1, <2>2, SessionStep, InvariantFacts
  <2>. QED
    BY <1>0, <2>2, <2>3, <2>4 DEF IInv, TypeOK, Rest
<1>. QED
  BY <1>1, <1>2, <1>3

\* The steps of the management goroutine, of the client and of the path.
LEMMA OtherSteps ==
    ASSUME IInv, \/ \E n \in Node : ClientStarts(n) \/ Manage(n)
                 \/ PathFails
                 \/ UNCHANGED vars
    PROVE  IInv'
<1>. DEFINE T == BfdSessionType
<1>0. Rest
  BY DEF IInv, TypeOK, Rest
<1>1. ASSUME NEW n \in Node, ClientStarts(n)
      PROVE  IInv'
  <2>. DEFINE s == sess[n]
              r == StartSessionClient(s)
  <2>1. /\ r \in T /\ r.sessionTimer /\ r.active
        /\ r.state = s.state /\ r.packet = s.packet /\ r.notified = s.notified
    <3>1. s \in T
      BY DEF IInv, TypeOK
    <3>. HIDE DEF s
    <3>. QED
      BY <3>1 DEF StartSessionClient, BfdSessionType
  <2>2. /\ sess' = [sess EXCEPT ![n] = r]
        /\ UNCHANGED <<txpc, net, queue, cut, mgmt, sent, expired, heard>>
    BY <1>1 DEF ClientStarts
  <2>. HIDE DEF r
  <2>3. sess' \in [Node -> T] /\ Handshake' /\ UpIsNotified' /\ Undisturbed'
    BY <2>1, <2>2, SessionStep, InvariantFacts
  <2>. QED
    BY <1>0, <2>2, <2>3 DEF IInv, TypeOK, Rest
<1>2. ASSUME NEW n \in Node, Manage(n)
      PROVE  IInv'
  <2>. DEFINE s == sess[n]
              Results == {StartBfdSession(s), StopBfdSession(s), ResetBfdSession(s)}
                            \cup {UpdateParam(s, d) : d \in BOOLEAN}
  <2>1. PICK r \in Results : sess' = [sess EXCEPT ![n] = r]
    BY <1>2, DemandsAssumption DEF Manage
  <2>2. /\ mgmt' \in 0..MaxMgmt /\ mgmt' # 0
        /\ UNCHANGED <<txpc, net, queue, cut, sent, expired, heard>>
    BY <1>0, <1>2, BoundsAssumption DEF Manage, Rest
  <2>3. s \in T /\ (s.state \in {UpState, AdminDownState} => s.notified)
    BY InvariantFacts
  <2>4. /\ r \in T
        /\ r.packet = s.packet
        /\ r.state \in States => s.state \in States
        /\ r.state = UpState => s.state = UpState
        /\ r.state \in {UpState, AdminDownState} => r.notified
    BY <2>3, ManagementFacts
  <2>. HIDE DEF Results
  <2>5. sess' \in [Node -> T] /\ Handshake' /\ UpIsNotified' /\ Undisturbed'
    BY <2>1, <2>2, <2>4, SessionStep, InvariantFacts
  <2>. QED
    BY <1>0, <2>2, <2>5 DEF IInv, TypeOK, Rest
<1>3. CASE PathFails
  BY <1>3 DEF PathFails, IInv, TypeOK, Handshake, UpIsNotified, Undisturbed
<1>4. CASE UNCHANGED vars
  BY <1>4 DEF vars, IInv, TypeOK, Handshake, UpIsNotified, Undisturbed
<1>. QED
  BY <1>1, <1>2, <1>3, <1>4

-----------------------------------------------------------------------------
(* The theorems                                                             *)

\* IInv is an invariant of the protocol.
THEOREM Invariance == Spec => []IInv
<1>1. IInv /\ [Next]_vars => IInv'
  BY TxSteps, RxSteps, OtherSteps DEF Next
<1>. QED
  BY InitIInv, <1>1, PTL DEF Spec

\* The session structures, queues and packets stay well typed through every
\* handler of bfdSession.go.
THEOREM TypeCorrect == Spec => []TypeOK
BY Invariance, PTL DEF IInv

\* No session comes Up unless its peer has heard it: three-way handshake of
\* EventHandler over a path that loses, delays and reorders packets.
THEOREM HandshakeCorrect == Spec => []UpOnlyIfPeerHeard
<1>1. IInv => UpOnlyIfPeerHeard
  BY DEF IInv, Handshake, UpOnlyIfPeerHeard
<1>. QED
  BY Invariance, <1>1, PTL

\* The protocols are never left believing that a session that is Up, or
\* administratively down, is down.
THEOREM NotificationCorrect == Spec => []UpIsNotified
BY Invariance, PTL DEF IInv

\* Until the first management operation, the detection timer of a session that
\* is Up and does not use demand mode runs.
THEOREM DetectionCorrect == Spec => []DetectionArmed
<1>1. IInv => DetectionArmed
  BY DEF IInv, Undisturbed, DetectionArmed
<1>. QED
  BY Invariance, <1>1, PTL

-----------------------------------------------------------------------------
(* The refinement of BfdService                                             *)

\* The link of one session as the protocols see it.
Link(s) ==
    CASE s.state = UpState -> "up"
      [] s.state = AdminDownState -> "off"
      [] OTHER -> "down"

\* The session r looks to the protocols as s does.
SameView(s, r) == r.state = s.state /\ r.notified = s.notified /\ r.remote = s.remote

\* The abstract state to which the refinement maps the sessions.
links == [n \in Node |-> CASE sess[n].state = UpState -> "up"
                           [] sess[n].state = AdminDownState -> "off"
                           [] OTHER -> "down"]
reports == [n \in Node |-> sess[n].notified]
offs == [n \in Node |-> sess[n].remote = AdminDownState]

\* A client that was stopped has left Up: EventHandler ignores the timeouts of an
\* inactive session, so one that were Up would stay so.
UpIsActive == \A n \in Node : sess[n].state = UpState => sess[n].active

\* Every way in which an event changes what the protocols see.
LEMMA EventHandlerView ==
    ASSUME NEW s \in BfdSessionType, NEW e \in BfdSessionEvent
    PROVE  LET r == EventHandler(s, e) IN
           \/ /\ Link(r) = Link(s) /\ r.notified = s.notified /\ r.remote = s.remote
              /\ e = "TIMEOUT" => s.state # UpState \/ ~s.active
           \/ /\ e = "ADMIN_DOWN" /\ Link(s) # "off"
              /\ Link(r) = "off" /\ r.notified /\ r.remote = s.remote
           \/ /\ e = "REMOTE_ADMIN_DOWN" /\ Link(s) # "off"
              /\ Link(r) = Link(s) /\ r.notified /\ r.remote = AdminDownState
           \/ /\ e \in {"REMOTE_INIT", "REMOTE_UP"} /\ Link(s) = "down"
              /\ Link(r) = "up" /\ r.notified /\ r.remote = s.remote
           \/ /\ \/ e = "ADMIN_UP" /\ Link(s) = "down"
                 \/ e = "REMOTE_DOWN" /\ Link(s) = "up"
                 \/ e = "TIMEOUT" /\ Link(s) # "off"
              /\ Link(r) = "down" /\ (r.notified <=> s.remote = AdminDownState) /\ r.remote = s.remote
<1>. DEFINE r == EventHandler(s, e)
<1>1. CASE r = s /\ (e = "TIMEOUT" => s.state # UpState \/ ~s.active)
  BY <1>1
<1>2. CASE e = "ADMIN_DOWN" /\ s.state # AdminDownState /\ r = LocalAdminDown(s)
  <2>1. r.state = AdminDownState /\ r.notified /\ r.remote = s.remote
    BY <1>2 DEF LocalAdminDown, SendBfdNotification, BfdSessionType
  <2>. HIDE DEF r
  <2>. QED
    BY <1>2, <2>1 DEF Link, r
<1>3. CASE e = "REMOTE_ADMIN_DOWN" /\ s.state # AdminDownState /\ r = RemoteAdminDown(s)
  <2>1. r.state = s.state /\ r.notified /\ r.remote = AdminDownState
    BY <1>3 DEF RemoteAdminDown, SendBfdNotification, BfdSessionType
  <2>. HIDE DEF r
  <2>. QED
    BY <1>3, <2>1 DEF Link, r
<1>4. CASE e = "REMOTE_DOWN" /\ s.state = DownState /\ r = MoveToInitState(s)
  <2>1. r.state = InitState /\ r.notified = s.notified /\ r.remote = s.remote
    BY <1>4 DEF MoveToInitState, BfdSessionType
  <2>. HIDE DEF r
  <2>. QED
    BY <1>4, <2>1 DEF Link, r
<1>5. CASE e \in {"REMOTE_INIT", "REMOTE_UP"} /\ s.state \in {DownState, InitState}
           /\ r = MoveToUpState(s)
  <2>1. r.state = UpState /\ r.notified /\ r.remote = s.remote
    BY <1>5 DEF MoveToUpState, SendBfdNotification, BfdSessionType
  <2>. HIDE DEF r
  <2>. QED
    BY <1>5, <2>1 DEF Link, r
<1>6. CASE /\ \/ e = "ADMIN_UP" /\ s.state = DownState
              \/ e = "REMOTE_DOWN" /\ s.state = UpState
              \/ e = "TIMEOUT" /\ s.state \in {InitState, UpState}
           /\ r = MoveToDownState(s)
  <2>1. r.state = DownState /\ (r.notified <=> s.remote = AdminDownState) /\ r.remote = s.remote
    BY <1>6 DEF MoveToDownState, SendBfdNotification, BfdSessionType
  <2>. HIDE DEF r
  <2>. QED
    BY <1>6, <2>1 DEF Link, r
<1>7. \/ r = s /\ (e = "TIMEOUT" => s.state # UpState \/ ~s.active)
      \/ e = "ADMIN_DOWN" /\ s.state # AdminDownState /\ r = LocalAdminDown(s)
      \/ e = "REMOTE_ADMIN_DOWN" /\ s.state # AdminDownState /\ r = RemoteAdminDown(s)
      \/ e = "REMOTE_DOWN" /\ s.state = DownState /\ r = MoveToInitState(s)
      \/ e \in {"REMOTE_INIT", "REMOTE_UP"} /\ s.state \in {DownState, InitState}
            /\ r = MoveToUpState(s)
      \/ /\ \/ e = "ADMIN_UP" /\ s.state = DownState
            \/ e = "REMOTE_DOWN" /\ s.state = UpState
            \/ e = "TIMEOUT" /\ s.state \in {InitState, UpState}
         /\ r = MoveToDownState(s)
  BY DEF EventHandler, BfdSessionType, BfdSessionState
<1>. QED
  BY <1>1, <1>2, <1>3, <1>4, <1>5, <1>6, <1>7

\* One session becomes r.
LEMMA ViewMoves ==
    ASSUME TypeOK, NEW n \in Node, NEW r \in BfdSessionType, sess' = [sess EXCEPT ![n] = r]
    PROVE  /\ links' = [links EXCEPT ![n] = Link(r)]
           /\ reports' = [reports EXCEPT ![n] = r.notified]
           /\ offs' = [offs EXCEPT ![n] = (r.remote = AdminDownState)]
           /\ links[n] = Link(sess[n]) /\ reports[n] = sess[n].notified
           /\ offs[n] = (sess[n].remote = AdminDownState)
BY DEF TypeOK, links, reports, offs, Link

\* A packet is heard.
LEMMA HearsStep ==
    ASSUME IInv, NEW n \in Node, ProcessPacket(n)
    PROVE  Service!Hears(n)
<1>. DEFINE s == sess[n]
            p == Head(queue[n])
            r == ProcessBfdPacket(s, p)
<1>1. s \in BfdSessionType /\ p \in BfdControlPacket
      /\ (p.state \in States => heard[Peer(n)])
  <2>1. queue[n] \in Seq(BfdControlPacket) /\ queue[n] # <<>>
    BY DEF IInv, TypeOK, ProcessPacket
  <2>2. p \in BfdControlPacket /\ p = queue[n][1] /\ 1 \in 1..Len(queue[n])
    BY <2>1
  <2>. QED
    BY <2>2 DEF IInv, TypeOK, Handshake
<1>2. /\ sess' = [sess EXCEPT ![n] = r] /\ heard' = [heard EXCEPT ![n] = TRUE] /\ mgmt' = mgmt
  BY DEF ProcessPacket
<1>. HIDE DEF p
<1>3. r \in BfdSessionType
  BY <1>1, ProcessBfdPacketFacts
<1>4. /\ links' = [links EXCEPT ![n] = Link(r)]
      /\ reports' = [reports EXCEPT ![n] = r.notified]
      /\ offs' = [offs EXCEPT ![n] = (r.remote = AdminDownState)]
      /\ links[n] = Link(s) /\ reports[n] = s.notified
  <2>. HIDE DEF r
  <2>. QED
    BY <1>2, <1>3, ViewMoves DEF IInv
<1>5. \A m \in Node \ {n} : m = Peer(n)
  BY PeerFacts
<1>6. PICK q \in BfdSessionType :
        /\ r = EventHandler(q, RemoteEvent(p))
        /\ q.state = s.state /\ q.remote = p.state /\ q.notified = s.notified
  BY <1>1, PacketPrelude
<1>. HIDE DEF r
<1>7. Link(q) = Link(s)
  BY <1>6 DEF Link
<1>8. \/ Link(r) = Link(s) /\ r.notified = s.notified
      \/ /\ Link(s) # "off" /\ Link(r) = Link(s) /\ r.notified /\ r.remote = AdminDownState
      \/ /\ p.state \in States /\ Link(s) = "down"
         /\ Link(r) = "up" /\ r.notified /\ r.remote # AdminDownState
      \/ /\ Link(s) = "up"
         /\ Link(r) = "down" /\ ~r.notified /\ r.remote # AdminDownState
  <2>. DEFINE e == RemoteEvent(p)
  <2>1. /\ e \in BfdSessionEvent \ {"ADMIN_DOWN", "ADMIN_UP", "TIMEOUT"}
        /\ e \in {"REMOTE_INIT", "REMOTE_UP"} <=> p.state \in States
        /\ e = "REMOTE_ADMIN_DOWN" <=> p.state = AdminDownState
    BY <1>1, RemoteEventFacts
  <2>. HIDE DEF e
  <2>2. \/ Link(r) = Link(q) /\ r.notified = q.notified /\ r.remote = q.remote
        \/ /\ e = "REMOTE_ADMIN_DOWN" /\ Link(q) # "off"
           /\ Link(r) = Link(q) /\ r.notified /\ r.remote = AdminDownState
        \/ /\ e \in {"REMOTE_INIT", "REMOTE_UP"} /\ Link(q) = "down"
           /\ Link(r) = "up" /\ r.notified /\ r.remote = q.remote
        \/ /\ e = "REMOTE_DOWN" /\ Link(q) = "up"
           /\ Link(r) = "down" /\ (r.notified <=> q.remote = AdminDownState) /\ r.remote = q.remote
    <3>1. r = EventHandler(q, e) /\ e \in BfdSessionEvent
      BY <1>6, <2>1 DEF e
    <3>. QED
      BY <2>1, <3>1, EventHandlerView
  <2>. QED
    BY <1>6, <1>7, <2>1, <2>2 DEF States
<1>9. r.notified \in BOOLEAN
  BY <1>3 DEF BfdSessionType
<1>. HIDE DEF s
<1>10. CASE Link(r) = Link(s) /\ r.notified = s.notified
  <2>1. links' = [links EXCEPT ![n] = links[n]] /\ reports' = [reports EXCEPT ![n] = reports[n]]
    BY <1>4, <1>10
  <2>2. (r.remote = AdminDownState) \in BOOLEAN
    OBVIOUS
  <2>3. Service!Continues(n)
    BY <1>4, <2>1, <2>2 DEF Service!Continues, Service!Moves, links, reports, offs
  <2>. QED
    BY <1>2, <2>3 DEF Service!Hears
<1>11. CASE Link(s) # "off" /\ Link(r) = Link(s) /\ r.notified /\ r.remote = AdminDownState
  <2>1. /\ links' = [links EXCEPT ![n] = links[n]] /\ reports' = [reports EXCEPT ![n] = TRUE]
        /\ offs' = [offs EXCEPT ![n] = TRUE] /\ links[n] # "off"
    BY <1>4, <1>9, <1>11
  <2>2. Service!Excuses(n)
    BY <2>1 DEF Service!Excuses, Service!Moves, links, reports, offs
  <2>. QED
    BY <1>2, <2>2 DEF Service!Hears
<1>12. CASE /\ p.state \in States /\ Link(s) = "down"
            /\ Link(r) = "up" /\ r.notified /\ r.remote # AdminDownState
  <2>1. /\ links' = [links EXCEPT ![n] = "up"] /\ reports' = [reports EXCEPT ![n] = TRUE]
        /\ offs' = [offs EXCEPT ![n] = FALSE] /\ links[n] = "down"
    BY <1>4, <1>9, <1>12
  <2>2. \A m \in Node \ {n} : heard[m]
    BY <1>1, <1>5, <1>12
  <2>3. Service!Establishes(n)
    BY <2>1, <2>2 DEF Service!Establishes, Service!Moves, links, reports, offs
  <2>. QED
    BY <1>2, <2>3 DEF Service!Hears
<1>13. CASE Link(s) = "up" /\ Link(r) = "down" /\ ~r.notified /\ r.remote # AdminDownState
  <2>1. /\ links' = [links EXCEPT ![n] = "down"] /\ reports' = [reports EXCEPT ![n] = FALSE]
        /\ offs' = [offs EXCEPT ![n] = FALSE] /\ links[n] = "up"
    BY <1>4, <1>9, <1>13
  <2>2. Service!Loses(n)
    BY <2>1 DEF Service!Loses, Service!Moves, links, reports, offs
  <2>. QED
    BY <1>2, <2>2 DEF Service!Hears
<1>. QED
  BY <1>8, <1>10, <1>11, <1>12, <1>13

\* The detection time has passed.  A session that is Up reacts, because it is
\* active.
LEMMA TimesOutStep ==
    ASSUME IInv, UpIsActive, NEW n \in Node, SessionTimeout(n)
    PROVE  Service!TimesOut(n)
<1>. DEFINE s == sess[n]
            r == HandleSessionTimeout(s)
            s1 == IF s.movedToDown
                  THEN [ResetRemoteSessionParams(s) EXCEPT !.movedToDown = FALSE]
                  ELSE s
            t == EventHandler(s1, "TIMEOUT")
<1>1. s \in BfdSessionType /\ (s.state = UpState => s.active)
  BY DEF IInv, TypeOK, UpIsActive
<1>2. sess' = [sess EXCEPT ![n] = r] /\ heard' = heard /\ mgmt' = mgmt
  BY DEF SessionTimeout
<1>3. r \in BfdSessionType
  BY <1>1, HandleSessionTimeoutFacts
<1>4. /\ links' = [links EXCEPT ![n] = Link(r)]
      /\ reports' = [reports EXCEPT ![n] = r.notified]
      /\ offs' = [offs EXCEPT ![n] = (r.remote = AdminDownState)]
      /\ links[n] = Link(s) /\ reports[n] = s.notified /\ offs[n] = (s.remote = AdminDownState)
  <2>. HIDE DEF r
  <2>. QED
    BY <1>2, <1>3, ViewMoves DEF IInv
<1>5. /\ s1 \in BfdSessionType
      /\ s1.state = s.state /\ s1.active = s.active /\ s1.notified = s.notified
      /\ s1.remote \in {s.remote, DownState}
  <2>1. CASE s.movedToDown
    <3>1. s1 = [[s EXCEPT !.remoteDisc = FALSE, !.remote = DownState, !.changed = TRUE]
                  EXCEPT !.movedToDown = FALSE]
      BY <2>1 DEF ResetRemoteSessionParams
    <3>. HIDE DEF s1, s
    <3>. QED
      BY <1>1, <3>1 DEF BfdSessionType, BfdSessionState
  <2>2. CASE ~s.movedToDown
    BY <1>1, <2>2
  <2>. QED
    BY <2>1, <2>2
<1>. HIDE DEF s1
<1>6. t \in BfdSessionType
  BY <1>5, EventHandlerFacts, "TIMEOUT" \in BfdSessionEvent DEF BfdSessionEvent
<1>7. \/ /\ Link(t) = Link(s1) /\ t.notified = s1.notified /\ t.remote = s1.remote
         /\ s1.state # UpState \/ ~s1.active
      \/ /\ Link(s1) # "off"
         /\ Link(t) = "down" /\ (t.notified <=> s1.remote = AdminDownState) /\ t.remote = s1.remote
  <2>1. "TIMEOUT" \in BfdSessionEvent
    BY DEF BfdSessionEvent
  <2>. QED
    BY <1>5, <2>1, EventHandlerView
<1>. HIDE DEF t
<1>8. r.state = t.state /\ r.notified = t.notified /\ r.remote = t.remote
  <2>1. r = [t EXCEPT !.sessionTimer = TRUE]
    BY DEF HandleSessionTimeout, t, s1
  <2>. HIDE DEF r
  <2>. QED
    BY <1>6, <2>1 DEF BfdSessionType
<1>9. Link(r) = Link(t) /\ Link(s1) = Link(s) /\ (Link(s) = "up" <=> s.state = UpState)
  BY <1>5, <1>8 DEF Link
<1>. DEFINE off == r.remote = AdminDownState
<1>10. /\ off \in {offs[n], FALSE} /\ off \in BOOLEAN
       /\ (r.notified \in BOOLEAN) /\ offs' = [offs EXCEPT ![n] = off]
  BY <1>3, <1>4, <1>5, <1>7, <1>8 DEF BfdSessionType
<1>11. \/ Link(r) = Link(s) /\ r.notified = s.notified /\ Link(s) # "up"
       \/ Link(s) # "off" /\ Link(r) = "down" /\ r.notified = off
  BY <1>1, <1>5, <1>7, <1>8, <1>9, <1>10
<1>. HIDE DEF r, s, off
<1>12. CASE Link(r) = Link(s) /\ r.notified = s.notified /\ Link(s) # "up"
  <2>1. /\ links' = [links EXCEPT ![n] = links[n]] /\ reports' = [reports EXCEPT ![n] = reports[n]]
        /\ links[n] # "up"
    BY <1>4, <1>12
  <2>. QED
    BY <1>2, <1>10, <2>1 DEF Service!TimesOut, Service!Moves, links, reports, offs
<1>13. CASE Link(s) # "off" /\ Link(r) = "down" /\ r.notified = off
  <2>1. /\ links' = [links EXCEPT ![n] = "down"] /\ reports' = [reports EXCEPT ![n] = off]
        /\ links[n] # "off"
    BY <1>4, <1>13
  <2>. QED
    BY <1>2, <1>10, <2>1 DEF Service!TimesOut, Service!Moves, links, reports, offs
<1>. QED
  BY <1>11, <1>12, <1>13

\* The operations of the operator.
LEMMA ManagementView ==
    ASSUME NEW s \in BfdSessionType,
           NEW r \in {StartBfdSession(s), StopBfdSession(s), ResetBfdSession(s)}
                        \cup {UpdateParam(s, d) : d \in BOOLEAN}
    PROVE  /\ r.remote = s.remote
           /\ \/ Link(s) # "off" /\ Link(r) = "off" /\ r.notified
              \/ Link(r) = "down" /\ r.notified = s.notified
              \/ Link(r) = "down" /\ (r.notified <=> s.remote = AdminDownState)
              \/ Link(r) = Link(s) /\ r.notified = s.notified
           /\ r.state = UpState => s.state = UpState /\ r.active = s.active
<1>1. CASE r = StartBfdSession(s)
  <2>. DEFINE s1 == [s EXCEPT !.sessionTimer = TRUE, !.txTimer = TRUE, !.state = DownState]
  <2>1. /\ s1 \in BfdSessionType /\ s1.state = DownState /\ s1.remote = s.remote
        /\ s1.notified = s.notified
    BY DEF BfdSessionType, BfdSessionState
  <2>2. r = EventHandler(s1, "ADMIN_UP") /\ "ADMIN_UP" \in BfdSessionEvent
    BY <1>1 DEF StartBfdSession, BfdSessionEvent
  <2>. HIDE DEF s1
  <2>3. Link(s1) = "down"
    BY <2>1 DEF Link
  <2>4. /\ r.remote = s.remote /\ Link(r) = "down"
        /\ r.notified = s.notified \/ (r.notified <=> s.remote = AdminDownState)
    BY <2>1, <2>2, <2>3, EventHandlerView
  <2>5. r.state # UpState
    BY <2>4 DEF Link
  <2>. QED
    BY <2>4, <2>5
<1>2. CASE r = StopBfdSession(s)
  <2>1. r = EventHandler(s, "ADMIN_DOWN") /\ "ADMIN_DOWN" \in BfdSessionEvent
    BY <1>2 DEF StopBfdSession, BfdSessionEvent
  <2>2. /\ r.remote = s.remote
        /\ \/ Link(s) # "off" /\ Link(r) = "off" /\ r.notified
           \/ Link(r) = Link(s) /\ r.notified = s.notified
    BY <2>1, EventHandlerView
  <2>. DEFINE t == EventHandler(s, "ADMIN_DOWN")
  <2>3. /\ t.active = s.active
        /\ t.state = UpState => s.state = UpState \/ "ADMIN_DOWN" \in {"REMOTE_INIT", "REMOTE_UP"}
    BY <2>1, EventHandlerFacts
  <2>. HIDE DEF t
  <2>4. r.active = s.active /\ (r.state = UpState => s.state = UpState)
    BY <2>1, <2>3 DEF t
  <2>. QED
    BY <2>2, <2>4
<1>3. CASE r = ResetBfdSession(s)
  BY <1>3 DEF ResetBfdSession, Link, BfdSessionType
<1>4. CASE \E d \in BOOLEAN : r = UpdateParam(s, d)
  <2>1. PICK d \in BOOLEAN : r = UpdateParam(s, d)
    BY <1>4
  <2>2. SameView(s, r) /\ r.active = s.active
    BY <2>1 DEF UpdateParam, InitiatePollSequence, SameView, BfdSessionType
  <2>. QED
    BY <2>2 DEF SameView, Link
<1>. QED
  BY <1>1, <1>2, <1>3, <1>4

LEMMA AdministeredStep ==
    ASSUME IInv, NEW n \in Node, Manage(n)
    PROVE  Service!Administered(n)
<1>. DEFINE s == sess[n]
            Results == {StartBfdSession(s), StopBfdSession(s), ResetBfdSession(s)}
                          \cup {UpdateParam(s, d) : d \in BOOLEAN}
<1>1. PICK r \in Results : sess' = [sess EXCEPT ![n] = r]
  BY DemandsAssumption DEF Manage
<1>2. heard' = heard /\ mgmt' = mgmt + 1
  BY DEF Manage
<1>3. s \in BfdSessionType /\ r \in BfdSessionType
  BY ManagementFacts, InvariantFacts DEF IInv, TypeOK
<1>4. /\ links' = [links EXCEPT ![n] = Link(r)]
      /\ reports' = [reports EXCEPT ![n] = r.notified]
      /\ offs' = [offs EXCEPT ![n] = (r.remote = AdminDownState)]
      /\ links[n] = Link(s) /\ reports[n] = s.notified /\ offs[n] = (s.remote = AdminDownState)
  BY <1>1, <1>3, ViewMoves DEF IInv
<1>5. /\ r.remote = s.remote
      /\ \/ Link(s) # "off" /\ Link(r) = "off" /\ r.notified
         \/ Link(r) = "down" /\ r.notified = s.notified
         \/ Link(r) = "down" /\ (r.notified <=> s.remote = AdminDownState)
         \/ Link(r) = Link(s) /\ r.notified = s.notified
  BY <1>3, ManagementView
<1>6. r.notified \in BOOLEAN /\ offs' = [offs EXCEPT ![n] = offs[n]]
  BY <1>3, <1>4, <1>5 DEF BfdSessionType
<1>. HIDE DEF s, Results
<1>7. CASE Link(s) # "off" /\ Link(r) = "off" /\ r.notified
  <2>1. /\ links' = [links EXCEPT ![n] = "off"] /\ reports' = [reports EXCEPT ![n] = TRUE]
        /\ links[n] # "off"
    BY <1>4, <1>6, <1>7
  <2>. QED
    BY <1>2, <1>6, <2>1 DEF Service!Administered, Service!Moves, links, reports, offs
<1>8. CASE Link(r) = "down" /\ r.notified = s.notified
  <2>1. links' = [links EXCEPT ![n] = "down"] /\ reports' = [reports EXCEPT ![n] = reports[n]]
    BY <1>4, <1>8
  <2>. QED
    BY <1>2, <1>6, <2>1 DEF Service!Administered, Service!Moves, links, reports, offs
<1>9. CASE Link(r) = "down" /\ (r.notified <=> s.remote = AdminDownState)
  <2>1. links' = [links EXCEPT ![n] = "down"] /\ reports' = [reports EXCEPT ![n] = offs[n]]
    <3>1. r.notified = offs[n]
      BY <1>4, <1>6, <1>9
    <3>. QED
      BY <1>4, <1>9, <3>1
  <2>. QED
    BY <1>2, <1>6, <2>1 DEF Service!Administered, Service!Moves, links, reports, offs
<1>10. CASE Link(r) = Link(s) /\ r.notified = s.notified
  <2>1. links' = [links EXCEPT ![n] = links[n]] /\ reports' = [reports EXCEPT ![n] = reports[n]]
    BY <1>4, <1>10
  <2>. QED
    BY <1>2, <1>6, <2>1 DEF Service!Administered, Service!Moves, links, reports, offs
<1>. QED
  BY <1>5, <1>7, <1>8, <1>9, <1>10

\* The transmit callback, the dispatcher, the start of the client and the path
\* change nothing that the protocols see.
LEMMA QuietSteps ==
    ASSUME IInv, UpIsActive,
           \/ \E n \in Node : \/ TxRepeat(n) \/ TxFire(n) \/ TxWrite(n) \/ TxDone(n)
                             \/ Dispatch(n) \/ ClientStarts(n)
           \/ PathFails
           \/ UNCHANGED vars
    PROVE  UpIsActive' /\ UNCHANGED <<links, reports, offs, heard, mgmt>>
<1>1. ASSUME NEW n \in Node, TxRepeat(n) \/ TxFire(n) \/ TxWrite(n) \/ TxDone(n)
      PROVE  \E r \in BfdSessionType : /\ sess' = [sess EXCEPT ![n] = r]
                                      /\ SameView(sess[n], r) /\ r.active = sess[n].active
  <2>. DEFINE s == sess[n]
              Same(q) == /\ q \in BfdSessionType /\ SameView(s, q) /\ q.active = s.active
  <2>1. Same(s)
    BY DEF IInv, TypeOK, SameView
  <2>2. \A q : Same(q) => /\ Same(RearmTx(q)) /\ Same(CopyToPacket(q)) /\ Same(ClearFlags(q))
                          /\ Same([q EXCEPT !.txTimer = FALSE])
    <3>. HIDE DEF s
    <3>. QED
      BY TransmitFacts DEF SameView
  <2>. HIDE DEF Same
  <2>3. \E r : Same(r) /\ sess' = [sess EXCEPT ![n] = r]
    BY <1>1, <2>1, <2>2 DEF TxRepeat, TxFire, TxWrite, TxDone
  <2>. QED
    BY <2>3 DEF Same
<1>2. ASSUME NEW n \in Node, NEW r \in BfdSessionType, sess' = [sess EXCEPT ![n] = r],
             SameView(sess[n], r), sess[n].active => r.active
      PROVE  UpIsActive' /\ UNCHANGED <<links, reports, offs>>
  <2>1. ASSUME NEW m \in Node
        PROVE  /\ sess'[m].state = sess[m].state /\ sess'[m].notified = sess[m].notified
               /\ sess'[m].remote = sess[m].remote /\ (sess[m].active => sess'[m].active)
    BY <1>2 DEF IInv, TypeOK, SameView
  <2>2. UpIsActive'
    BY <2>1 DEF UpIsActive
  <2>3. links' = links
    BY <2>1 DEF links
  <2>4. reports' = reports /\ offs' = offs
    BY <2>1 DEF reports, offs
  <2>. QED
    BY <2>2, <2>3, <2>4
<1>3. sess' = sess => UpIsActive' /\ UNCHANGED <<links, reports, offs>>
  BY DEF UpIsActive, links, reports, offs
<1>4. ASSUME NEW n \in Node, Dispatch(n) \/ ClientStarts(n)
      PROVE  UpIsActive' /\ UNCHANGED <<links, reports, offs>>
  <2>. DEFINE s == sess[n]
              d == [s EXCEPT !.sessionTimer = TRUE]
              c == StartSessionClient(s)
  <2>1. s \in BfdSessionType
    BY DEF IInv, TypeOK
  <2>2. \/ sess' = sess
        \/ sess' = [sess EXCEPT ![n] = d]
        \/ sess' = [sess EXCEPT ![n] = c]
    BY <1>4 DEF Dispatch, ClientStarts
  <2>3. /\ d \in BfdSessionType /\ SameView(s, d) /\ (s.active => d.active)
        /\ c \in BfdSessionType /\ SameView(s, c) /\ (s.active => c.active)
    <3>. HIDE DEF s
    <3>. QED
      BY <2>1 DEF StartSessionClient, SameView, BfdSessionType
  <2>. HIDE DEF d, c
  <2>4. CASE sess' = sess
    BY <1>3, <2>4
  <2>5. CASE sess' = [sess EXCEPT ![n] = d]
    BY <1>2, <2>3, <2>5
  <2>6. CASE sess' = [sess EXCEPT ![n] = c]
    BY <1>2, <2>3, <2>6
  <2>. QED
    BY <2>2, <2>4, <2>5, <2>6
<1>5. UNCHANGED <<heard, mgmt>>
  BY DEF TxRepeat, TxFire, TxWrite, TxDone, Dispatch, ClientStarts, PathFails, vars
<1>6. ASSUME NEW n \in Node, TxRepeat(n) \/ TxFire(n) \/ TxWrite(n) \/ TxDone(n)
      PROVE  UpIsActive' /\ UNCHANGED <<links, reports, offs>>
  BY <1>1, <1>2, <1>6
<1>7. PathFails \/ UNCHANGED vars => sess' = sess
  BY DEF PathFails, vars
<1>. QED
  BY <1>3, <1>4, <1>5, <1>6, <1>7

\* The steps that the protocols may see keep UpIsActive too.
LEMMA ActiveSteps ==
    ASSUME IInv, UpIsActive, NEW n \in Node, ProcessPacket(n) \/ SessionTimeout(n) \/ Manage(n)
    PROVE  UpIsActive'
<1>. DEFINE s == sess[n]
            p == Head(queue[n])
<1>1. s \in BfdSessionType /\ (s.state = UpState => s.active)
  BY DEF IInv, TypeOK, UpIsActive
<1>2. ASSUME NEW r, r.state = UpState => r.active, sess' = [sess EXCEPT ![n] = r]
      PROVE  UpIsActive'
  <2>1. ASSUME NEW m \in Node PROVE sess'[m] = IF m = n THEN r ELSE sess[m]
    BY <1>2 DEF IInv, TypeOK
  <2>. QED
    BY <1>2, <2>1 DEF UpIsActive
<1>. HIDE DEF s
<1>3. CASE ProcessPacket(n)
  <2>. DEFINE r == ProcessBfdPacket(s, p)
  <2>1. p \in BfdControlPacket
    <3>1. queue[n] \in Seq(BfdControlPacket) /\ queue[n] # <<>>
      BY <1>3 DEF IInv, TypeOK, ProcessPacket
    <3>. QED
      BY <3>1
  <2>2. sess' = [sess EXCEPT ![n] = r]
    BY <1>3 DEF ProcessPacket, s
  <2>. HIDE DEF p
  <2>3. r.active = s.active /\ (r.state = UpState => s.state = UpState \/ s.active)
    BY <1>1, <2>1, ProcessBfdPacketFacts
  <2>. HIDE DEF r
  <2>. QED
    BY <1>1, <1>2, <2>2, <2>3
<1>4. CASE SessionTimeout(n)
  <2>. DEFINE r == HandleSessionTimeout(s)
  <2>1. sess' = [sess EXCEPT ![n] = r]
    BY <1>4 DEF SessionTimeout, s
  <2>2. r.active = s.active /\ (r.state = UpState => s.state = UpState)
    BY <1>1, HandleSessionTimeoutFacts
  <2>. HIDE DEF r
  <2>. QED
    BY <1>1, <1>2, <2>1, <2>2
<1>5. CASE Manage(n)
  <2>. DEFINE Results == {StartBfdSession(s), StopBfdSession(s), ResetBfdSession(s)}
                            \cup {UpdateParam(s, d) : d \in BOOLEAN}
  <2>1. PICK r \in Results : sess' = [sess EXCEPT ![n] = r]
    BY <1>5, DemandsAssumption DEF Manage, s
  <2>2. r.state = UpState => s.state = UpState /\ r.active = s.active
    BY <1>1, ManagementView
  <2>. QED
    BY <1>1, <1>2, <2>1, <2>2
<1>. QED
  BY <1>3, <1>4, <1>5

LEMMA ServiceInitial == Init => Service!ServiceInit /\ UpIsActive
<1>. SUFFICES ASSUME Init PROVE Service!ServiceInit /\ UpIsActive
  OBVIOUS
<1>1. ASSUME NEW n \in Node
      PROVE  sess[n].state = "Down" /\ sess[n].notified = FALSE /\ sess[n].remote = "Down"
  <2>1. PICK d \in Demands : sess[n] = [NewSession EXCEPT !.demand = d]
    BY DEF Init
  <2>. QED
    BY <2>1 DEF NewSession
<1>2. heard = [n \in Node |-> FALSE] /\ mgmt = 0
  BY DEF Init
<1>3. links = [n \in Node |-> "down"] /\ reports = [n \in Node |-> FALSE]
      /\ offs = [n \in Node |-> FALSE]
  BY <1>1 DEF links, reports, offs
<1>. QED
  BY <1>1, <1>2, <1>3 DEF Service!ServiceInit, UpIsActive, links, reports, offs

\* Every step is one of the service, or one that the protocols do not see.
LEMMA ServiceStep ==
    ASSUME IInv, UpIsActive, [Next]_vars
    PROVE  [Service!ServiceNext]_(Service!serviceVars) /\ UpIsActive'
<1>1. CASE \E n \in Node : ProcessPacket(n) \/ SessionTimeout(n) \/ Manage(n)
  <2>1. Service!ServiceNext
    BY <1>1, HearsStep, TimesOutStep, AdministeredStep DEF Service!ServiceNext
  <2>2. UpIsActive'
    BY <1>1, ActiveSteps
  <2>. QED
    BY <2>1, <2>2
<1>2. CASE \/ \E n \in Node : \/ TxRepeat(n) \/ TxFire(n) \/ TxWrite(n) \/ TxDone(n)
                             \/ Dispatch(n) \/ ClientStarts(n)
           \/ PathFails
           \/ UNCHANGED vars
  <2>1. UpIsActive' /\ UNCHANGED <<links, reports, offs, heard, mgmt>>
    BY <1>2, QuietSteps
  <2>2. UNCHANGED Service!serviceVars
    BY <2>1 DEF Service!serviceVars, links, reports, offs
  <2>. QED
    BY <2>1, <2>2
<1>. QED
  BY <1>1, <1>2 DEF Next

\* The two sessions implement the service that their protocols rely on: the
\* initial states and every step of the four goroutines map to the abstract
\* specification, for any bounds on packets, queues, timeouts and operations.
THEOREM ServiceImplemented == Spec => ImplementsService
<1>1. IInv /\ UpIsActive /\ [Next]_vars
        => [Service!ServiceNext]_(Service!serviceVars) /\ UpIsActive'
  BY ServiceStep
<1>. QED
  BY <1>1, ServiceInitial, Invariance, PTL DEF Spec, ImplementsService, Service!ServiceSpec

\* The service leaves "off" only through an operation of the operator.
LEMMA OffHolds ==
    ASSUME NEW n \in Node, [Service!ServiceNext]_(Service!serviceVars),
           links[n] = "off", links'[n] # "off"
    PROVE  mgmt' = mgmt + 1
<1>1. CASE UNCHANGED Service!serviceVars
  <2>1. links' = links
    BY <1>1 DEF Service!serviceVars, links
  <2>. QED
    BY <2>1
<1>2. ASSUME NEW k \in Node, Service!Hears(k) \/ Service!TimesOut(k)
      PROVE  FALSE
  <2>1. PICK l : /\ links' = [links EXCEPT ![k] = l]
                 /\ links[k] = "off" => l = "off"
    BY <1>2 DEF Service!Hears, Service!TimesOut, Service!Establishes, Service!Loses,
                Service!Excuses, Service!Continues, Service!Moves, links
  <2>2. n \in DOMAIN links
    BY DEF links
  <2>. QED
    BY <2>1, <2>2
<1>3. ASSUME NEW k \in Node, Service!Administered(k)
      PROVE  mgmt' = mgmt + 1
  BY <1>3 DEF Service!Administered
<1>. QED
  BY <1>1, <1>2, <1>3 DEF Service!ServiceNext

\* Only the management goroutine takes a session out of AdminDown; no packet
\* that was queued before and no running timer does.
THEOREM AdminDownCorrect == Spec => AdminDownHolds
<1>. DEFINE Held == \A n \in Node :
                sess[n].state = AdminDownState /\ sess'[n].state # AdminDownState
                    => mgmt' = mgmt + 1
<1>1. IInv /\ UpIsActive /\ [Next]_vars => UpIsActive' /\ [Held]_vars
  <2>. SUFFICES ASSUME IInv, UpIsActive, [Next]_vars PROVE UpIsActive' /\ Held
    OBVIOUS
  <2>1. [Service!ServiceNext]_(Service!serviceVars) /\ UpIsActive'
    BY ServiceStep
  <2>2. ASSUME NEW n \in Node
        PROVE  /\ links[n] = "off" <=> sess[n].state = AdminDownState
               /\ links'[n] = "off" <=> sess'[n].state = AdminDownState
    BY DEF links
  <2>. QED
    BY <2>1, <2>2, OffHolds
<1>2. Init => UpIsActive
  BY ServiceInitial
<1>. QED
  BY <1>1, <1>2, Invariance, PTL DEF Spec, AdminDownHolds

=============================================================================
