---------------------------- MODULE BgpFsmProofs ----------------------------
(***************************************************************************)
(* Proofs about one BGP finite state machine: whatever the order of        *)
(* packets, ticks of stopped timers, late dial attempts, commands and BFD  *)
(* reports, the machine is never left without something that moves it on,  *)
(* goes on sending KEEPALIVEs, does not live on without a reader, and      *)
(* holds a connection exactly in a session.                                *)
(***************************************************************************)
EXTENDS BgpFsm, TLAPS

-----------------------------------------------------------------------------
(* The inductive invariant                                                  *)

\* A dial attempt that has not been told to stop will report, or has reported,
\* and no error of an earlier connection is in its way.
FirstAttempt ==
    /\ fsm.outTCPConn
    /\ fsm.dialing \/ outConnCh > 0 \/ \E i \in DOMAIN errCh : errCh[i] = "dial"
    /\ \A i \in DOMAIN errCh : errCh[i] # "stale"

\* NeverStranded for every point of StartFSM but the wait for the reader.  An
\* FSM in Connect whose retry timer does not run has just been created: the
\* error of an old connection would take its dial attempt away.
Moving ==
    /\ fsm.state = "Idle" => Ticking("restart")
    /\ fsm.state = "Connect" => Ticking("connectRetry") \/ FirstAttempt
    /\ fsm.state = "Active" => Ticking("connectRetry") \/ incoming
    /\ fsm.state \in Session => Ticking("hold") \/ fsm.negotiated = 0
    /\ fsm.state \in {"OpenConfirm", "Established"} => Ticking("keepAlive") \/ fsm.negotiated = 0

\* The hold time in use: leaving OpenConfirm resets it to the configured one,
\* so that it is the negotiated one only before Established.
HoldTimes(f) ==
    /\ f.state \in {"OpenSent", "OpenConfirm"} => f.hold = f.negotiated
    /\ f.state = "Established" => f.hold = ConfigHold

\* StartFSM waits for a reader only in a session, and an FSM that was told to
\* close goes no further than that wait.
Control ==
    /\ Select => ~fsm.close
    /\ pc.at = "clear" => fsm.state \in Session

IInv ==
    /\ TypeOK
    /\ Select => Moving
    /\ HoldTimes(fsm)
    /\ Control
    /\ NoDeafSession
    /\ ConnectionBelongsToSession

-----------------------------------------------------------------------------
(* What the operations do to the FSM object                                 *)

AutoStarts == {"AutoStart", "AutoStartPassTcpEst"}

\* The machine is moving by a timer that has just been started.
Fresh(f) ==
    /\ f.state = "Idle" => "restart" \in f.armed
    /\ f.state \in {"Connect", "Active"} => "connectRetry" \in f.armed
    /\ f.state \in Session => "hold" \in f.armed \/ f.negotiated = 0
    /\ f.state \in {"OpenConfirm", "Established"} => "keepAlive" \in f.armed \/ f.negotiated = 0

\* The fields that the timers and the dial attempts leave alone.
SameSession(f, g) ==
    /\ g.state = f.state /\ g.peerConn = f.peerConn
    /\ g.hold = f.hold /\ g.negotiated = f.negotiated
    /\ g.close = f.close /\ g.active = f.active

LEMMA TimerFacts ==
    ASSUME NEW f \in FSM, NEW t \in Timer
    PROVE  /\ StartTimer(f, t) \in FSM /\ SameSession(f, StartTimer(f, t))
           /\ StartTimer(f, t).armed = f.armed \cup {t}
           /\ StartTimer(f, t).outTCPConn = f.outTCPConn /\ StartTimer(f, t).dialing = f.dialing
           /\ StopTimer(f, t) \in FSM /\ SameSession(f, StopTimer(f, t))
           /\ StopTimer(f, t).armed = f.armed \ {t}
           /\ StopTimer(f, t).outTCPConn = f.outTCPConn /\ StopTimer(f, t).dialing = f.dialing
BY DEF FSM, StartTimer, StopTimer, SameSession

LEMMA DialFacts ==
    ASSUME NEW f \in FSM
    PROVE  /\ StopConnToPeer(f) \in FSM /\ SameSession(f, StopConnToPeer(f))
           /\ StopConnToPeer(f).armed = f.armed
           /\ InitiateConnToPeer(f) \in FSM /\ SameSession(f, InitiateConnToPeer(f))
           /\ InitiateConnToPeer(f).armed = f.armed
<1>1. MaxOld \in Nat
  BY CapacityAssumption
<1>2. \A n \in 0..MaxOld : n < MaxOld => n + 1 \in 0..MaxOld
  BY <1>1
<1>3. StopConnToPeer(f) \in FSM
  BY <1>2 DEF FSM, StopConnToPeer
<1>4. InitiateConnToPeer(f) \in FSM
  BY DEF FSM, InitiateConnToPeer
<1>. QED
  BY <1>3, <1>4 DEF FSM, StopConnToPeer, InitiateConnToPeer, SameSession

LEMMA ChangeStateFacts ==
    ASSUME NEW f \in FSM, NEW s \in BGPFSMState, ~f.close
    PROVE  LET g == ChangeState(f, s) IN
           /\ g \in FSM
           /\ g.state = s \/ (s = "Connect" /\ g.state = "Active")
           /\ g.peerConn = f.peerConn /\ g.negotiated = f.negotiated /\ ~g.close
           /\ g.active => s = "Established"
           /\ g.hold = IF f.state \in {"OpenConfirm", "Established"} THEN ConfigHold ELSE f.hold
           /\ s # "Idle" => g.armed = f.armed
           /\ s = "Idle" => "restart" \in g.armed
<1>. DEFINE l == Leave(f)
            e == Enter(l, s)
<1>1. /\ l \in FSM /\ l.state = f.state /\ l.peerConn = f.peerConn
      /\ l.negotiated = f.negotiated /\ ~l.close /\ l.armed = f.armed
      /\ l.hold = IF f.state \in {"OpenConfirm", "Established"} THEN ConfigHold ELSE f.hold
  BY DEF FSM, Leave
<1>2. /\ e \in FSM
      /\ e.state = s \/ (s = "Connect" /\ e.state = "Active")
      /\ e.peerConn = l.peerConn /\ e.negotiated = l.negotiated /\ ~e.close /\ e.hold = l.hold
      /\ s # "Idle" => e.armed = l.armed
      /\ s = "Idle" => "restart" \in e.armed
  <2>. HIDE DEF l
  <2>. DEFINE g == [l EXCEPT !.state = s]
  <2>1. g \in FSM /\ g.state = s /\ g.peerConn = l.peerConn /\ g.negotiated = l.negotiated
        /\ g.close = l.close /\ g.hold = l.hold /\ g.armed = l.armed
    BY <1>1 DEF FSM
  <2>2. CASE s = "Idle"
    BY <1>1, <2>1, <2>2 DEF FSM, Enter, EnterIdle, Timer, BGPFSMState
  <2>3. CASE s = "Connect"
    <3>. DEFINE a == [g EXCEPT !.state = "Active", !.accept = TRUE]
                c == [g EXCEPT !.accept = TRUE]
    <3>1. /\ a \in FSM /\ a.state = "Active" /\ a.peerConn = g.peerConn /\ a.negotiated = g.negotiated
          /\ a.close = g.close /\ a.hold = g.hold /\ a.armed = g.armed
      BY <2>1 DEF FSM, BGPFSMState
    <3>2. /\ c \in FSM /\ c.state = s /\ c.peerConn = g.peerConn /\ c.negotiated = g.negotiated
          /\ c.close = g.close /\ c.hold = g.hold /\ c.armed = g.armed
      BY <2>1 DEF FSM
    <3>3. e = a \/ e = InitiateConnToPeer(c)
      BY <2>3 DEF Enter
    <3>. HIDE DEF a, c, e
    <3>. QED
      BY <1>1, <2>1, <2>3, <3>1, <3>2, <3>3, DialFacts DEF SameSession
  <2>4. CASE s \notin {"Idle", "Connect"}
    BY <1>1, <2>1, <2>4 DEF FSM, Enter, BGPFSMState
  <2>. QED
    BY <2>2, <2>3, <2>4
<1>3. ChangeState(f, s) = [e EXCEPT !.active = (s = "Established")]
  BY DEF ChangeState
<1>. HIDE DEF l, e
<1>. QED
  BY <1>1, <1>2, <1>3 DEF FSM

LEMMA OpenConnectionFacts ==
    ASSUME NEW f \in FSM, NEW dir \in {"in", "out"}, ~f.close, f.state \in {"Connect", "Active"}
    PROVE  LET g == OpenConnection(f, dir) IN
           /\ g \in FSM /\ g.state = "OpenSent" /\ g.peerConn = dir /\ ~g.close /\ ~g.active
           /\ g.hold = ConfigHold /\ g.negotiated = ConfigHold /\ "hold" \in g.armed
<1>. DEFINE a == StopTimer(f, "connectRetry")
            b == [a EXCEPT !.peerConn = dir, !.hold = ConfigHold, !.negotiated = ConfigHold]
            c == StartHoldTimer(b)
<1>1. a \in FSM /\ SameSession(f, a)
  BY TimerFacts DEF Timer
<1>2. /\ b \in FSM /\ b.state = f.state /\ b.peerConn = dir /\ b.close = f.close
      /\ b.hold = ConfigHold /\ b.negotiated = ConfigHold
  <2>. HIDE DEF a
  <2>. QED
    BY <1>1 DEF FSM, SameSession
<1>3. c \in FSM /\ SameSession(b, c) /\ "hold" \in c.armed
  <2>. HIDE DEF b
  <2>1. c = StartTimer(b, "hold")
    BY <1>2, HoldAssumption DEF StartHoldTimer
  <2>. QED
    BY <1>2, <2>1, TimerFacts DEF Timer
<1>. HIDE DEF c
<1>4. OpenConnection(f, dir) = ChangeState(c, "OpenSent")
  BY DEF OpenConnection, c
<1>. HIDE DEF b
<1>. QED
  BY <1>2, <1>3, <1>4, ChangeStateFacts DEF SameSession, BGPFSMState

\* An FSM without a session, in which StartFSM takes events.
Outside(f) == f.state \notin Session /\ f.peerConn = "none" /\ ~f.active /\ ~f.close

\* An event outside a session is ignored, or it leaves a machine whose timer
\* has just been started; only a connection begins a session.
LEMMA OutsideFacts ==
    ASSUME NEW f \in FSM, Outside(f), NEW e, NEW dir,
           e = "TcpConn" => dir \in {"in", "out"}
    PROVE  LET h == processEvent(f, e, dir) IN
           /\ h \in FSM /\ ~h.close /\ ~h.active /\ HoldTimes(h)
           /\ \/ h = f /\ (f.state = "Idle" <=> e \notin AutoStarts)
              \/ Fresh(h)
           /\ \/ Outside(h)
              \/ h.state = "OpenSent" /\ h.peerConn = dir /\ e = "TcpConn"
<1>. DEFINE h == processEvent(f, e, dir)
<1>. USE DEF Outside
<1>1. \A g \in FSM : SameSession(f, g) /\ "connectRetry" \in g.armed =>
          \A s \in {"Connect", "Active"} :
             LET c == ChangeState(g, s) IN c \in FSM /\ Outside(c) /\ Fresh(c) /\ HoldTimes(c)
  BY ChangeStateFacts DEF SameSession, Fresh, HoldTimes, Session, BGPFSMState
<1>2. \A g \in FSM : SameSession(f, g) =>
          LET c == ChangeState(g, "Idle") IN c \in FSM /\ Outside(c) /\ Fresh(c) /\ HoldTimes(c)
  BY ChangeStateFacts DEF SameSession, Fresh, HoldTimes, Session, BGPFSMState
<1>3. \A g \in FSM : SameSession(f, g) =>
          /\ StartTimer(g, "connectRetry") \in FSM /\ SameSession(f, StartTimer(g, "connectRetry"))
          /\ "connectRetry" \in StartTimer(g, "connectRetry").armed
          /\ StopTimer(g, "connectRetry") \in FSM /\ SameSession(f, StopTimer(g, "connectRetry"))
          /\ StopConnToPeer(g) \in FSM /\ SameSession(f, StopConnToPeer(g))
          /\ StopConnToPeer(g).armed = g.armed
          /\ InitiateConnToPeer(g) \in FSM /\ SameSession(f, InitiateConnToPeer(g))
          /\ InitiateConnToPeer(g).armed = g.armed
  BY TimerFacts, DialFacts DEF SameSession, Timer
<1>4. SameSession(f, f)
  BY DEF SameSession
<1>5. HoldTimes(f)
  BY DEF HoldTimes, Session
<1>6. CASE f.state = "Idle"
  <2>1. h = IdleState(f, e)
    BY <1>6 DEF processEvent
  <2>. HIDE DEF h
  <2>. QED
    BY <1>1, <1>3, <1>4, <1>5, <1>6, <2>1 DEF IdleState, AutoStarts, h
<1>7. ASSUME f.state \in {"Connect", "Active"}, e = "TcpConn"
      PROVE  /\ OpenConnection(f, dir) \in FSM /\ ~OpenConnection(f, dir).close
             /\ ~OpenConnection(f, dir).active /\ HoldTimes(OpenConnection(f, dir))
             /\ Fresh(OpenConnection(f, dir))
             /\ OpenConnection(f, dir).state = "OpenSent" /\ OpenConnection(f, dir).peerConn = dir
  BY <1>7, OpenConnectionFacts DEF HoldTimes, Fresh, Session
<1>8. CASE f.state = "Connect"
  <2>1. h = ConnectState(f, e, dir)
    BY <1>8 DEF processEvent
  <2>2. CASE e \in AutoStarts
    BY <1>5, <1>8, <2>1, <2>2 DEF ConnectState, AutoStarts
  <2>3. CASE e = "ConnRetryTimerExp"
    <3>. DEFINE g == InitiateConnToPeer(StartTimer(StopConnToPeer(f), "connectRetry"))
    <3>1. g \in FSM /\ SameSession(f, g) /\ "connectRetry" \in g.armed
      BY <1>3, <1>4
    <3>2. h = g
      BY <2>1, <2>3 DEF ConnectState
    <3>. QED
      BY <1>8, <3>1, <3>2 DEF SameSession, Fresh, HoldTimes, Session
  <2>4. CASE e = "TcpConn"
    BY <1>7, <1>8, <2>1, <2>4 DEF ConnectState
  <2>5. CASE e \notin AutoStarts \cup {"ConnRetryTimerExp", "TcpConn"}
    <3>1. h = ChangeState(StopConnToPeer(StopTimer(f, "connectRetry")), "Idle")
      BY <2>1, <2>5 DEF ConnectState, AutoStarts
    <3>. QED
      BY <1>2, <1>3, <1>4, <3>1
  <2>. QED
    BY <2>2, <2>3, <2>4, <2>5
<1>9. CASE f.state = "Active"
  <2>1. h = ActiveState(f, e, dir)
    BY <1>9 DEF processEvent
  <2>2. CASE e \in AutoStarts
    BY <1>5, <1>9, <2>1, <2>2 DEF ActiveState, AutoStarts
  <2>3. CASE e = "ConnRetryTimerExp"
    BY <1>1, <1>3, <1>4, <2>1, <2>3 DEF ActiveState
  <2>4. CASE e = "TcpConn"
    BY <1>7, <1>9, <2>1, <2>4 DEF ActiveState
  <2>5. CASE e = "TcpConnFails"
    BY <1>2, <1>3, <1>4, <2>1, <2>5 DEF ActiveState
  <2>6. CASE e \notin AutoStarts \cup {"ConnRetryTimerExp", "TcpConn", "TcpConnFails"}
    <3>1. h = ChangeState(StopConnToPeer(StopTimer(f, "connectRetry")), "Idle")
      BY <2>1, <2>6 DEF ActiveState, AutoStarts
    <3>. QED
      BY <1>2, <1>3, <1>4, <3>1
  <2>. QED
    BY <2>2, <2>3, <2>4, <2>5, <2>6
<1>. QED
  BY <1>6, <1>8, <1>9 DEF FSM, BGPFSMState, Session

\* What a harmless event keeps of a session: the state stays one of a session,
\* and a timer that runs goes on running unless the hold time is 0.
LEMMA SessionFacts ==
    ASSUME NEW f \in FSM, f.state \in Session, ~f.close, HoldTimes(f),
           f.active => f.state = "Established",
           NEW e, NEW dir, e \in Harmless(f.state)
    PROVE  LET h == processEvent(f, e, dir) IN
           /\ h \in FSM /\ ~h.close /\ HoldTimes(h) /\ h.state \in Session
           /\ h.active => h.state = "Established"
           /\ h.peerConn = f.peerConn /\ h.negotiated = f.negotiated
           /\ h.state = "OpenSent" <=> f.state = "OpenSent"
           /\ "hold" \in f.armed => "hold" \in h.armed \/ h.negotiated = 0
           /\ "keepAlive" \in f.armed \/ e = "KeepAliveTimerExp" =>
                 h.state = "OpenSent" \/ "keepAlive" \in h.armed \/ h.negotiated = 0
           /\ f.state = "OpenSent" => h = f
<1>. DEFINE h == processEvent(f, e, dir)
<1>1. h = SessionState(f, e)
  BY DEF processEvent, Session
<1>2. ConfigHold # 0
  BY HoldAssumption
<1>. DEFINE k == StartKeepAliveTimer(f)
            d == StartHoldTimer(f)
<1>3. /\ k \in FSM /\ SameSession(f, k)
      /\ f.state # "OpenSent" => "keepAlive" \in k.armed \/ k.negotiated = 0
      /\ "hold" \in f.armed => "hold" \in k.armed
  BY <1>2, TimerFacts DEF StartKeepAliveTimer, Timer, Session, HoldTimes, SameSession
<1>4. /\ d \in FSM /\ SameSession(f, d)
      /\ "hold" \in d.armed \/ d.negotiated = 0
      /\ "keepAlive" \in f.armed => "keepAlive" \in d.armed
  BY <1>2, TimerFacts DEF StartHoldTimer, Timer, Session, HoldTimes, SameSession
<1>. HIDE DEF k, d
<1>5. CASE e = "KeepAliveTimerExp"
  <2>1. h = k
    BY <1>1, <1>5 DEF SessionState, k
  <2>2. f.state # "OpenSent"
    BY <1>5 DEF Harmless
  <2>. QED
    BY <1>3, <2>1, <2>2 DEF SameSession, HoldTimes
<1>6. CASE e = "KeepAliveMsg" /\ f.state = "OpenConfirm"
  <2>1. h = ChangeState(d, "Established")
    BY <1>1, <1>6 DEF SessionState, d
  <2>. QED
    BY <1>4, <1>6, <2>1, ChangeStateFacts DEF SameSession, HoldTimes, Session, BGPFSMState
<1>7. CASE e \in {"KeepAliveMsg", "UpdateMsg"} /\ f.state = "Established"
  <2>1. h = d
    BY <1>1, <1>7 DEF SessionState, d
  <2>. QED
    BY <1>4, <1>7, <2>1 DEF SameSession, HoldTimes
<1>8. CASE /\ e # "KeepAliveTimerExp" /\ ~(e = "KeepAliveMsg" /\ f.state = "OpenConfirm")
           /\ ~(e \in {"KeepAliveMsg", "UpdateMsg"} /\ f.state = "Established")
  <2>1. h = f
    BY <1>1, <1>8 DEF SessionState
  <2>. QED
    BY <1>8, <2>1
<1>9. ASSUME f.state = "OpenSent" PROVE h = f
  <2>1. e \notin {"KeepAliveTimerExp", "KeepAliveMsg", "UpdateMsg"}
    BY <1>9 DEF Harmless
  <2>. QED
    BY <1>1, <1>9, <2>1 DEF SessionState
<1>. QED
  BY <1>5, <1>6, <1>7, <1>8, <1>9

\* The OPEN of the peer, accepted by the manager or not.
LEMMA OpenMessageFacts ==
    ASSUME NEW f \in FSM, f.state = "OpenSent", ~f.close, ~f.active, HoldTimes(f),
           NEW announced \in PeerHolds, NEW accepted \in BOOLEAN
    PROVE  LET h == ProcessOpenMessage(f, announced, accepted) IN
           /\ h \in FSM /\ ~h.close /\ ~h.active /\ HoldTimes(h)
           /\ h.state \in {"OpenSent", "OpenConfirm"} /\ h.peerConn = f.peerConn
           /\ \/ Fresh(h)
              \/ /\ h.state = "OpenSent" /\ ("hold" \in f.armed => "hold" \in h.armed)
                 /\ f.negotiated = 0 => h.negotiated = 0
<1>. DEFINE a == StopTimer(f, "connectRetry")
            v == IF announced < f.hold /\ announced \notin 1..2 THEN announced ELSE f.hold
            g == [a EXCEPT !.hold = v, !.negotiated = v]
            k == StartKeepAliveTimer(g)
            d == StartHoldTimer(k)
<1>1. a \in FSM /\ SameSession(f, a) /\ a.armed = f.armed \ {"connectRetry"}
  BY TimerFacts DEF Timer
<1>2. v \in PeerHolds \cup {ConfigHold} /\ (f.negotiated = 0 => v = 0)
  <2>1. f.hold \in PeerHolds \cup {ConfigHold} /\ f.hold = f.negotiated
    BY DEF FSM, HoldTimes
  <2>2. announced \in Nat
    BY HoldAssumption
  <2>. QED
    BY <2>1, <2>2
<1>. HIDE DEF a, v
<1>3. /\ g \in FSM /\ g.state = "OpenSent" /\ g.peerConn = f.peerConn /\ ~g.close /\ ~g.active
      /\ g.hold = v /\ g.negotiated = v /\ g.armed = f.armed \ {"connectRetry"}
  BY <1>1, <1>2 DEF FSM, SameSession
<1>. HIDE DEF g
<1>4. k \in FSM /\ SameSession(g, k) /\ ("keepAlive" \in k.armed \/ k.negotiated = 0)
  BY <1>3, TimerFacts DEF StartKeepAliveTimer, Timer, SameSession
<1>. HIDE DEF k
<1>5. /\ d \in FSM /\ SameSession(k, d) /\ ("hold" \in d.armed \/ d.negotiated = 0)
      /\ "keepAlive" \in d.armed \/ d.negotiated = 0
  BY <1>3, <1>4, TimerFacts DEF StartHoldTimer, Timer, SameSession
<1>. HIDE DEF d
<1>6. ProcessOpenMessage(f, announced, accepted) =
        IF accepted THEN ChangeState(d, "OpenConfirm") ELSE g
  BY DEF ProcessOpenMessage, a, v, g, k, d
<1>7. CASE accepted
  <2>1. ~d.close /\ d.peerConn = f.peerConn /\ d.hold = d.negotiated /\ d.state = "OpenSent"
    BY <1>3, <1>4, <1>5 DEF SameSession
  <2>. DEFINE c == ChangeState(d, "OpenConfirm")
  <2>2. /\ c \in FSM /\ ~c.close /\ ~c.active /\ c.state = "OpenConfirm" /\ c.peerConn = f.peerConn
        /\ c.hold = c.negotiated /\ c.negotiated = d.negotiated /\ c.armed = d.armed
    BY <1>5, <2>1, ChangeStateFacts DEF BGPFSMState
  <2>. HIDE DEF c
  <2>3. ProcessOpenMessage(f, announced, accepted) = c
    BY <1>6, <1>7 DEF c
  <2>4. HoldTimes(c) /\ Fresh(c)
    BY <1>5, <2>2 DEF HoldTimes, Fresh
  <2>. QED
    BY <2>2, <2>3, <2>4
<1>8. CASE ~accepted
  <2>1. ProcessOpenMessage(f, announced, accepted) = g
    BY <1>6, <1>8
  <2>2. HoldTimes(g)
    BY <1>3 DEF HoldTimes
  <2>. QED
    BY <1>2, <1>3, <2>1, <2>2
<1>. QED
  BY <1>7, <1>8

LEMMA BeginTearDownFacts ==
    ASSUME NEW f \in FSM, NEW e
    PROVE  BeginTearDown(f, e) \in FSM /\ SameSession(f, BeginTearDown(f, e))
BY DEF FSM, BeginTearDown, StopTimer, SameSession

LEMMA EndTearDownFacts ==
    ASSUME NEW f \in FSM, NEW toActive \in BOOLEAN
    PROVE  LET h == EndTearDown(f, toActive) IN
           /\ h \in FSM /\ h.peerConn = "none" /\ h.close = f.close
           /\ f.close => SameSession([f EXCEPT !.peerConn = "none"], h)
           /\ ~f.close => Outside(h) /\ Fresh(h) /\ HoldTimes(h)
<1>. DEFINE n == [f EXCEPT !.peerConn = "none"]
            g == StopConnToPeer(n)
            c == StartTimer(g, "connectRetry")
<1>1. n \in FSM /\ n.peerConn = "none" /\ n.close = f.close
  BY DEF FSM
<1>2. g \in FSM /\ SameSession(n, g)
  <2>. HIDE DEF n
  <2>. QED
    BY <1>1, DialFacts
<1>3. c \in FSM /\ SameSession(g, c) /\ "connectRetry" \in c.armed
  <2>. HIDE DEF g
  <2>. QED
    BY <1>2, TimerFacts DEF Timer
<1>4. EndTearDown(f, toActive) = IF toActive THEN ChangeState(c, "Active") ELSE ChangeState(g, "Idle")
  BY DEF EndTearDown
<1>. HIDE DEF n, g, c
<1>5. CASE f.close
  <2>1. ChangeState(c, "Active") = c /\ ChangeState(g, "Idle") = g
    BY <1>1, <1>2, <1>3, <1>5 DEF ChangeState, SameSession
  <2>. QED
    BY <1>1, <1>2, <1>3, <1>4, <1>5, <2>1 DEF SameSession, n
<1>6. CASE ~f.close
  <2>1. ~c.close /\ ~g.close /\ c.peerConn = "none" /\ g.peerConn = "none"
    BY <1>1, <1>2, <1>3, <1>6 DEF SameSession
  <2>. DEFINE h == EndTearDown(f, toActive)
  <2>2. /\ h \in FSM /\ h.peerConn = "none" /\ ~h.close /\ ~h.active
        /\ \/ h.state = "Active" /\ "connectRetry" \in h.armed
           \/ h.state = "Idle" /\ "restart" \in h.armed
    <3>1. CASE toActive
      BY <1>3, <1>4, <2>1, <3>1, ChangeStateFacts DEF BGPFSMState
    <3>2. CASE ~toActive
      BY <1>2, <1>4, <2>1, <3>2, ChangeStateFacts DEF BGPFSMState
    <3>. QED
      BY <3>1, <3>2
  <2>. HIDE DEF h
  <2>3. h.close = f.close
    BY <1>6, <2>2 DEF FSM
  <2>4. Outside(h) /\ Fresh(h) /\ HoldTimes(h)
    BY <2>2 DEF Outside, Fresh, HoldTimes, Session
  <2>. QED
    BY <1>6, <2>2, <2>3, <2>4 DEF h
<1>. QED
  BY <1>5, <1>6

-----------------------------------------------------------------------------
(* The steps of StartFSM                                                    *)

\* The parts of TypeOK that Process does not touch and the channels it is given.
RestOK ==
    /\ fired \subseteq Timer
    /\ outConnCh \in Nat /\ incoming \in BOOLEAN /\ closeCh \in BOOLEAN
    /\ bfdDown \in BOOLEAN /\ useBfd \in BOOLEAN
    /\ bfdCh \in Seq({"down", "up"}) /\ Len(bfdCh) <= MaxBfd

ChannelsOK(pkts, errs) ==
    /\ pkts \in Seq(Packet) /\ Len(pkts) <= RxCapacity
    /\ errs \in Seq({"dial", "conn", "stale"}) /\ Len(errs) <= ErrCapacity

\* The end of the connection in use is reported in one of the two channels.
Reason(pkts, errs) ==
    \/ \E i \in DOMAIN pkts : pkts[i].current /\ LastMessage(pkts[i].msg)
    \/ \E i \in DOMAIN errs : errs[i] = "conn"

\* Up to the wait for the reader everything but the timers is kept.
LEMMA TearDownStep ==
    ASSUME IInv, Select, NEW f \in FSM,
           f.state = fsm.state, f.peerConn = fsm.peerConn, f.hold = fsm.hold,
           f.negotiated = fsm.negotiated, f.active = fsm.active,
           NEW e, NEW dir, NEW again \in BOOLEAN, NEW pkts, NEW errs,
           TearsDown(f, e), Process(f, e, dir, again, pkts, errs),
           ChannelsOK(pkts, errs), RestOK'
    PROVE  IInv'
<1>. DEFINE b == BeginTearDown(f, e)
<1>1. b \in FSM /\ SameSession(f, b)
  BY BeginTearDownFacts
<1>. HIDE DEF b
<1>2. /\ fsm' = b /\ pktRxCh' = pkts /\ errCh' = errs /\ reader' = reader
      /\ pc' = [at |-> "clear", toActive |-> ToActive(f, e), again |-> again]
  BY DEF Process, b
<1>3. ToActive(f, e) \in BOOLEAN
  BY DEF ToActive
<1>4. TypeOK'
  BY <1>1, <1>2, <1>3 DEF IInv, TypeOK, ChannelsOK, RestOK
<1>5. ~Select' /\ pc'.at = "clear" /\ pc.at = "select"
  BY <1>2 DEF Select
<1>6. fsm.state \in Session /\ fsm'.state = fsm.state
  BY <1>1, <1>2 DEF TearsDown, SameSession
<1>7. HoldTimes(fsm)'
  BY <1>1, <1>2 DEF IInv, HoldTimes, SameSession
<1>8. ConnectionBelongsToSession'
  BY <1>1, <1>2, <1>5, <1>6 DEF IInv, ConnectionBelongsToSession, SameSession
<1>. QED
  BY <1>4, <1>5, <1>6, <1>7, <1>8 DEF IInv, Control, NoDeafSession

\* What Process does when the event does not tear a session down.
LEMMA ProcessCases ==
    ASSUME NEW f, NEW e, NEW dir, NEW again \in BOOLEAN, NEW pkts, NEW errs,
           ~TearsDown(f, e), ~f.close, Process(f, e, dir, again, pkts, errs)
    PROVE  /\ fsm' = IF again THEN processEvent(processEvent(f, e, dir), "AutoStart", dir)
                      ELSE processEvent(f, e, dir)
           /\ pc' = AtSelect /\ pktRxCh' = pkts /\ errCh' = errs
           /\ reader' = IF f.peerConn = "none" /\ fsm'.peerConn # "none" THEN Reading ELSE reader
BY DEF Process

\* A harmless event: the timers of the session go on, and the report of the end
\* of the connection, if there is one, stays in its channel.
LEMMA SessionStep ==
    ASSUME IInv, Select, NEW f \in FSM, SameSession(fsm, f), f.armed = fsm.armed,
           NEW e, NEW dir, NEW again \in BOOLEAN, NEW pkts, NEW errs,
           f.state \in Session, e \in Harmless(f.state),
           Process(f, e, dir, again, pkts, errs),
           ChannelsOK(pkts, errs), RestOK',
           Reason(pktRxCh, errCh) => Reason(pkts, errs),
           "hold" \in fired => "hold" \in fired',
           "keepAlive" \in fired => "keepAlive" \in fired' \/ e = "KeepAliveTimerExp"
    PROVE  IInv'
<1>. DEFINE g == processEvent(f, e, dir)
            h == processEvent(g, "AutoStart", dir)
<1>1. /\ ~f.close /\ HoldTimes(f) /\ (f.active => f.state = "Established")
      /\ f.peerConn # "none" /\ reader.at # "none" /\ ~TearsDown(f, e)
      /\ "hold" \in f.armed \cup fired \/ f.negotiated = 0
      /\ f.state # "OpenSent" => "keepAlive" \in f.armed \cup fired \/ f.negotiated = 0
  BY DEF IInv, Control, HoldTimes, ConnectionBelongsToSession, SameSession, Moving, Ticking,
         Session, TearsDown, Select
<1>2. /\ g \in FSM /\ ~g.close /\ HoldTimes(g) /\ g.state \in Session
      /\ g.active => g.state = "Established"
      /\ g.peerConn = f.peerConn /\ g.negotiated = f.negotiated
      /\ g.state = "OpenSent" <=> f.state = "OpenSent"
      /\ "hold" \in f.armed => "hold" \in g.armed \/ g.negotiated = 0
      /\ "keepAlive" \in f.armed \/ e = "KeepAliveTimerExp" =>
            g.state = "OpenSent" \/ "keepAlive" \in g.armed \/ g.negotiated = 0
  BY <1>1, SessionFacts
<1>. HIDE DEF g
<1>3. "AutoStart" \in Harmless(g.state)
  BY DEF Harmless
<1>4. /\ h \in FSM /\ ~h.close /\ HoldTimes(h) /\ h.state \in Session
      /\ h.active => h.state = "Established"
      /\ h.peerConn = g.peerConn /\ h.negotiated = g.negotiated
      /\ h.state = "OpenSent" <=> g.state = "OpenSent"
      /\ "hold" \in g.armed => "hold" \in h.armed \/ h.negotiated = 0
      /\ "keepAlive" \in g.armed =>
            h.state = "OpenSent" \/ "keepAlive" \in h.armed \/ h.negotiated = 0
  BY <1>2, <1>3, SessionFacts
<1>. HIDE DEF h
<1>5. fsm' = IF again THEN h ELSE g
  BY <1>1, ProcessCases DEF g, h
<1>6. pc' = AtSelect /\ pktRxCh' = pkts /\ errCh' = errs /\ reader' = reader
  BY <1>1, ProcessCases
<1>7. /\ fsm' \in FSM /\ ~fsm'.close /\ HoldTimes(fsm') /\ fsm'.state \in Session
      /\ fsm'.active => fsm'.state = "Established"
      /\ fsm'.peerConn = f.peerConn
      /\ "hold" \in fsm'.armed \cup fired' \/ fsm'.negotiated = 0
      /\ fsm'.state # "OpenSent" => "keepAlive" \in fsm'.armed \cup fired' \/ fsm'.negotiated = 0
  BY <1>1, <1>2, <1>4, <1>5
<1>8. TypeOK'
  BY <1>6, <1>7 DEF IInv, TypeOK, ChannelsOK, RestOK, AtSelect
<1>9. Moving'
  BY <1>7 DEF Moving, Ticking, Session
<1>10. NoDeafSession'
  <2>1. Select /\ fsm.state \in Session
    BY DEF SameSession
  <2>2. reader.at = "failed" => Reason(pktRxCh, errCh)
    BY <2>1 DEF IInv, NoDeafSession, Reason
  <2>3. reader'.at = "failed" => Reason(pktRxCh', errCh')
    BY <1>6, <2>2
  <2>. QED
    BY <2>3 DEF NoDeafSession, Reason
<1>11. pc'.at = "select"
  BY <1>6 DEF AtSelect
<1>12. ConnectionBelongsToSession'
  BY <1>1, <1>6, <1>7, <1>11 DEF ConnectionBelongsToSession
<1>. QED
  BY <1>7, <1>8, <1>9, <1>10, <1>11, <1>12 DEF IInv, Control, HoldTimes

\* An event outside a session: it begins a session, it starts a timer, or it is
\* ignored and then what moves the machine on is still there.
LEMMA OutsideStep ==
    ASSUME IInv, Select, NEW f \in FSM, SameSession(fsm, f), f.armed = fsm.armed,
           NEW e, NEW dir, NEW again \in BOOLEAN, NEW pkts, NEW errs,
           f.state \notin Session,
           e = "TcpConn" => dir \in {"in", "out"} /\ ~again,
           Process(f, e, dir, again, pkts, errs),
           ChannelsOK(pkts, errs), RestOK',
           "restart" \in fired => "restart" \in fired' \/ e \in AutoStarts,
           "connectRetry" \in fired => "connectRetry" \in fired' \/ e = "ConnRetryTimerExp",
           e \in AutoStarts => /\ f = fsm /\ errs = errCh
                              /\ outConnCh' = outConnCh /\ incoming' = incoming
    PROVE  IInv'
<1>. DEFINE g == processEvent(f, e, dir)
            h == processEvent(g, "AutoStart", dir)
<1>1. Outside(f) /\ ~f.close /\ ~TearsDown(f, e) /\ reader.at = "none" /\ Moving
  BY DEF IInv, Outside, Control, ConnectionBelongsToSession, SameSession, TearsDown, Session
<1>2. /\ g \in FSM /\ ~g.close /\ ~g.active /\ HoldTimes(g)
      /\ \/ g = f /\ (f.state = "Idle" <=> e \notin AutoStarts)
         \/ Fresh(g)
      /\ \/ Outside(g)
         \/ g.state = "OpenSent" /\ g.peerConn = dir /\ e = "TcpConn"
  BY <1>1, OutsideFacts
<1>. HIDE DEF g
<1>3. ASSUME again
      PROVE  /\ h \in FSM /\ ~h.close /\ ~h.active /\ HoldTimes(h)
             /\ \/ h = g /\ g.state # "Idle"
                \/ Fresh(h)
             /\ Outside(h)
  <2>1. Outside(g)
    BY <1>2, <1>3
  <2>. QED
    BY <1>2, <2>1, OutsideFacts DEF AutoStarts
<1>. HIDE DEF h
<1>4. fsm' = IF again THEN h ELSE g
  BY <1>1, ProcessCases DEF g, h
<1>5. /\ pc' = AtSelect /\ pktRxCh' = pkts /\ errCh' = errs
      /\ reader' = IF fsm'.peerConn # "none" THEN Reading ELSE reader
  BY <1>1, ProcessCases DEF Outside
<1>6. /\ fsm' \in FSM /\ ~fsm'.close /\ ~fsm'.active /\ HoldTimes(fsm')
      /\ \/ fsm' = f /\ (f.state = "Idle" <=> e \notin AutoStarts)
         \/ Fresh(fsm')
      /\ \/ Outside(fsm')
         \/ fsm'.state = "OpenSent" /\ fsm'.peerConn \in {"in", "out"}
  BY <1>2, <1>3, <1>4
<1>7. pc'.at = "select"
  BY <1>5 DEF AtSelect
<1>8. ConnectionBelongsToSession' /\ NoDeafSession'
  <2>1. CASE Outside(fsm')
    <3>1. /\ fsm'.state \notin Session /\ fsm'.peerConn = "none" /\ reader'.at = "none"
      BY <1>1, <1>5, <2>1 DEF Outside
    <3>. QED
      BY <1>6, <3>1 DEF ConnectionBelongsToSession, NoDeafSession
  <2>2. CASE fsm'.state = "OpenSent" /\ fsm'.peerConn \in {"in", "out"}
    <3>1. reader'.at = "reading"
      BY <1>5, <2>2 DEF Reading
    <3>. QED
      BY <1>6, <1>7, <2>2, <3>1 DEF ConnectionBelongsToSession, NoDeafSession, Session
  <2>. QED
    BY <1>6, <2>1, <2>2
<1>9. TypeOK'
  BY <1>5, <1>6 DEF IInv, TypeOK, ChannelsOK, RestOK, AtSelect, Reading
<1>10. Moving'
  <2>1. CASE Fresh(fsm')
    BY <1>6, <2>1 DEF Moving, Ticking, Fresh, FSM, BGPFSMState
  <2>2. CASE fsm' = f /\ f.state = "Idle" /\ e \notin AutoStarts
    BY <1>1, <2>2 DEF Moving, Ticking, SameSession, Session
  <2>3. CASE fsm' = f /\ f.state # "Idle" /\ e \in AutoStarts
    <3>1. fsm' = fsm /\ errCh' = errCh /\ outConnCh' = outConnCh /\ incoming' = incoming
      BY <1>5, <2>3
    <3>2. FirstAttempt => FirstAttempt'
      BY <3>1 DEF FirstAttempt
    <3>3. "connectRetry" \in fired => "connectRetry" \in fired'
      BY <2>3 DEF AutoStarts
    <3>. QED
      BY <1>1, <2>3, <3>1, <3>2, <3>3 DEF Moving, Ticking, Session
  <2>. QED
    BY <1>6, <2>1, <2>2, <2>3
<1>. QED
  BY <1>6, <1>7, <1>8, <1>9, <1>10 DEF IInv, Control, HoldTimes

\* Process for the events of an FSM that is not to be closed.
LEMMA ProcessStep ==
    ASSUME IInv, Select, NEW f, f = fsm \/ f = StopConnToPeer(fsm),
           NEW e, NEW dir, NEW again \in BOOLEAN, NEW pkts, NEW errs,
           Process(f, e, dir, again, pkts, errs),
           ChannelsOK(pkts, errs), RestOK',
           e = "TcpConn" => dir \in {"in", "out"} /\ ~again,
           fsm.state \in Session /\ Reason(pktRxCh, errCh) => Reason(pkts, errs) \/ TearsDown(f, e),
           "restart" \in fired => "restart" \in fired' \/ e \in AutoStarts,
           "connectRetry" \in fired => "connectRetry" \in fired' \/ e = "ConnRetryTimerExp",
           "hold" \in fired => "hold" \in fired' \/ e = "HoldTimerExp",
           "keepAlive" \in fired => "keepAlive" \in fired' \/ e = "KeepAliveTimerExp",
           e \in AutoStarts => /\ f = fsm /\ errs = errCh
                              /\ outConnCh' = outConnCh /\ incoming' = incoming
    PROVE  IInv'
<1>1. fsm \in FSM
  BY DEF IInv, TypeOK
<1>2. f \in FSM /\ SameSession(fsm, f) /\ f.armed = fsm.armed
  BY <1>1, DialFacts DEF SameSession
<1>3. CASE TearsDown(f, e)
  BY <1>2, <1>3, TearDownStep DEF SameSession
<1>4. CASE f.state \in Session /\ e \in Harmless(f.state)
  <2>1. ~TearsDown(f, e) /\ e # "HoldTimerExp"
    BY <1>4 DEF TearsDown, Harmless
  <2>2. fsm.state \in Session
    BY <1>2, <1>4 DEF SameSession
  <2>. QED
    BY <1>2, <1>4, <2>1, <2>2, SessionStep
<1>5. CASE f.state \notin Session
  BY <1>2, <1>5, OutsideStep
<1>. QED
  BY <1>3, <1>4, <1>5 DEF TearsDown

\* An FSM that is told to close tears its session down, or it is closed where it is.
LEMMA CloseStep ==
    ASSUME IInv, Close
    PROVE  IInv'
<1>. DEFINE f == [fsm EXCEPT !.close = TRUE]
            h == processEvent(f, "ManualStop", "none")
<1>1. /\ Select /\ Process(f, "ManualStop", "none", FALSE, pktRxCh, errCh)
      /\ closeCh' = FALSE /\ UNCHANGED <<fired, outConnCh, incoming, env>>
  BY DEF Close
<1>2. fsm \in FSM /\ ChannelsOK(pktRxCh, errCh) /\ RestOK'
  BY <1>1 DEF IInv, TypeOK, ChannelsOK, RestOK, env
<1>3. /\ f \in FSM /\ f.close
      /\ f.state = fsm.state /\ f.peerConn = fsm.peerConn /\ f.hold = fsm.hold
      /\ f.negotiated = fsm.negotiated /\ f.active = fsm.active
  BY <1>2 DEF FSM
<1>. HIDE DEF f
<1>4. CASE TearsDown(f, "ManualStop")
  BY <1>1, <1>2, <1>3, <1>4, TearDownStep
<1>5. CASE ~TearsDown(f, "ManualStop")
  <2>1. f.state \notin Session
    BY <1>5 DEF TearsDown, Harmless
  <2>2. /\ StopTimer(f, "connectRetry") \in FSM
        /\ SameSession(f, StopTimer(f, "connectRetry"))
    BY <1>3, TimerFacts DEF Timer
  <2>. DEFINE s == StopConnToPeer(StopTimer(f, "connectRetry"))
  <2>3. s \in FSM /\ SameSession(f, s)
    BY <2>2, DialFacts DEF SameSession
  <2>4. h = f \/ h = ChangeState(s, "Idle")
    <3>1. CASE f.state = "Idle"
      BY <3>1 DEF processEvent, IdleState
    <3>2. CASE f.state = "Connect"
      BY <3>2 DEF processEvent, ConnectState
    <3>3. CASE f.state = "Active"
      BY <3>3 DEF processEvent, ActiveState
    <3>. QED
      BY <1>3, <2>1, <3>1, <3>2, <3>3 DEF FSM, BGPFSMState, Session
  <2>. HIDE DEF s
  <2>5. h \in FSM /\ SameSession(f, h)
    BY <1>3, <2>3, <2>4 DEF ChangeState, SameSession
  <2>. HIDE DEF h
  <2>6. fsm.peerConn = "none" /\ reader.at = "none" /\ ~fsm.active
    BY <1>1, <1>3, <2>1 DEF IInv, ConnectionBelongsToSession, Session
  <2>7. /\ fsm' = h /\ pc' = [at |-> "closed"] /\ reader' = reader
        /\ pktRxCh' = pktRxCh /\ errCh' = errCh
    <3>1. /\ fsm' = h /\ pc' = [at |-> "closed"]
          /\ reader' = IF f.peerConn = "none" /\ h.peerConn # "none" THEN Reading ELSE reader
          /\ pktRxCh' = pktRxCh /\ errCh' = errCh
      BY <1>1, <1>3, <1>5 DEF Process, h
    <3>. QED
      BY <2>5, <3>1 DEF SameSession
  <2>8. TypeOK'
    BY <1>2, <2>5, <2>7 DEF IInv, TypeOK, ChannelsOK, RestOK
  <2>9. fsm'.state \notin Session /\ fsm'.peerConn = "none" /\ ~fsm'.active /\ pc'.at = "closed"
    BY <1>3, <2>1, <2>5, <2>6, <2>7 DEF SameSession
  <2>. QED
    BY <2>6, <2>7, <2>8, <2>9
       DEF IInv, Select, Control, HoldTimes, NoDeafSession, ConnectionBelongsToSession, Session
<1>. QED
  BY <1>4, <1>5

LEMMA TailFacts ==
    ASSUME NEW S, NEW q \in Seq(S), q # <<>>
    PROVE  /\ Tail(q) \in Seq(S) /\ Len(Tail(q)) <= Len(q) /\ Head(q) \in S /\ Head(q) = q[1]
           /\ \A i \in DOMAIN q : i = 1 \/ (i - 1 \in DOMAIN Tail(q) /\ Tail(q)[i - 1] = q[i])
OBVIOUS

LEMMA AppendFacts ==
    ASSUME NEW S, NEW q \in Seq(S), NEW x \in S, NEW n \in Nat, Len(q) < n
    PROVE  /\ Append(q, x) \in Seq(S) /\ Len(Append(q, x)) <= n
           /\ DOMAIN Append(q, x) = DOMAIN q \cup {Len(q) + 1}
           /\ Append(q, x)[Len(q) + 1] = x
           /\ \A i \in DOMAIN q : Append(q, x)[i] = q[i]
OBVIOUS

LEMMA FinishClearStep ==
    ASSUME IInv, FinishClear
    PROVE  IInv'
<1>. DEFINE g == EndTearDown(fsm, pc.toActive)
            h == processEvent(g, "AutoStart", "none")
<1>1. /\ fsm \in FSM /\ pc.toActive \in BOOLEAN /\ pc.again \in BOOLEAN /\ fsm.state \in Session
      /\ HoldTimes(fsm) /\ (fsm.active => fsm.state = "Established")
  BY DEF IInv, TypeOK, FinishClear, Control, ConnectionBelongsToSession
<1>2. /\ g \in FSM /\ g.peerConn = "none" /\ g.close = fsm.close
      /\ fsm.close => SameSession([fsm EXCEPT !.peerConn = "none"], g)
      /\ ~fsm.close => Outside(g) /\ Fresh(g) /\ HoldTimes(g)
  BY <1>1, EndTearDownFacts
<1>. HIDE DEF g
<1>3. /\ fsm' = IF pc.again THEN h ELSE g
      /\ pc' = IF fsm.close THEN [at |-> "closed"] ELSE AtSelect
      /\ reader' = NoReader /\ Forget
      /\ UNCHANGED <<fired, outConnCh, incoming, closeCh, env>>
  BY DEF FinishClear, g
<1>4. ChannelsOK(pktRxCh', errCh') /\ RestOK'
  <2>1. /\ pktRxCh \in Seq(Packet) /\ Len(pktRxCh) <= RxCapacity
        /\ errCh \in Seq({"dial", "conn", "stale"}) /\ Len(errCh) <= ErrCapacity
    BY DEF IInv, TypeOK
  <2>2. \A p \in Packet : [p EXCEPT !.current = FALSE] \in Packet
    BY DEF Packet
  <2>3. pktRxCh' \in Seq(Packet) /\ Len(pktRxCh') = Len(pktRxCh)
    BY <1>3, <2>1, <2>2 DEF Forget
  <2>4. errCh' \in Seq({"dial", "conn", "stale"}) /\ Len(errCh') = Len(errCh)
    BY <1>3, <2>1 DEF Forget
  <2>. QED
    BY <1>3, <2>1, <2>3, <2>4 DEF IInv, TypeOK, ChannelsOK, RestOK, env
<1>5. reader'.at = "none" /\ reader' \in [at : {"none", "reading", "error", "failed"}]
  BY <1>3 DEF NoReader
<1>6. CASE fsm.close
  <2>1. /\ g.state = fsm.state /\ g.hold = fsm.hold /\ g.negotiated = fsm.negotiated
        /\ g.active = fsm.active
    BY <1>1, <1>2, <1>6 DEF SameSession, FSM
  <2>2. h = g
    BY <1>1, <2>1 DEF processEvent, SessionState, Session
  <2>3. fsm' = g
    BY <1>3, <2>2
  <2>4. pc' = [at |-> "closed"] /\ pc'.at = "closed"
    BY <1>3, <1>6
  <2>5. TypeOK'
    BY <1>2, <1>4, <1>5, <2>3, <2>4 DEF TypeOK, ChannelsOK, RestOK
  <2>6. HoldTimes(fsm)'
    BY <1>1, <2>1, <2>3 DEF HoldTimes
  <2>. QED
    BY <1>1, <1>2, <1>5, <2>1, <2>3, <2>4, <2>5, <2>6
       DEF IInv, Select, Control, NoDeafSession, ConnectionBelongsToSession
<1>7. CASE ~fsm.close
  <2>1. /\ h \in FSM /\ HoldTimes(h) /\ Outside(h)
        /\ h = g \/ Fresh(h)
    BY <1>2, <1>7, OutsideFacts
  <2>. HIDE DEF h
  <2>2. fsm' \in FSM /\ HoldTimes(fsm') /\ Outside(fsm') /\ Fresh(fsm')
    BY <1>2, <1>3, <1>7, <2>1
  <2>3. pc' = AtSelect /\ pc'.at = "select"
    BY <1>3, <1>7 DEF AtSelect
  <2>4. TypeOK'
    BY <1>4, <1>5, <2>2, <2>3 DEF TypeOK, ChannelsOK, RestOK, AtSelect
  <2>5. Moving'
    BY <2>2 DEF Moving, Ticking, Fresh, FSM, BGPFSMState
  <2>. QED
    BY <1>5, <2>2, <2>3, <2>4, <2>5
       DEF IInv, HoldTimes, Control, NoDeafSession, ConnectionBelongsToSession, Outside
<1>. QED
  BY <1>6, <1>7

LEMMA OutConnStep ==
    ASSUME IInv, OutConn
    PROVE  IInv'
<1>1. /\ Select /\ outConnCh > 0 /\ outConnCh' = outConnCh - 1
      /\ UNCHANGED <<fired, incoming, closeCh, env>>
  BY DEF OutConn
<1>2. ChannelsOK(pktRxCh, errCh) /\ RestOK'
  BY <1>1 DEF IInv, TypeOK, ChannelsOK, RestOK, env
<1>3. CASE fsm.outTCPConn
  <2>1. Process(StopConnToPeer(fsm), "TcpConn", "out", FALSE, pktRxCh, errCh)
    BY <1>3 DEF OutConn
  <2>. QED
    BY <1>1, <1>2, <2>1, ProcessStep DEF AutoStarts
<1>4. CASE ~fsm.outTCPConn
  <2>1. UNCHANGED <<fsm, pc, reader, pktRxCh, errCh, fired, incoming>>
    BY <1>1, <1>4 DEF OutConn
  <2>2. TypeOK'
    BY <1>2, <2>1 DEF IInv, TypeOK, RestOK
  <2>3. ~FirstAttempt
    BY <1>4 DEF FirstAttempt
  <2>4. Moving'
    BY <1>1, <2>1, <2>3 DEF IInv, Moving, Ticking
  <2>. QED
    BY <2>1, <2>2, <2>4
       DEF IInv, Select, HoldTimes, Control, NoDeafSession, ConnectionBelongsToSession
<1>. QED
  BY <1>3, <1>4

LEMMA OutConnErrStep ==
    ASSUME IInv, OutConnErr
    PROVE  IInv'
<1>1. /\ Select /\ errCh # <<>> /\ errCh \in Seq({"dial", "conn", "stale"})
      /\ UNCHANGED <<fired, outConnCh, incoming, closeCh, env>>
  BY DEF OutConnErr, IInv, TypeOK
<1>2. /\ Tail(errCh) \in Seq({"dial", "conn", "stale"}) /\ Len(Tail(errCh)) <= Len(errCh)
      /\ Head(errCh) = errCh[1]
      /\ \A i \in DOMAIN errCh :
            i = 1 \/ (i - 1 \in DOMAIN Tail(errCh) /\ Tail(errCh)[i - 1] = errCh[i])
  BY <1>1, TailFacts
<1>3. Len(Tail(errCh)) <= ErrCapacity
  <2>1. Len(errCh) <= ErrCapacity /\ ErrCapacity \in Nat
    BY CapacityAssumption DEF IInv, TypeOK
  <2>2. Len(errCh) \in Nat /\ Len(Tail(errCh)) \in Nat
    BY <1>1, <1>2
  <2>. QED
    BY <1>2, <2>1, <2>2
<1>4. ChannelsOK(pktRxCh, Tail(errCh)) /\ RestOK'
  BY <1>1, <1>2, <1>3 DEF IInv, TypeOK, ChannelsOK, RestOK, env
<1>5. Head(errCh) # "conn" /\ Reason(pktRxCh, errCh) => Reason(pktRxCh, Tail(errCh))
  BY <1>2 DEF Reason
<1>6. CASE Head(errCh) = "stale"
  <2>. DEFINE s == StopConnToPeer(fsm)
  <2>1. s \in FSM /\ SameSession(fsm, s) /\ s.armed = fsm.armed
    BY DialFacts DEF IInv, TypeOK
  <2>. HIDE DEF s
  <2>2. fsm' = s /\ errCh' = Tail(errCh) /\ UNCHANGED <<pc, reader, pktRxCh>>
    BY <1>6 DEF OutConnErr, s
  <2>3. TypeOK'
    BY <1>4, <2>1, <2>2 DEF IInv, TypeOK, RestOK, ChannelsOK
  <2>4. 1 \in DOMAIN errCh
    BY <1>1
  <2>5. ~FirstAttempt
    BY <1>2, <1>6, <2>4 DEF FirstAttempt
  <2>6. Moving'
    BY <1>1, <2>1, <2>2, <2>5 DEF IInv, Moving, Ticking, SameSession
  <2>7. NoDeafSession'
    <3>1. fsm'.state = fsm.state /\ reader' = reader /\ pktRxCh' = pktRxCh
      BY <2>1, <2>2 DEF SameSession
    <3>2. fsm.state \in Session /\ reader.at = "failed" => Reason(pktRxCh, errCh)
      BY <1>1 DEF IInv, NoDeafSession, Reason
    <3>3. fsm'.state \in Session /\ reader'.at = "failed" => Reason(pktRxCh', errCh')
      BY <1>5, <1>6, <2>2, <3>1, <3>2
    <3>. QED
      BY <3>3 DEF NoDeafSession, Reason
  <2>. QED
    BY <2>1, <2>2, <2>3, <2>6, <2>7
       DEF IInv, Select, SameSession, HoldTimes, Control, ConnectionBelongsToSession
<1>7. CASE Head(errCh) # "stale"
  <2>1. Process(StopConnToPeer(fsm), "TcpConnFails", "none", FALSE, pktRxCh, Tail(errCh))
    BY <1>7 DEF OutConnErr
  <2>2. Reason(pktRxCh, errCh) =>
          \/ Reason(pktRxCh, Tail(errCh))
          \/ TearsDown(StopConnToPeer(fsm), "TcpConnFails")
          \/ fsm.state \notin Session
    <3>1. SameSession(fsm, StopConnToPeer(fsm))
      BY DialFacts DEF IInv, TypeOK
    <3>. QED
      BY <3>1 DEF TearsDown, Harmless, SameSession
  <2>. QED
    BY <1>1, <1>4, <2>1, <2>2, ProcessStep DEF AutoStarts
<1>. QED
  BY <1>6, <1>7

LEMMA ProcessPacketStep ==
    ASSUME IInv, ProcessPacket
    PROVE  IInv'
<1>. DEFINE m == Head(pktRxCh).msg
<1>1. /\ Select /\ pktRxCh # <<>> /\ pktRxCh \in Seq(Packet)
      /\ UNCHANGED <<fired, outConnCh, incoming, env>>
  BY DEF ProcessPacket, IInv, TypeOK
<1>2. /\ Tail(pktRxCh) \in Seq(Packet) /\ Len(Tail(pktRxCh)) <= Len(pktRxCh)
      /\ Head(pktRxCh) = pktRxCh[1] /\ Head(pktRxCh) \in Packet
      /\ \A i \in DOMAIN pktRxCh :
            i = 1 \/ (i - 1 \in DOMAIN Tail(pktRxCh) /\ Tail(pktRxCh)[i - 1] = pktRxCh[i])
  BY <1>1, TailFacts
<1>3. Len(Tail(pktRxCh)) <= RxCapacity
  <2>1. Len(pktRxCh) <= RxCapacity /\ RxCapacity \in Nat
    BY CapacityAssumption DEF IInv, TypeOK
  <2>2. Len(pktRxCh) \in Nat /\ Len(Tail(pktRxCh)) \in Nat
    BY <1>1, <1>2
  <2>. QED
    BY <1>2, <2>1, <2>2
<1>4. ChannelsOK(Tail(pktRxCh), errCh)
  BY <1>2, <1>3 DEF IInv, TypeOK, ChannelsOK
<1>5. ~LastMessage(m) /\ Reason(pktRxCh, errCh) => Reason(Tail(pktRxCh), errCh)
  BY <1>2 DEF Reason
<1>6. m \in Message
  BY <1>2 DEF Packet
<1>7. CASE fsm.state = "OpenSent" /\ m.event = "BGPOpen"
  <2>1. PICK accepted \in BOOLEAN :
          /\ closeCh' = (closeCh \/ ~accepted)
          /\ fsm' = ProcessOpenMessage(fsm, m.hold, accepted)
          /\ pktRxCh' = Tail(pktRxCh)
          /\ UNCHANGED <<pc, reader, errCh>>
    BY <1>7 DEF ProcessPacket
  <2>2. m.hold \in PeerHolds
    BY <1>6, <1>7 DEF Message
  <2>3. ~LastMessage(m)
    BY <1>7 DEF LastMessage
  <2>. HIDE DEF m
  <2>4. fsm \in FSM /\ ~fsm.close /\ ~fsm.active /\ HoldTimes(fsm)
    BY <1>1, <1>7 DEF IInv, TypeOK, Control, ConnectionBelongsToSession
  <2>5. /\ fsm' \in FSM /\ ~fsm'.close /\ ~fsm'.active /\ HoldTimes(fsm')
        /\ fsm'.state \in {"OpenSent", "OpenConfirm"} /\ fsm'.peerConn = fsm.peerConn
        /\ \/ Fresh(fsm')
           \/ /\ fsm'.state = "OpenSent" /\ ("hold" \in fsm.armed => "hold" \in fsm'.armed)
              /\ fsm.negotiated = 0 => fsm'.negotiated = 0
    BY <1>7, <2>1, <2>2, <2>4, OpenMessageFacts
  <2>6. TypeOK'
    BY <1>1, <1>4, <2>1, <2>5 DEF IInv, TypeOK, ChannelsOK, env
  <2>7. Moving'
    <3>1. CASE Fresh(fsm')
      BY <2>5, <3>1 DEF Moving, Ticking, Fresh, Session
    <3>2. CASE ~Fresh(fsm')
      BY <1>1, <1>7, <2>5, <3>2 DEF IInv, Moving, Ticking, Session
    <3>. QED
      BY <3>1, <3>2
  <2>8. NoDeafSession'
    <3>1. reader.at = "failed" => Reason(pktRxCh, errCh)
      BY <1>1, <1>7 DEF IInv, NoDeafSession, Reason, Session
    <3>2. reader'.at = "failed" => Reason(pktRxCh', errCh')
      BY <1>5, <2>1, <2>3, <3>1
    <3>. QED
      BY <3>2 DEF NoDeafSession, Reason
  <2>. QED
    BY <1>1, <1>7, <2>1, <2>5, <2>6, <2>7, <2>8
       DEF IInv, Select, Session, HoldTimes, Control, ConnectionBelongsToSession
<1>8. CASE ~(fsm.state = "OpenSent" /\ m.event = "BGPOpen")
  <2>1. Process(fsm, m.event, "none", FALSE, Tail(pktRxCh), errCh) /\ UNCHANGED closeCh
    BY <1>8 DEF ProcessPacket
  <2>2. m.event \in {"BGPOpen", "MsgErr", "NotifMsg", "KeepAliveMsg", "UpdateMsg"}
    BY <1>6, KindAssumption DEF Message
  <2>3. fsm.state \in Session /\ LastMessage(m) => TearsDown(fsm, m.event)
    BY DEF TearsDown, Harmless, LastMessage
  <2>4. RestOK'
    BY <1>1, <2>1 DEF IInv, TypeOK, RestOK, env
  <2>. HIDE DEF m
  <2>. QED
    BY <1>1, <1>4, <1>5, <2>1, <2>2, <2>3, <2>4, ProcessStep DEF AutoStarts
<1>. QED
  BY <1>7, <1>8

LEMMA InConnStep ==
    ASSUME IInv, InConn
    PROVE  IInv'
<1>1. ChannelsOK(pktRxCh, errCh) /\ RestOK'
  BY DEF InConn, IInv, TypeOK, ChannelsOK, RestOK, env
<1>. QED
  BY <1>1, ProcessStep DEF InConn, AutoStarts

LEMMA CommandStep ==
    ASSUME IInv, NEW e \in {"ManualStop", "AutoStop", "TcpConnFails"}, Command(e)
    PROVE  IInv'
<1>1. ChannelsOK(pktRxCh, errCh) /\ RestOK'
  BY DEF Command, IInv, TypeOK, ChannelsOK, RestOK, env
<1>. QED
  BY <1>1, ProcessStep DEF Command, AutoStarts

LEMMA BfdStatusStep ==
    ASSUME IInv, BfdStatus
    PROVE  IInv'
<1>1. bfdCh \in Seq({"down", "up"}) /\ bfdCh # <<>> /\ bfdCh' = Tail(bfdCh) /\ Select
  BY DEF BfdStatus, IInv, TypeOK
<1>2. bfdCh' \in Seq({"down", "up"}) /\ Len(bfdCh') <= Len(bfdCh)
  BY <1>1, TailFacts
<1>3. Len(bfdCh') <= MaxBfd
  <2>1. Len(bfdCh) <= MaxBfd /\ MaxBfd \in Nat /\ Len(bfdCh) \in Nat /\ Len(bfdCh') \in Nat
    BY <1>1, <1>2, CapacityAssumption DEF IInv, TypeOK
  <2>. QED
    BY <1>2, <2>1
<1>4. /\ ChannelsOK(pktRxCh, errCh) /\ RestOK'
      /\ UNCHANGED <<fired, outConnCh, incoming>>
  BY <1>2, <1>3 DEF BfdStatus, IInv, TypeOK, ChannelsOK, RestOK
<1>5. CASE Process(fsm, "AutoStop", "none", TRUE, pktRxCh, errCh)
  BY <1>1, <1>4, <1>5, ProcessStep DEF AutoStarts
<1>6. CASE Process(fsm, "AutoStart", "none", FALSE, pktRxCh, errCh)
  BY <1>1, <1>4, <1>6, ProcessStep DEF AutoStarts
<1>. QED
  BY <1>5, <1>6 DEF BfdStatus

LEMMA TimerExpiredStep ==
    ASSUME IInv, NEW t \in Timer, TimerExpired(t)
    PROVE  IInv'
<1>. DEFINE e == IF t # "restart" THEN Expiry[t]
                 ELSE IF fsm.passive THEN "AutoStartPassTcpEst" ELSE "AutoStart"
<1>1. /\ Select /\ fired' = fired \ {t} /\ Process(fsm, e, "none", FALSE, pktRxCh, errCh)
      /\ UNCHANGED <<outConnCh, incoming, closeCh, env>>
  BY DEF TimerExpired
<1>2. /\ t = "restart" => e \in AutoStarts
      /\ t = "connectRetry" => e = "ConnRetryTimerExp"
      /\ t = "hold" => e = "HoldTimerExp"
      /\ t = "keepAlive" => e = "KeepAliveTimerExp"
  BY DEF Expiry, AutoStarts
<1>3. e # "TcpConn"
  BY <1>2 DEF Timer, AutoStarts
<1>. HIDE DEF e
<1>4. ChannelsOK(pktRxCh, errCh) /\ RestOK'
  BY <1>1 DEF IInv, TypeOK, ChannelsOK, RestOK, env
<1>. QED
  BY <1>1, <1>2, <1>3, <1>4, ProcessStep

\* An update makes the next KEEPALIVE unnecessary for a while.
LEMMA SendUpdateStep ==
    ASSUME IInv, SendUpdate
    PROVE  IInv'
<1>. DEFINE k == StartKeepAliveTimer(fsm)
<1>1. fsm \in FSM /\ fsm.hold # 0
  BY HoldAssumption DEF SendUpdate, IInv, TypeOK, HoldTimes
<1>2. k \in FSM /\ SameSession(fsm, k) /\ k.armed = fsm.armed \cup {"keepAlive"}
  BY <1>1, TimerFacts DEF StartKeepAliveTimer, Timer
<1>. HIDE DEF k
<1>3. /\ fsm' = k /\ fsm.state = "Established" /\ Select
      /\ UNCHANGED <<fired, pc, reader, pktRxCh, outConnCh, errCh, incoming, closeCh, env>>
  BY DEF SendUpdate, k
<1>4. TypeOK'
  BY <1>2, <1>3 DEF IInv, TypeOK, env
<1>5. Moving'
  BY <1>2, <1>3 DEF IInv, Moving, Ticking, SameSession
<1>. QED
  BY <1>2, <1>3, <1>4, <1>5
     DEF IInv, Select, SameSession, HoldTimes, Control, NoDeafSession, ConnectionBelongsToSession

-----------------------------------------------------------------------------
(* The steps of the timers, the dial attempts, the reader and the rest       *)

LEMMA FireStep ==
    ASSUME IInv, NEW t \in Timer, Fire(t)
    PROVE  IInv'
<1>. DEFINE s == StopTimer(fsm, t)
<1>1. s \in FSM /\ SameSession(fsm, s) /\ s.armed = fsm.armed \ {t}
      /\ s.outTCPConn = fsm.outTCPConn /\ s.dialing = fsm.dialing
  BY TimerFacts DEF IInv, TypeOK
<1>. HIDE DEF s
<1>2. /\ fsm' = s /\ t \in fsm.armed /\ fired' = fired \cup {t}
      /\ UNCHANGED <<pc, reader, pktRxCh, outConnCh, errCh, incoming, closeCh, env>>
  BY DEF Fire, s
<1>3. TypeOK'
  BY <1>1, <1>2 DEF IInv, TypeOK, env
<1>4. \A x \in Timer : Ticking(x)' <=> Ticking(x)
  BY <1>1, <1>2 DEF Ticking
<1>5. FirstAttempt => FirstAttempt'
  BY <1>1, <1>2 DEF FirstAttempt
<1>6. Moving => Moving'
  BY <1>1, <1>2, <1>4, <1>5 DEF Moving, SameSession, Timer
<1>. QED
  BY <1>1, <1>2, <1>3, <1>6
     DEF IInv, Select, SameSession, HoldTimes, Control, NoDeafSession, ConnectionBelongsToSession

\* The attempt of which Connect expects the report is in progress or has
\* reported; the reports of others add to the channels only.
LEMMA DialStep ==
    ASSUME IInv, DialSucceeds \/ DialFails \/ DialStops
    PROVE  IInv'
<1>1. /\ Attempt(fsm')
      /\ UNCHANGED <<fired, pc, reader, pktRxCh, incoming, closeCh, env>>
  BY DEF DialSucceeds, DialFails, DialStops, Attempt
<1>2. /\ fsm' \in FSM /\ SameSession(fsm, fsm') /\ fsm'.armed = fsm.armed
      /\ fsm'.outTCPConn = fsm.outTCPConn
      /\ fsm'.dialing = fsm.dialing \/ DialSucceeds \/ DialFails
  <2>1. fsm \in FSM
    BY DEF IInv, TypeOK
  <2>2. CASE fsm.dialing /\ fsm' = [fsm EXCEPT !.dialing = FALSE]
    <3>1. (DialStops => fsm'.dialing = fsm.dialing)
      BY <2>1 DEF DialStops, FSM
    <3>. QED
      BY <2>1, <2>2, <3>1 DEF FSM, SameSession
  <2>3. CASE fsm.old > 0 /\ fsm' = [fsm EXCEPT !.old = @ - 1]
    <3>1. fsm.old - 1 \in 0..MaxOld
      BY <2>1, <2>3, CapacityAssumption DEF FSM
    <3>. QED
      BY <2>1, <2>3, <3>1 DEF FSM, SameSession
  <2>. QED
    BY <1>1, <2>2, <2>3 DEF Attempt
<1>3. /\ outConnCh' \in Nat /\ (outConnCh > 0 => outConnCh' > 0)
      /\ errCh' \in Seq({"dial", "conn", "stale"}) /\ Len(errCh') <= ErrCapacity
      /\ \A i \in DOMAIN errCh : i \in DOMAIN errCh' /\ errCh'[i] = errCh[i]
      /\ \A i \in DOMAIN errCh' : i \in DOMAIN errCh \/ errCh'[i] = "dial"
      /\ DialSucceeds => outConnCh' > 0
      /\ DialFails => \E i \in DOMAIN errCh' : errCh'[i] = "dial"
  <2>1. /\ outConnCh \in Nat /\ errCh \in Seq({"dial", "conn", "stale"})
        /\ Len(errCh) <= ErrCapacity /\ ErrCapacity \in Nat
    BY CapacityAssumption DEF IInv, TypeOK
  <2>2. CASE DialFails
    <3>1. outConnCh' = outConnCh /\ errCh' = Append(errCh, "dial") /\ Len(errCh) < ErrCapacity
      BY <2>2 DEF DialFails
    <3>2. /\ errCh' \in Seq({"dial", "conn", "stale"}) /\ Len(errCh') <= ErrCapacity
          /\ DOMAIN errCh' = DOMAIN errCh \cup {Len(errCh) + 1}
          /\ errCh'[Len(errCh) + 1] = "dial"
          /\ \A i \in DOMAIN errCh : errCh'[i] = errCh[i]
      BY <2>1, <3>1, AppendFacts
    <3>3. ~DialSucceeds \/ outConnCh' > 0
      BY <2>1, <3>1 DEF DialSucceeds
    <3>. QED
      BY <2>1, <3>1, <3>2, <3>3
  <2>3. CASE ~DialFails
    <3>1. errCh' = errCh /\ (outConnCh' = outConnCh \/ outConnCh' = outConnCh + 1)
          /\ (DialSucceeds => outConnCh' = outConnCh + 1)
      BY <2>3 DEF DialSucceeds, DialStops
    <3>. QED
      BY <2>1, <2>3, <3>1
  <2>. QED
    BY <2>2, <2>3
<1>4. TypeOK'
  BY <1>1, <1>2, <1>3 DEF IInv, TypeOK, env
<1>5. FirstAttempt => FirstAttempt'
  BY <1>2, <1>3 DEF FirstAttempt
<1>6. Moving => Moving'
  BY <1>1, <1>2, <1>5 DEF Moving, Ticking, SameSession
<1>7. NoDeafSession'
  <2>1. Select /\ fsm.state \in Session /\ reader.at = "failed" => Reason(pktRxCh, errCh)
    BY DEF IInv, NoDeafSession, Reason
  <2>2. Reason(pktRxCh, errCh) => Reason(pktRxCh', errCh')
    BY <1>1, <1>3 DEF Reason
  <2>. QED
    BY <1>1, <1>2, <2>1, <2>2 DEF NoDeafSession, Reason, SameSession, Select
<1>. QED
  BY <1>1, <1>2, <1>4, <1>6, <1>7
     DEF IInv, Select, SameSession, HoldTimes, Control, ConnectionBelongsToSession

\* The reader stops only after it has put its last message, or its error, into
\* a channel.
LEMMA ReaderStep ==
    ASSUME IInv, Reader
    PROVE  IInv'
<1>1. UNCHANGED <<fsm, fired, pc, outConnCh, incoming, closeCh, env>>
  BY DEF Reader, DeliverPkt, DeliverErr, ReadFails, ReadPkt
<1>2. /\ reader'.at # "none" /\ reader.at # "none"
      /\ reader' \in [at : {"none", "reading", "error", "failed"}] \cup [at : {"packet"}, msg : Message]
  BY DEF Reader, DeliverPkt, DeliverErr, ReadFails, ReadPkt, Reading
<1>3. /\ ChannelsOK(pktRxCh', errCh')
      /\ FirstAttempt => FirstAttempt'
      /\ reader'.at = "failed" => Reason(pktRxCh', errCh')
  <2>1. /\ pktRxCh \in Seq(Packet) /\ Len(pktRxCh) <= RxCapacity
        /\ errCh \in Seq({"dial", "conn", "stale"}) /\ Len(errCh) <= ErrCapacity
        /\ RxCapacity \in Nat /\ ErrCapacity \in Nat
    BY CapacityAssumption DEF IInv, TypeOK
  <2>2. CASE DeliverPkt
    <3>. DEFINE p == [msg |-> reader.msg, current |-> TRUE]
    <3>1. p \in Packet
      BY <2>2 DEF DeliverPkt, IInv, TypeOK, Packet
    <3>2. /\ pktRxCh' = Append(pktRxCh, p) /\ Len(pktRxCh) < RxCapacity /\ errCh' = errCh
          /\ reader' = IF LastMessage(reader.msg) THEN [at |-> "failed"] ELSE Reading
      BY <2>2 DEF DeliverPkt
    <3>3. p.current /\ p.msg = reader.msg
      OBVIOUS
    <3>. HIDE DEF p
    <3>4. /\ pktRxCh' \in Seq(Packet) /\ Len(pktRxCh') <= RxCapacity
          /\ DOMAIN pktRxCh' = DOMAIN pktRxCh \cup {Len(pktRxCh) + 1}
          /\ pktRxCh'[Len(pktRxCh) + 1] = p
      BY <2>1, <3>1, <3>2, AppendFacts
    <3>5. LastMessage(reader.msg) => Reason(pktRxCh', errCh')
      BY <3>3, <3>4 DEF Reason
    <3>6. FirstAttempt => FirstAttempt'
      BY <1>1, <3>2 DEF FirstAttempt
    <3>. QED
      BY <2>1, <3>2, <3>4, <3>5, <3>6 DEF ChannelsOK, Reading
  <2>3. CASE DeliverErr
    <3>1. errCh' = Append(errCh, "conn") /\ Len(errCh) < ErrCapacity /\ pktRxCh' = pktRxCh
      BY <2>3 DEF DeliverErr
    <3>2. /\ errCh' \in Seq({"dial", "conn", "stale"}) /\ Len(errCh') <= ErrCapacity
          /\ DOMAIN errCh' = DOMAIN errCh \cup {Len(errCh) + 1}
          /\ errCh'[Len(errCh) + 1] = "conn"
          /\ \A i \in DOMAIN errCh : errCh'[i] = errCh[i]
      BY <2>1, <3>1, AppendFacts
    <3>3. Reason(pktRxCh', errCh')
      BY <3>2 DEF Reason
    <3>4. FirstAttempt => FirstAttempt'
      BY <1>1, <3>2 DEF FirstAttempt
    <3>. QED
      BY <2>1, <3>1, <3>2, <3>3, <3>4 DEF ChannelsOK
  <2>4. CASE ReadFails \/ \E m \in Message : ReadPkt(m)
    <3>1. pktRxCh' = pktRxCh /\ errCh' = errCh /\ reader'.at # "failed"
      BY <2>4 DEF ReadFails, ReadPkt
    <3>. QED
      BY <1>1, <2>1, <3>1 DEF ChannelsOK, FirstAttempt
  <2>. QED
    BY <2>2, <2>3, <2>4 DEF Reader
<1>4. TypeOK'
  BY <1>1, <1>2, <1>3 DEF IInv, TypeOK, ChannelsOK, env
<1>5. Moving => Moving'
  BY <1>1, <1>3 DEF Moving, Ticking
<1>6. NoDeafSession'
  BY <1>3 DEF NoDeafSession, Reason
<1>. QED
  BY <1>1, <1>2, <1>4, <1>5, <1>6
     DEF IInv, Select, HoldTimes, Control, ConnectionBelongsToSession

\* What the manager, the server and BFD do leaves the FSM object alone.
LEMMA EnvironmentStep ==
    ASSUME IInv,
           \/ AcceptConn \/ fsmClose \/ UseBfdState \/ SetPassiveTcpEstablishment
           \/ \E down \in BOOLEAN : BfdFault(down)
           \/ UNCHANGED vars
    PROVE  IInv'
<1>1. /\ UNCHANGED <<fired, pc, reader, pktRxCh, outConnCh, errCh>>
      /\ incoming => incoming'
  BY DEF AcceptConn, fsmClose, UseBfdState, SetPassiveTcpEstablishment, BfdFault, vars
<1>2. /\ fsm' \in FSM /\ SameSession(fsm, fsm') /\ fsm'.armed = fsm.armed
      /\ fsm'.outTCPConn = fsm.outTCPConn /\ fsm'.dialing = fsm.dialing
  <2>1. fsm \in FSM
    BY DEF IInv, TypeOK
  <2>2. fsm' = fsm \/ fsm' = [fsm EXCEPT !.passive = TRUE]
    BY DEF AcceptConn, fsmClose, UseBfdState, SetPassiveTcpEstablishment, BfdFault, vars
  <2>. QED
    BY <2>1, <2>2 DEF FSM, SameSession
<1>3. RestOK'
  <2>1. CASE \E down \in BOOLEAN : BfdFault(down)
    <3>1. PICK down \in BOOLEAN : BfdFault(down)
      BY <2>1
    <3>2. MaxBfd \in Nat /\ bfdCh \in Seq({"down", "up"}) /\ Len(bfdCh) < MaxBfd
      BY <3>1, CapacityAssumption DEF BfdFault, IInv, TypeOK
    <3>3. bfdCh' \in Seq({"down", "up"}) /\ Len(bfdCh') <= MaxBfd
      BY <3>1, <3>2, AppendFacts DEF BfdFault
    <3>. QED
      BY <3>1, <3>3 DEF BfdFault, IInv, TypeOK, RestOK
  <2>2. CASE AcceptConn \/ fsmClose \/ SetPassiveTcpEstablishment \/ UNCHANGED vars
    BY <2>2 DEF AcceptConn, fsmClose, SetPassiveTcpEstablishment, vars, env, IInv, TypeOK, RestOK
  <2>3. CASE UseBfdState
    BY <2>3 DEF UseBfdState, IInv, TypeOK, RestOK
  <2>. QED
    BY <2>1, <2>2, <2>3
<1>4. TypeOK'
  BY <1>1, <1>2, <1>3 DEF IInv, TypeOK, RestOK
<1>5. FirstAttempt => FirstAttempt'
  BY <1>1, <1>2 DEF FirstAttempt
<1>6. Moving => Moving'
  BY <1>1, <1>2, <1>5 DEF Moving, Ticking, SameSession
<1>. QED
  BY <1>1, <1>2, <1>4, <1>6
     DEF IInv, Select, SameSession, HoldTimes, Control, NoDeafSession, ConnectionBelongsToSession

-----------------------------------------------------------------------------
(* The theorems                                                             *)

LEMMA InitIInv == Init => IInv
<1>. SUFFICES ASSUME Init PROVE IInv
  OBVIOUS
<1>1. PICK s \in StartStates :
        /\ fsm = processEvent(Enter(NewFSM(s), s), "AutoStart", "none")
        /\ outConnCh = IF s = "Connect" THEN 1 ELSE 0
        /\ incoming = (s = "Active")
  BY DEF Init
<1>. DEFINE n == NewFSM(s)
            f == Enter(n, s)
<1>2. s \in {"Idle", "Connect", "Active"}
  BY StartAssumption
<1>3. /\ fired = {} /\ reader = NoReader /\ pktRxCh = <<>> /\ errCh = <<>> /\ closeCh = FALSE
      /\ bfdDown = FALSE /\ useBfd = FALSE /\ bfdCh = <<>> /\ pc = AtSelect
  BY DEF Init
<1>4. n \in FSM /\ n.peerConn = "none" /\ ~n.active /\ ~n.close /\ ~n.outTCPConn
  BY <1>2, CapacityAssumption DEF NewFSM, FSM, BGPFSMState
<1>. HIDE DEF n
<1>5. /\ f \in FSM /\ Outside(f) /\ f.state = s
      /\ s = "Idle" => "restart" \in f.armed
      /\ s = "Connect" => f.outTCPConn /\ f.dialing
  <2>1. CASE s = "Idle"
    BY <1>4, <2>1 DEF Enter, EnterIdle, FSM, BGPFSMState, Timer, Outside, Session
  <2>2. CASE s = "Connect"
    BY <1>3, <1>4, <2>2 DEF Enter, InitiateConnToPeer, FSM, BGPFSMState, Outside, Session
  <2>3. CASE s = "Active"
    BY <1>4, <2>3 DEF Enter, FSM, BGPFSMState, Outside, Session
  <2>. QED
    BY <1>2, <2>1, <2>2, <2>3
<1>. HIDE DEF f
<1>6. /\ fsm \in FSM /\ HoldTimes(fsm) /\ Outside(fsm)
      /\ (fsm = f /\ f.state # "Idle") \/ Fresh(fsm)
  BY <1>1, <1>5, OutsideFacts DEF AutoStarts, f, n
<1>7. TypeOK
  <2>1. <<>> \in Seq(Packet) /\ <<>> \in Seq({"dial", "conn", "stale"}) /\ <<>> \in Seq({"down", "up"})
        /\ Len(<<>>) = 0
    OBVIOUS
  <2>2. RxCapacity >= 0 /\ ErrCapacity >= 0 /\ MaxBfd >= 0
    BY CapacityAssumption
  <2>3. outConnCh \in Nat /\ incoming \in BOOLEAN
    BY <1>1
  <2>. QED
    BY <1>3, <1>6, <2>1, <2>2, <2>3 DEF TypeOK, AtSelect, NoReader
<1>8. Moving
  <2>1. CASE Fresh(fsm)
    BY <1>6, <2>1 DEF Moving, Ticking, Fresh, FSM, BGPFSMState
  <2>2. CASE fsm = f /\ s = "Connect"
    BY <1>3, <1>5, <2>2 DEF Moving, FirstAttempt, Session
  <2>3. CASE fsm = f /\ s = "Active"
    BY <1>1, <1>5, <2>3 DEF Moving, Session
  <2>. QED
    BY <1>2, <1>5, <1>6, <2>1, <2>2, <2>3
<1>. QED
  BY <1>3, <1>6, <1>7, <1>8
     DEF IInv, Outside, Control, AtSelect, NoReader, NoDeafSession, ConnectionBelongsToSession

LEMMA NextIInv == IInv /\ [Next]_vars => IInv'
<1>. SUFFICES ASSUME IInv, [Next]_vars PROVE IInv'
  OBVIOUS
<1>1. CASE StartFSM
  BY <1>1, OutConnStep, OutConnErrStep, InConnStep, CloseStep, ProcessPacketStep, FinishClearStep,
     EnvironmentStep, BfdStatusStep, TimerExpiredStep DEF StartFSM
<1>2. CASE SendUpdate \/ \E e \in {"ManualStop", "AutoStop", "TcpConnFails"} : Command(e)
  BY <1>2, SendUpdateStep, CommandStep
<1>3. CASE (\E t \in Timer : Fire(t)) \/ DialSucceeds \/ DialFails \/ DialStops \/ Reader
  BY <1>3, FireStep, DialStep, ReaderStep
<1>4. CASE \/ AcceptConn \/ fsmClose \/ UseBfdState \/ UNCHANGED vars
           \/ \E down \in BOOLEAN : BfdFault(down)
  BY <1>4, EnvironmentStep
<1>. QED
  BY <1>1, <1>2, <1>3, <1>4 DEF Next

\* The inductive invariant holds in every reachable state, whatever the hold
\* times, the capacities of the channels and the kinds of input.
THEOREM InductiveInvariant == Spec => []IInv
BY InitIInv, NextIInv, PTL DEF Spec

\* Every variable keeps its type; in particular no channel is written beyond
\* its capacity.
THEOREM TypeCorrect == Spec => []TypeOK
<1>1. IInv => TypeOK
  BY DEF IInv
<1>. QED
  BY <1>1, InductiveInvariant, PTL

\* Whenever StartFSM is back in its select, a timer, a dial attempt or a
\* connection that is handed over is going to move the machine on: no order of
\* stale ticks, late dial reports and errors of old connections strands it.
THEOREM NeverStrandedHolds == Spec => []NeverStranded
<1>1. IInv => NeverStranded
  <2>. SUFFICES ASSUME IInv, Select PROVE NeverStranded
    BY DEF NeverStranded
  <2>1. fsm.state \in BGPFSMState /\ Moving
    BY DEF IInv, TypeOK, FSM
  <2>. QED
    BY <2>1 DEF Moving, FirstAttempt, NeverStranded, BGPFSMState, Session
<1>. QED
  BY <1>1, InductiveInvariant, PTL

\* A session that has reached OpenConfirm goes on sending KEEPALIVEs unless the
\* negotiated hold time is 0.
THEOREM KeepsTalkingHolds == Spec => []KeepsTalking
<1>1. IInv => KeepsTalking
  BY DEF IInv, Moving, KeepsTalking
<1>. QED
  BY <1>1, InductiveInvariant, PTL

\* A session whose reader has stopped will see why: the message or the error
\* that stopped it is still in its channel.
THEOREM NoDeafSessionHolds == Spec => []NoDeafSession
<1>1. IInv => NoDeafSession
  BY DEF IInv
<1>. QED
  BY <1>1, InductiveInvariant, PTL

\* A connection and a reader exist exactly in a session of an FSM that is not
\* closed.
THEOREM ConnectionBelongsToSessionHolds == Spec => []ConnectionBelongsToSession
<1>1. IInv => ConnectionBelongsToSession
  BY DEF IInv
<1>. QED
  BY <1>1, InductiveInvariant, PTL

=============================================================================
