-------------------------- MODULE VrrpRouterProofs --------------------------
(***************************************************************************)
(* Proofs about the VRRP daemon: whatever the order in which the handler,  *)
(* the timer callbacks and the link subscriber run, and whatever stale     *)
(* copy of an entry they write back, a master goes on advertising.         *)
(***************************************************************************)
EXTENDS VrrpRouter, SequenceTheorems, TLAPS

-----------------------------------------------------------------------------
(* The inductive invariant                                                  *)

Live == {"tx", "wait", "vip", "set"}

\* Number t is nil or that of a timer of this kind that was created for k.
Points(t, kind, k, ts) ==
    t # 0 => t \in 1..Len(ts) /\ ts[t].kind = kind /\ ts[t].key = k

\* The timers that an entry, or a copy of one, refers to are its own.
OwnTimers(e, k, ts) == Points(e.down, "down", k, ts) /\ Points(e.adver, "adver", k, ts)

\* Entries are overwritten with copies taken before a wait: the copies have to
\* be as good as the entries.
EntriesOwn == \A k \in Key : Found(k) => OwnTimers(gbl[k], k, timer)
HandlerCopyOwns == handler.pc = "backup" => OwnTimers(handler.copy, handler.key, timer)
IntfCopyOwns == intf.pc \in {"send", "wait"} => OwnTimers(intf.copy, intf.key, timer)

MasterHasTimer == \A k \in Key : Found(k) /\ gbl[k].state = "Master" => gbl[k].adver # 0

IInv ==
    /\ TypeOK
    /\ EntriesOwn
    /\ HandlerCopyOwns
    /\ IntfCopyOwns
    /\ MasterHasTimer
    /\ MasterAdvertises

-----------------------------------------------------------------------------
(* Timers                                                                   *)

\* From ts to us: no timer is lost or given to another entry.
Keeps(ts, us) ==
    /\ us \in Seq(Timer)
    /\ Len(ts) <= Len(us)
    /\ \A i \in 1..Len(ts) : us[i].kind = ts[i].kind /\ us[i].key = ts[i].key

LEMMA KeepsItself ==
    ASSUME NEW ts \in Seq(Timer)
    PROVE  Keeps(ts, ts)
  <1>1. Len(ts) \in Nat BY LenProperties
  <1> QED BY <1>1 DEF Keeps

\* Arming or stopping a timer changes nothing else of the timers.
LEMMA ReplaceTimer ==
    ASSUME NEW ts \in Seq(Timer), NEW t \in 1..Len(ts), NEW r \in Timer,
           r.kind = ts[t].kind, r.key = ts[t].key
    PROVE  /\ Keeps(ts, [ts EXCEPT ![t] = r])
           /\ Len([ts EXCEPT ![t] = r]) = Len(ts)
           /\ \A i \in 1..Len(ts) : [ts EXCEPT ![t] = r][i] = IF i = t THEN r ELSE ts[i]
  <1>1. /\ ts \in [1..Len(ts) -> Timer]
        /\ Len(ts) \in Nat
    BY ElementOfSeq, LenProperties
  <1>2. [ts EXCEPT ![t] = r] \in Seq(Timer) /\ Len([ts EXCEPT ![t] = r]) = Len(ts)
    BY ExceptSeq
  <1> QED BY <1>1, <1>2 DEF Keeps

LEMMA SetArmed ==
    ASSUME NEW ts \in Seq(Timer), NEW t \in 1..Len(ts)
    PROVE  /\ [ts[t] EXCEPT !.armed = TRUE] \in Timer
           /\ [ts[t] EXCEPT !.armed = FALSE] \in Timer
           /\ [ts[t] EXCEPT !.armed = TRUE].armed
           /\ [ts[t] EXCEPT !.armed = TRUE].kind = ts[t].kind
           /\ [ts[t] EXCEPT !.armed = TRUE].key = ts[t].key
           /\ [ts[t] EXCEPT !.armed = FALSE].kind = ts[t].kind
           /\ [ts[t] EXCEPT !.armed = FALSE].key = ts[t].key
           /\ [ts EXCEPT ![t].armed = TRUE] = [ts EXCEPT ![t] = [ts[t] EXCEPT !.armed = TRUE]]
           /\ [ts EXCEPT ![t].armed = FALSE] = [ts EXCEPT ![t] = [ts[t] EXCEPT !.armed = FALSE]]
  <1>1. ts[t] \in Timer BY ElementOfSeq
  <1> QED BY <1>1 DEF Timer

LEMMA ArmFacts ==
    ASSUME NEW ts \in Seq(Timer), NEW t \in 1..Len(ts)
    PROVE  /\ Keeps(ts, Arm(ts, t))
           /\ Len(Arm(ts, t)) = Len(ts)
           /\ Arm(ts, t)[t].armed
           /\ \A i \in 1..Len(ts) : ts[i].armed => Arm(ts, t)[i].armed
  <1> DEFINE r == [ts[t] EXCEPT !.armed = TRUE]
  <1>1. r \in Timer /\ r.kind = ts[t].kind /\ r.key = ts[t].key /\ r.armed
    BY SetArmed
  <1>2. Arm(ts, t) = [ts EXCEPT ![t] = r]
    BY SetArmed DEF Arm
  <1> HIDE DEF r
  <1>3. /\ Keeps(ts, [ts EXCEPT ![t] = r])
        /\ Len([ts EXCEPT ![t] = r]) = Len(ts)
        /\ \A i \in 1..Len(ts) : [ts EXCEPT ![t] = r][i] = IF i = t THEN r ELSE ts[i]
    BY <1>1, ReplaceTimer, Zenon
  <1> QED BY <1>1, <1>2, <1>3

LEMMA StopFacts ==
    ASSUME NEW ts \in Seq(Timer), NEW t \in 0..Len(ts)
    PROVE  /\ Keeps(ts, Stop(ts, t))
           /\ Len(Stop(ts, t)) = Len(ts)
           /\ \A i \in 1..Len(ts) : i # t => Stop(ts, t)[i] = ts[i]
  <1>1. Len(ts) \in Nat BY LenProperties
  <1>2. CASE t = 0
    <2>1. Stop(ts, t) = ts BY <1>2 DEF Stop
    <2> QED BY <1>2, <2>1, KeepsItself
  <1>3. CASE t # 0
    <2> DEFINE r == [ts[t] EXCEPT !.armed = FALSE]
    <2>1. t \in 1..Len(ts) BY <1>1, <1>3
    <2>2. r \in Timer /\ r.kind = ts[t].kind /\ r.key = ts[t].key
      BY <2>1, SetArmed
    <2>3. Stop(ts, t) = [ts EXCEPT ![t] = r]
      BY <1>3, <2>1, SetArmed DEF Stop
    <2> HIDE DEF r
    <2>4. /\ Keeps(ts, [ts EXCEPT ![t] = r])
          /\ Len([ts EXCEPT ![t] = r]) = Len(ts)
          /\ \A i \in 1..Len(ts) : [ts EXCEPT ![t] = r][i] = IF i = t THEN r ELSE ts[i]
      BY <2>1, <2>2, ReplaceTimer, Zenon
    <2> QED BY <2>1, <2>3, <2>4
  <1> QED BY <1>2, <1>3

LEMMA AppendFacts ==
    ASSUME NEW ts \in Seq(Timer), NEW kind \in {"down", "adver"}, NEW k \in Key
    PROVE  LET us == Append(ts, [kind |-> kind, key |-> k, armed |-> TRUE])
           IN  /\ Keeps(ts, us)
               /\ Len(us) = Len(ts) + 1
               /\ us[Len(ts) + 1] = [kind |-> kind, key |-> k, armed |-> TRUE]
               /\ \A i \in 1..Len(ts) : us[i] = ts[i]
  <1> DEFINE new == [kind |-> kind, key |-> k, armed |-> TRUE]
             us == Append(ts, new)
  <1>1. new \in Timer BY DEF Timer
  <1>2. Len(ts) \in Nat BY LenProperties
  <1>3. /\ us \in Seq(Timer)
        /\ Len(us) = Len(ts) + 1
        /\ \A i \in 1..Len(us) : us[i] = IF i = Len(ts) + 1 THEN new ELSE ts[i]
    BY <1>1, AppendProperties
  <1> QED BY <1>2, <1>3 DEF Keeps

LEMMA OwnTimersKept ==
    ASSUME NEW e, NEW k, NEW ts \in Seq(Timer), NEW us, Keeps(ts, us), OwnTimers(e, k, ts)
    PROVE  OwnTimers(e, k, us)
  <1>1. Len(ts) \in Nat /\ Len(us) \in Nat BY LenProperties DEF Keeps
  <1> QED BY <1>1 DEF Keeps, OwnTimers, Points

-----------------------------------------------------------------------------
(* Types                                                                    *)

LEMMA EntryType ==
    ASSUME TypeOK, NEW k \in Key, Found(k)
    PROVE  gbl[k] \in VrrpGlobalInfo
  BY DEF TypeOK, Found, NoEntry

LEMMA HandlerType ==
    ASSUME TypeOK, handler.pc = "backup"
    PROVE  handler.key \in Key /\ handler.copy \in VrrpGlobalInfo
  BY DEF TypeOK

LEMMA IntfType ==
    ASSUME TypeOK
    PROVE  /\ intf.pc \in {"up", "down"} => intf.todo \in SUBSET Key
           /\ intf.pc \in {"send", "wait"} =>
                /\ intf.todo \in SUBSET Key
                /\ intf.key \in Key
                /\ intf.copy \in VrrpGlobalInfo
  BY DEF TypeOK, Idle

LEMMA MoveFacts ==
    ASSUME TypeOK, NEW c \in Callback, NEW d \in Callback, c # d, Running(c)
    PROVE  /\ Move(c, d) \in [Callback -> Nat]
           /\ Move(c, d)[d] > 0
           /\ \A x \in Callback : x # c /\ x # d => Move(c, d)[x] = thread[x]
  <1>1. thread \in [Callback -> Nat] /\ thread[c] \in Nat /\ thread[c] > 0 /\ thread[d] \in Nat
    BY DEF TypeOK, Running
  <1>2. Move(c, d) = [x \in Callback |-> IF x = c THEN thread[c] - 1
                                         ELSE IF x = d THEN thread[d] + 1 ELSE thread[x]]
    BY <1>1 DEF Move
  <1> QED BY <1>1, <1>2

LEMMA EndFacts ==
    ASSUME TypeOK, NEW c \in Callback, Running(c)
    PROVE  /\ End(c) \in [Callback -> Nat]
           /\ \A x \in Callback : x # c => End(c)[x] = thread[x]
  <1>1. thread \in [Callback -> Nat] /\ thread[c] \in Nat /\ thread[c] > 0
    BY DEF TypeOK, Running
  <1> QED BY <1>1 DEF End

LEMMA FsmChannel ==
    ASSUME TypeOK, NEW m \in VrrpFsm
    PROVE  /\ Len(fsmCh) < VRRP_FSM_CHANNEL_SIZE =>
                /\ Append(fsmCh, m) \in Seq(VrrpFsm)
                /\ Len(Append(fsmCh, m)) <= VRRP_FSM_CHANNEL_SIZE
           /\ fsmCh # <<>> =>
                /\ Head(fsmCh) \in VrrpFsm
                /\ Tail(fsmCh) \in Seq(VrrpFsm)
                /\ Len(Tail(fsmCh)) <= VRRP_FSM_CHANNEL_SIZE
  BY DEF TypeOK, VRRP_FSM_CHANNEL_SIZE

LEMMA TxChannel ==
    ASSUME TypeOK, NEW k \in Key
    PROVE  /\ Len(txCh) < VRRP_TX_BUF_CHANNEL_SIZE =>
                /\ Append(txCh, k) \in Seq(Key)
                /\ Len(Append(txCh, k)) <= VRRP_TX_BUF_CHANNEL_SIZE
           /\ txCh # <<>> =>
                /\ Head(txCh) \in Key
                /\ Tail(txCh) \in Seq(Key)
                /\ Len(Tail(txCh)) <= VRRP_TX_BUF_CHANNEL_SIZE
  BY DEF TypeOK, VRRP_TX_BUF_CHANNEL_SIZE

-----------------------------------------------------------------------------
(* The parts of the invariant under a step                                  *)

\* What keeps the router of k advertising.
Advertises(k) ==
    \/ gbl[k].adver # 0 /\ timer[gbl[k].adver].armed
    \/ CallbackRunning("adver", k)
    \/ handler.pc = "backup" /\ handler.key = k
    \/ intf.pc \in {"send", "wait"} /\ intf.key = k

LEMMA EntriesKept ==
    ASSUME TypeOK, EntriesOwn, Keeps(timer, timer'),
           \A k \in Key : Found(k)' =>
               \/ Found(k) /\ gbl'[k].down = gbl[k].down /\ gbl'[k].adver = gbl[k].adver
               \/ OwnTimers(gbl'[k], k, timer')
    PROVE  EntriesOwn'
  <1> SUFFICES ASSUME NEW k \in Key, Found(k)'
               PROVE  OwnTimers(gbl'[k], k, timer')
    BY DEF EntriesOwn, Found
  <1>1. CASE Found(k) /\ gbl'[k].down = gbl[k].down /\ gbl'[k].adver = gbl[k].adver
    <2>1. OwnTimers(gbl[k], k, timer) BY <1>1 DEF EntriesOwn
    <2>2. OwnTimers(gbl[k], k, timer') BY <2>1, OwnTimersKept DEF TypeOK
    <2> QED BY <1>1, <2>2 DEF OwnTimers
  <1> QED BY <1>1

LEMMA CopiesKept ==
    ASSUME TypeOK, HandlerCopyOwns, IntfCopyOwns, Keeps(timer, timer'),
           handler' = handler \/ handler'.pc # "backup",
           \/ intf' = intf
           \/ intf'.pc \notin {"send", "wait"}
           \/ intf.pc \in {"send", "wait"} /\ intf'.key = intf.key /\ intf'.copy = intf.copy
    PROVE  HandlerCopyOwns' /\ IntfCopyOwns'
  <1>1. handler.pc = "backup" => OwnTimers(handler.copy, handler.key, timer')
    BY OwnTimersKept DEF TypeOK, HandlerCopyOwns
  <1>2. intf.pc \in {"send", "wait"} => OwnTimers(intf.copy, intf.key, timer')
    BY OwnTimersKept DEF TypeOK, IntfCopyOwns
  <1>3. HandlerCopyOwns' BY <1>1 DEF HandlerCopyOwns
  <1>4. IntfCopyOwns' BY <1>2 DEF IntfCopyOwns
  <1> QED BY <1>3, <1>4

\* Every master either was one before, with the same AdverTimer, and goes on
\* advertising, or starts to advertise in this step.
LEMMA MastersKept ==
    ASSUME MasterHasTimer, MasterAdvertises,
           \A k \in Key : Found(k)' /\ gbl'[k].state = "Master" =>
               \/ /\ Found(k) /\ gbl[k].state = "Master" /\ gbl'[k].adver = gbl[k].adver
                  /\ Advertises(k) => Advertises(k)'
               \/ gbl'[k].adver # 0 /\ Advertises(k)'
    PROVE  MasterHasTimer' /\ MasterAdvertises'
  <1>1. MasterHasTimer' BY DEF MasterHasTimer, Found
  <1>2. MasterAdvertises'
    <2> SUFFICES ASSUME NEW k \in Key, Found(k)', gbl'[k].state = "Master"
                 PROVE  Advertises(k)'
      BY DEF MasterAdvertises, Advertises, Found
    <2>1. CASE /\ Found(k) /\ gbl[k].state = "Master" /\ gbl'[k].adver = gbl[k].adver
               /\ Advertises(k) => Advertises(k)'
      <3>1. Advertises(k) BY <2>1 DEF MasterAdvertises, Advertises
      <3> QED BY <2>1, <3>1
    <2> QED BY <2>1
  <1> QED BY <1>1, <1>2

\* VrrpHandleMasterDownTimer on an entry with timers of its own.
LEMMA DownTimerFacts ==
    ASSUME TypeOK, NEW k \in Key, NEW e \in VrrpGlobalInfo, OwnTimers(e, k, timer),
           VrrpHandleMasterDownTimer(k, e, timer)
    PROVE  /\ Keeps(timer, timer') /\ Len(timer') <= MaxTimers
           /\ \A i \in 1..Len(timer) : timer[i].armed => timer'[i].armed
           /\ gbl' \in [Key -> VrrpGlobalInfo \cup {NoEntry}]
           /\ gbl'[k].state = "Backup"
           /\ OwnTimers(gbl'[k], k, timer')
           /\ \A j \in Key : j # k => gbl'[j] = gbl[j]
  <1>1. timer \in Seq(Timer) /\ Len(timer) \in Nat /\ Len(timer) <= MaxTimers /\ MaxTimers \in Nat
    BY BoundAssumption, LenProperties DEF TypeOK
  <1>2. gbl \in [Key -> VrrpGlobalInfo \cup {NoEntry}] BY DEF TypeOK
  <1>3. CASE e.down # 0
    <2> DEFINE f == [e EXCEPT !.state = "Backup"]
    <2>1. f \in VrrpGlobalInfo /\ f.state = "Backup" /\ f.down = e.down /\ f.adver = e.adver
      BY DEF VrrpGlobalInfo, StateName
    <2>2. timer' = Arm(timer, e.down) /\ gbl' = [gbl EXCEPT ![k] = f]
      BY <1>3 DEF VrrpHandleMasterDownTimer
    <2>3. e.down \in 1..Len(timer) BY <1>3 DEF OwnTimers, Points
    <2>4. /\ Keeps(timer, timer') /\ Len(timer') = Len(timer)
          /\ \A i \in 1..Len(timer) : timer[i].armed => timer'[i].armed
      BY <1>1, <2>2, <2>3, ArmFacts
    <2>5. OwnTimers(e, k, timer') BY <1>1, <2>4, OwnTimersKept
    <2>6. OwnTimers(f, k, timer') BY <2>1, <2>5 DEF OwnTimers
    <2> HIDE DEF f
    <2>7. /\ gbl' \in [Key -> VrrpGlobalInfo \cup {NoEntry}]
          /\ gbl'[k] = f
          /\ \A j \in Key : j # k => gbl'[j] = gbl[j]
      BY <1>2, <2>1, <2>2
    <2> QED BY <1>1, <2>1, <2>4, <2>6, <2>7
  <1>4. CASE e.down = 0
    <2> DEFINE f == [e EXCEPT !.state = "Backup", !.down = Len(timer) + 1]
    <2>0. Len(timer) < MaxTimers
      BY <1>4 DEF VrrpHandleMasterDownTimer
    <2>a. Len(timer) + 1 \in 0..MaxTimers
      BY <1>1, <2>0
    <2>1. /\ f \in VrrpGlobalInfo
          /\ f.state = "Backup" /\ f.down = Len(timer) + 1 /\ f.adver = e.adver
      BY <2>a DEF VrrpGlobalInfo, StateName
    <2>2. /\ timer' = Append(timer, [kind |-> "down", key |-> k, armed |-> TRUE])
          /\ gbl' = [gbl EXCEPT ![k] = f]
      BY <1>4 DEF VrrpHandleMasterDownTimer
    <2>3. /\ Keeps(timer, timer')
          /\ Len(timer') = Len(timer) + 1
          /\ timer'[Len(timer) + 1] = [kind |-> "down", key |-> k, armed |-> TRUE]
          /\ \A i \in 1..Len(timer) : timer'[i] = timer[i]
      BY <1>1, <2>2, AppendFacts
    <2>4. OwnTimers(e, k, timer') BY <1>1, <2>3, OwnTimersKept
    <2>5. OwnTimers(f, k, timer')
      BY <1>1, <2>1, <2>3, <2>4 DEF OwnTimers, Points
    <2> HIDE DEF f
    <2>6. /\ gbl' \in [Key -> VrrpGlobalInfo \cup {NoEntry}]
          /\ gbl'[k] = f
          /\ \A j \in Key : j # k => gbl'[j] = gbl[j]
      BY <1>2, <2>1, <2>2
    <2> QED BY <1>1, <2>0, <2>1, <2>3, <2>5, <2>6
  <1> QED BY <1>3, <1>4

-----------------------------------------------------------------------------
(* Steps that change neither an entry nor a timer                           *)

LEMMA QuietStep ==
    ASSUME IInv, TypeOK', UNCHANGED <<gbl, timer>>,
           handler' = handler \/ (handler.pc # "backup" /\ handler'.pc # "backup"),
           \/ intf' = intf
           \/ intf.pc \notin {"send", "wait"} /\ intf'.pc \notin {"send", "wait"}
           \/ /\ intf.pc \in {"send", "wait"} /\ intf'.pc \in {"send", "wait"}
              /\ intf'.key = intf.key /\ intf'.copy = intf.copy,
           \A k \in Key : Found(k) /\ CallbackRunning("adver", k) => CallbackRunning("adver", k)'
    PROVE  IInv'
  <1> USE DEF IInv
  <1>1. Keeps(timer, timer') BY KeepsItself DEF TypeOK
  <1>2. EntriesOwn' BY <1>1, EntriesKept DEF Found
  <1>3. HandlerCopyOwns' /\ IntfCopyOwns' BY <1>1, CopiesKept
  <1>4. \A k \in Key : Found(k) /\ Advertises(k) => Advertises(k)'
    BY DEF Advertises
  <1>5. MasterHasTimer' /\ MasterAdvertises' BY <1>4, MastersKept DEF Found
  <1> QED BY <1>2, <1>3, <1>5

\* A callback that goes from one point to another is still running, the others
\* are where they were.
LEMMA MovedRuns ==
    ASSUME TypeOK, NEW c \in Callback, NEW d \in Callback, c # d, Running(c),
           c.kind = d.kind, c.key = d.key, thread' = Move(c, d),
           NEW k \in Key, CallbackRunning("adver", k)
    PROVE  CallbackRunning("adver", k)'
  <1>1. PICK pc \in {"tx", "wait", "vip", "set"} : Running(At("adver", k, pc))
    BY DEF CallbackRunning
  <1> DEFINE x == At("adver", k, pc)
  <1>2. x \in Callback BY DEF At, Callback
  <1>3. CASE x = c
    <2>1. d.kind = "adver" /\ d.key = k /\ d.pc \in {"tx", "wait", "vip", "set"}
      BY <1>3 DEF At, Callback
    <2>2. d = At("adver", k, d.pc) BY <2>1 DEF At, Callback
    <2>3. thread'[d] > 0 BY MoveFacts
    <2> QED BY <2>1, <2>2, <2>3 DEF CallbackRunning, Running
  <1>4. CASE x # c
    <2>1. thread'[x] > 0 BY <1>1, <1>2, <1>4, MoveFacts DEF Running
    <2> QED BY <2>1 DEF CallbackRunning, Running
  <1> QED BY <1>3, <1>4

\* A callback that ends leaves the others running.
LEMMA EndedRuns ==
    ASSUME TypeOK, NEW c \in Callback, Running(c), thread' = End(c),
           NEW k \in Key, c.kind # "adver" \/ c.key # k, CallbackRunning("adver", k)
    PROVE  CallbackRunning("adver", k)'
  <1>1. PICK pc \in {"tx", "wait", "vip", "set"} : Running(At("adver", k, pc))
    BY DEF CallbackRunning
  <1> DEFINE x == At("adver", k, pc)
  <1>2. x \in Callback /\ x # c BY DEF At, Callback
  <1>3. thread'[x] > 0 BY <1>1, <1>2, EndFacts DEF Running
  <1> QED BY <1>3 DEF CallbackRunning, Running

LEMMA CheckRcvdPktStep == IInv /\ VrrpCheckRcvdPkt => IInv'
  <1> SUFFICES ASSUME IInv, VrrpCheckRcvdPkt PROVE IInv'
    OBVIOUS
  <1> USE DEF IInv
  <1> DEFINE m == Head(rxCh)
  <1>1. m \in VrrpFsm /\ Tail(rxCh) \in Seq(VrrpFsm) /\ Len(Tail(rxCh)) <= RxCapacity
    BY BoundAssumption DEF TypeOK, VrrpCheckRcvdPkt
  <1>2. CASE SendToFsm(m) /\ UNCHANGED crashed
    <2>1. fsmCh' \in Seq(VrrpFsm) /\ Len(fsmCh') <= VRRP_FSM_CHANNEL_SIZE
      BY <1>1, <1>2, FsmChannel DEF SendToFsm, TypeOK
    <2>2. handler' \in [pc : {"idle", "signal", "stuck"}] /\ handler'.pc # "backup"
      BY <1>2 DEF SendToFsm, Idle
    <2>3. TypeOK' BY <1>1, <1>2, <2>1, <2>2 DEF TypeOK, VrrpCheckRcvdPkt
    <2> QED BY <2>2, <2>3, QuietStep DEF VrrpCheckRcvdPkt, CallbackRunning, Running
  <1>3. CASE UNCHANGED <<fsmCh, handler>> /\ crashed' \in BOOLEAN
    <2>1. TypeOK' BY <1>1, <1>3 DEF TypeOK, VrrpCheckRcvdPkt
    <2> QED BY <1>3, <2>1, QuietStep DEF VrrpCheckRcvdPkt, CallbackRunning, Running
  <1>4. crashed \in BOOLEAN BY DEF TypeOK
  <1> QED BY <1>2, <1>3, <1>4 DEF VrrpCheckRcvdPkt

LEMMA SendPktStep == IInv /\ VrrpSendPkt => IInv'
  <1> SUFFICES ASSUME IInv, VrrpSendPkt PROVE IInv'
    OBVIOUS
  <1> USE DEF IInv
  <1>1. Tail(txCh) \in Seq(Key) /\ Len(Tail(txCh)) <= VRRP_TX_BUF_CHANNEL_SIZE
    BY DEF TypeOK, VrrpSendPkt, VRRP_TX_BUF_CHANNEL_SIZE
  <1>2. handler' \in [pc : {"idle", "signal", "stuck"}] /\ handler'.pc # "backup"
    BY DEF VrrpSendPkt, AfterSendPkt, Idle
  <1>3. TypeOK' BY <1>1, <1>2 DEF TypeOK, VrrpSendPkt
  <1> QED BY <1>2, <1>3, QuietStep DEF VrrpSendPkt, CallbackRunning, Running

LEMMA LinkStep ==
    ASSUME IInv, LinkChanges \/ IntfDone \/ IntfSends \/ \E k \in Key : VrrpHandleIntfUpEvent(k)
    PROVE  IInv'
  <1> USE DEF IInv
  <1>1. CASE LinkChanges
    <2>1. events' \in 0..MaxEvents
      BY <1>1, BoundAssumption DEF LinkChanges, Event, TypeOK
    <2>2. /\ intf' \in [pc : {"up", "down"}, todo : SUBSET Key]
          /\ intf'.pc \notin {"send", "wait"}
      BY <1>1 DEF LinkChanges
    <2>3. TypeOK' BY <1>1, <2>1, <2>2 DEF LinkChanges, TypeOK
    <2> QED BY <1>1, <2>2, <2>3, QuietStep DEF LinkChanges, CallbackRunning, Running
  <1>2. CASE IntfDone
    <2>1. TypeOK' BY <1>2 DEF IntfDone, TypeOK
    <2> QED BY <1>2, <2>1, QuietStep DEF IntfDone, Idle, CallbackRunning, Running
  <1>3. CASE IntfSends
    <2>1. intf.todo \in SUBSET Key /\ intf.key \in Key /\ intf.copy \in VrrpGlobalInfo
      BY <1>3, IntfType DEF IntfSends
    <2>2. intf \in [pc : {"send", "wait"}, todo : SUBSET Key, key : Key, copy : VrrpGlobalInfo]
      BY <1>3 DEF IntfSends, TypeOK, Idle
    <2>3. /\ intf' \in [pc : {"send", "wait"}, todo : SUBSET Key, key : Key, copy : VrrpGlobalInfo]
          /\ intf'.pc = "wait" /\ intf'.key = intf.key /\ intf'.copy = intf.copy
      BY <1>3, <2>2 DEF IntfSends
    <2>4. txCh' \in Seq(Key) /\ Len(txCh') <= VRRP_TX_BUF_CHANNEL_SIZE
      BY <1>3, <2>1, TxChannel DEF IntfSends
    <2>5. TypeOK' BY <1>3, <2>3, <2>4 DEF IntfSends, TypeOK
    <2> QED BY <1>3, <2>3, <2>5, QuietStep DEF IntfSends, CallbackRunning, Running
  <1>4. ASSUME NEW k \in Key, VrrpHandleIntfUpEvent(k) PROVE IInv'
    <2>1. intf \in [pc : {"up", "down"}, todo : SUBSET Key]
      BY <1>4 DEF VrrpHandleIntfUpEvent, TypeOK, Idle
    <2>2. /\ intf' \in [pc : {"up", "down"}, todo : SUBSET Key]
          /\ intf'.pc \notin {"send", "wait"}
      BY <1>4, <2>1 DEF VrrpHandleIntfUpEvent
    <2>3. [key |-> k, priority |-> NoPacket] \in VrrpFsm BY DEF VrrpFsm
    <2>4. fsmCh' \in Seq(VrrpFsm) /\ Len(fsmCh') <= VRRP_FSM_CHANNEL_SIZE
      BY <1>4, <2>3, FsmChannel DEF VrrpHandleIntfUpEvent
    <2>5. TypeOK' BY <1>4, <2>2, <2>4 DEF VrrpHandleIntfUpEvent, TypeOK
    <2> QED BY <1>4, <2>2, <2>5, QuietStep DEF VrrpHandleIntfUpEvent, CallbackRunning, Running
  <1> QED BY <1>1, <1>2, <1>3, <1>4

LEMMA ReceiveStep ==
    ASSUME IInv, NEW k \in Key, VrrpReceivePackets(k)
    PROVE  IInv'
  <1> USE DEF IInv
  <1>1. events' \in 0..MaxEvents
    BY BoundAssumption DEF VrrpReceivePackets, Event, TypeOK
  <1>2. rxCh' \in Seq(VrrpFsm) /\ Len(rxCh') <= RxCapacity
    <2>1. PICK p \in Advertised : rxCh' = Append(rxCh, [key |-> k, priority |-> p])
      BY DEF VrrpReceivePackets
    <2>2. [key |-> k, priority |-> p] \in VrrpFsm BY DEF VrrpFsm
    <2> QED BY <2>1, <2>2, BoundAssumption DEF TypeOK, VrrpReceivePackets
  <1>3. TypeOK' BY <1>1, <1>2 DEF TypeOK, VrrpReceivePackets
  <1> QED BY <1>3, QuietStep DEF VrrpReceivePackets, CallbackRunning, Running

LEMMA CallbackWaitStep ==
    ASSUME IInv, NEW c \in Callback, CallbackSends(c) \/ CallbackSignalled(c) \/ EnableVip(c)
    PROVE  IInv'
  <1> USE DEF IInv
  <1>1. CASE CallbackSends(c)
    <2> DEFINE d == [c EXCEPT !.pc = "wait"]
    <2>1. d \in Callback /\ c # d /\ c.kind = d.kind /\ c.key = d.key /\ c.key \in Key
      BY <1>1 DEF Callback, CallbackSends
    <2>2. thread' = Move(c, d) /\ Running(c) BY <1>1 DEF CallbackSends
    <2> HIDE DEF d
    <2>3. thread' \in [Callback -> Nat] BY <2>1, <2>2, MoveFacts
    <2>4. txCh' \in Seq(Key) /\ Len(txCh') <= VRRP_TX_BUF_CHANNEL_SIZE
      BY <1>1, <2>1, TxChannel DEF CallbackSends
    <2>5. TypeOK' BY <1>1, <2>3, <2>4 DEF CallbackSends, TypeOK
    <2>6. \A k \in Key : CallbackRunning("adver", k) => CallbackRunning("adver", k)'
      BY <2>1, <2>2, MovedRuns
    <2> QED BY <1>1, <2>5, <2>6, QuietStep DEF CallbackSends
  <1>2. CASE CallbackSignalled(c)
    <2> DEFINE d == [c EXCEPT !.pc = IF c.kind = "down" THEN "vip" ELSE "set"]
    <2>1. d \in Callback /\ c # d /\ c.kind = d.kind /\ c.key = d.key /\ c.key \in Key
      BY <1>2 DEF Callback, CallbackSignalled
    <2>2. thread' = Move(c, d) /\ Running(c) BY <1>2 DEF CallbackSignalled
    <2> HIDE DEF d
    <2>3. thread' \in [Callback -> Nat] BY <2>1, <2>2, MoveFacts
    <2>4. handler' \in [pc : {"idle", "signal", "stuck"}] /\ handler'.pc # "backup"
      BY <1>2 DEF CallbackSignalled, Idle
    <2>5. TypeOK' BY <1>2, <2>3, <2>4 DEF CallbackSignalled, TypeOK
    <2>6. \A k \in Key : CallbackRunning("adver", k) => CallbackRunning("adver", k)'
      BY <2>1, <2>2, MovedRuns
    <2> QED BY <1>2, <2>4, <2>5, <2>6, QuietStep DEF CallbackSignalled
  <1>3. CASE EnableVip(c) /\ Found(c.key)
    <2> DEFINE d == [c EXCEPT !.pc = "set"]
    <2>1. d \in Callback /\ c # d /\ c.kind = d.kind /\ c.key = d.key /\ c.key \in Key
      BY <1>3 DEF Callback, EnableVip
    <2>2. thread' = Move(c, d) /\ Running(c) BY <1>3 DEF EnableVip
    <2> HIDE DEF d
    <2>3. thread' \in [Callback -> Nat] BY <2>1, <2>2, MoveFacts
    <2>4. vip' \in [Key -> BOOLEAN] BY <1>3, <2>1 DEF EnableVip, TypeOK
    <2>5. TypeOK' BY <1>3, <2>3, <2>4 DEF EnableVip, TypeOK
    <2>6. \A k \in Key : CallbackRunning("adver", k) => CallbackRunning("adver", k)'
      BY <2>1, <2>2, MovedRuns
    <2> QED BY <1>3, <2>5, <2>6, QuietStep DEF EnableVip
  <1>4. CASE EnableVip(c) /\ ~Found(c.key)
    <2>1. thread' = End(c) /\ Running(c) /\ vip' = vip BY <1>4 DEF EnableVip
    <2>2. thread' \in [Callback -> Nat] BY <2>1, EndFacts
    <2>3. TypeOK' BY <1>4, <2>1, <2>2 DEF EnableVip, TypeOK
    <2>4. \A k \in Key : Found(k) /\ CallbackRunning("adver", k) => CallbackRunning("adver", k)'
      BY <1>4, <2>1, EndedRuns
    <2> QED BY <1>4, <2>3, <2>4, QuietStep DEF EnableVip
  <1> QED BY <1>1, <1>2, <1>3, <1>4

-----------------------------------------------------------------------------
(* Timers that fire, callbacks that end                                     *)

LEMMA FireStep ==
    ASSUME IInv, NEW t \in DOMAIN timer, Fire(t)
    PROVE  IInv'
  <1> USE DEF IInv
  <1> DEFINE r == [timer[t] EXCEPT !.armed = FALSE]
             x == At(timer[t].kind, timer[t].key, "tx")
  <1>1. timer \in Seq(Timer) /\ Len(timer) \in Nat /\ t \in 1..Len(timer) /\ timer[t] \in Timer
    BY ElementOfSeq, LenProperties DEF TypeOK
  <1>2. x \in Callback BY <1>1 DEF At, Callback, Timer
  <1>3. /\ Keeps(timer, timer')
        /\ Len(timer') = Len(timer)
        /\ \A i \in 1..Len(timer) : i # t => timer'[i] = timer[i]
    <2>1. timer' = Stop(timer, t)
      BY <1>1 DEF Fire, Stop
    <2> QED BY <1>1, <2>1, StopFacts
  <1>4. /\ thread' \in [Callback -> Nat]
        /\ thread'[x] > 0
        /\ \A y \in Callback : thread'[y] >= thread[y]
    BY <1>2 DEF Fire, TypeOK
  <1>5. TypeOK' BY <1>3, <1>4 DEF Fire, TypeOK, Keeps
  <1>6. UNCHANGED <<gbl, handler, intf>> BY DEF Fire
  <1>7. EntriesOwn' BY <1>3, <1>6, EntriesKept DEF Found
  <1>8. HandlerCopyOwns' /\ IntfCopyOwns' BY <1>3, <1>6, CopiesKept
  <1>9. ASSUME NEW k \in Key, Found(k), gbl[k].state = "Master", Advertises(k)
        PROVE  Advertises(k)'
    <2>1. CASE gbl[k].adver = t
      <3>1. x = At("adver", k, "tx")
        BY <1>9, <2>1 DEF EntriesOwn, OwnTimers, Points, MasterHasTimer
      <3>2. CallbackRunning("adver", k)' BY <1>4, <3>1 DEF CallbackRunning, Running
      <3> QED BY <3>2 DEF Advertises
    <2>2. CASE CallbackRunning("adver", k)
      <3>1. PICK pc \in {"tx", "wait", "vip", "set"} : thread[At("adver", k, pc)] > 0
        BY <2>2 DEF CallbackRunning, Running
      <3>2. At("adver", k, pc) \in Callback BY DEF At, Callback
      <3>3. thread'[At("adver", k, pc)] > 0 BY <1>4, <3>1, <3>2 DEF TypeOK
      <3>4. CallbackRunning("adver", k)' BY <3>3 DEF CallbackRunning, Running
      <3> QED BY <3>4 DEF Advertises
    <2>3. CASE gbl[k].adver # t /\ ~CallbackRunning("adver", k)
      <3>1. gbl[k].adver \in 1..Len(timer)
        BY <1>9 DEF EntriesOwn, OwnTimers, Points, MasterHasTimer
      <3> QED BY <1>3, <1>6, <1>9, <2>3, <3>1 DEF Advertises
    <2> QED BY <2>1, <2>2, <2>3
  <1>10. MasterHasTimer' /\ MasterAdvertises' BY <1>6, <1>9, MastersKept DEF Found
  <1> QED BY <1>5, <1>7, <1>8, <1>10

LEMMA BecomeMasterStep ==
    ASSUME IInv, NEW c \in Callback, BecomeMaster(c)
    PROVE  IInv'
  <1> USE DEF IInv
  <1>0. c.key \in Key BY DEF Callback
  <1>1. thread' \in [Callback -> Nat] BY EndFacts DEF BecomeMaster
  <1>2. \A k \in Key : CallbackRunning("adver", k) => CallbackRunning("adver", k)'
    <2>1. c.kind # "adver" BY DEF BecomeMaster
    <2> QED BY <2>1, EndedRuns DEF BecomeMaster
  <1>3. CASE ~Found(c.key)
    <2>1. UNCHANGED <<timer, gbl, handler, intf>> BY <1>3 DEF BecomeMaster
    <2>2. TypeOK' BY <1>1, <2>1 DEF BecomeMaster, TypeOK
    <2> QED BY <1>2, <2>1, <2>2, QuietStep
  <1>4. CASE Found(c.key)
    <2> DEFINE k == c.key
               e == [gbl[k] EXCEPT !.state = "Master", !.adver = Len(timer) + 1]
    <2>1. /\ timer \in Seq(Timer) /\ Len(timer) \in Nat
          /\ Len(timer) < MaxTimers /\ MaxTimers \in Nat
      BY <1>4, BoundAssumption, LenProperties DEF TypeOK, BecomeMaster
    <2>2. Len(timer) + 1 \in 0..MaxTimers BY <2>1
    <2>3. gbl[k] \in VrrpGlobalInfo BY <1>0, <1>4, EntryType
    <2>4. /\ e \in VrrpGlobalInfo /\ e.state = "Master" /\ e.found
          /\ e.down = gbl[k].down /\ e.adver = Len(timer) + 1
      BY <2>2, <2>3 DEF VrrpGlobalInfo, StateName
    <2>5. /\ Keeps(timer, timer')
          /\ Len(timer') = Len(timer) + 1
          /\ timer'[Len(timer) + 1] = [kind |-> "adver", key |-> k, armed |-> TRUE]
          /\ \A i \in 1..Len(timer) : timer'[i] = timer[i]
      <3>1. timer' = Append(timer, [kind |-> "adver", key |-> k, armed |-> TRUE])
        BY <1>4 DEF BecomeMaster, AfterFunc
      <3>2. k \in Key BY <1>0
      <3> HIDE DEF k
      <3> QED BY <2>1, <3>1, <3>2, AppendFacts
    <2>6. gbl' = [gbl EXCEPT ![k] = e]
      BY <1>0, <1>4, <2>3 DEF BecomeMaster, TypeOK, VrrpGlobalInfo
    <2>7. OwnTimers(gbl[k], k, timer') 
      BY <1>0, <1>4, <2>1, <2>5, OwnTimersKept DEF EntriesOwn
    <2>8. OwnTimers(e, k, timer')
      BY <2>1, <2>4, <2>5, <2>7 DEF OwnTimers, Points
    <2> HIDE DEF e
    <2>9. /\ gbl' \in [Key -> VrrpGlobalInfo \cup {NoEntry}]
          /\ gbl'[k] = e
          /\ \A j \in Key : j # k => gbl'[j] = gbl[j]
      BY <1>0, <2>4, <2>6 DEF TypeOK
    <2>10. UNCHANGED <<handler, intf>> BY DEF BecomeMaster
    <2>11. TypeOK' BY <1>1, <2>1, <2>5, <2>9 DEF BecomeMaster, TypeOK, Keeps
    <2>12. EntriesOwn' BY <2>5, <2>8, <2>9, EntriesKept DEF Found
    <2>13. HandlerCopyOwns' /\ IntfCopyOwns' BY <2>5, <2>10, CopiesKept
    <2>14. gbl'[k].adver # 0 /\ Advertises(k)'
      BY <2>1, <2>4, <2>5, <2>9 DEF Advertises
    <2>15. ASSUME NEW j \in Key, j # k, Found(j), gbl[j].state = "Master", Advertises(j)
           PROVE  Advertises(j)'
      <3>1. gbl[j].adver \in 1..Len(timer)
        BY <2>15 DEF EntriesOwn, OwnTimers, Points, MasterHasTimer
      <3> QED BY <1>2, <2>5, <2>9, <2>10, <2>15, <3>1 DEF Advertises
    <2>16. MasterHasTimer' /\ MasterAdvertises'
      BY <2>9, <2>14, <2>15, MastersKept DEF Found
    <2> QED BY <2>11, <2>12, <2>13, <2>16
  <1> QED BY <1>3, <1>4

LEMMA RestartAdverTimerStep ==
    ASSUME IInv, NEW c \in Callback, RestartAdverTimer(c)
    PROVE  IInv'
  <1> USE DEF IInv
  <1> DEFINE k == c.key
  <1>0. k \in Key BY DEF Callback
  <1>1. thread' \in [Callback -> Nat] BY EndFacts DEF RestartAdverTimer
  <1>2. \A j \in Key : j # k /\ CallbackRunning("adver", j) => CallbackRunning("adver", j)'
    BY EndedRuns DEF RestartAdverTimer
  <1>3. UNCHANGED <<gbl, handler, intf>> BY DEF RestartAdverTimer
  <1>4. CASE Found(k) /\ gbl[k].adver # 0
    <2> DEFINE a == gbl[k].adver
    <2>1. timer \in Seq(Timer) /\ a \in 1..Len(timer)
      BY <1>0, <1>4 DEF TypeOK, EntriesOwn, OwnTimers, Points
    <2>2. timer' = Arm(timer, a) /\ UNCHANGED crashed
      BY <1>4 DEF RestartAdverTimer
    <2> HIDE DEF a
    <2>3. /\ Keeps(timer, timer')
          /\ Len(timer') = Len(timer)
          /\ timer'[a].armed
          /\ \A i \in 1..Len(timer) : timer[i].armed => timer'[i].armed
      BY <2>1, <2>2, ArmFacts
    <2>4. TypeOK' BY <1>1, <2>2, <2>3 DEF RestartAdverTimer, TypeOK, Keeps
    <2>5. EntriesOwn' BY <1>3, <2>3, EntriesKept DEF Found
    <2>6. HandlerCopyOwns' /\ IntfCopyOwns' BY <1>3, <2>3, CopiesKept
    <2>7. gbl'[k].adver # 0 /\ Advertises(k)'
      BY <1>3, <1>4, <2>3 DEF Advertises, a
    <2>8. ASSUME NEW j \in Key, j # k, Found(j), gbl[j].state = "Master", Advertises(j)
          PROVE  Advertises(j)'
      <3>1. gbl[j].adver \in 1..Len(timer)
        BY <2>8 DEF EntriesOwn, OwnTimers, Points, MasterHasTimer
      <3> QED BY <1>2, <1>3, <2>3, <2>8, <3>1 DEF Advertises
    <2>9. MasterHasTimer' /\ MasterAdvertises'
      BY <1>3, <2>7, <2>8, MastersKept DEF Found
    <2> QED BY <2>4, <2>5, <2>6, <2>9
  <1>5. CASE ~(Found(k) /\ gbl[k].adver # 0)
    <2>1. UNCHANGED timer /\ crashed' \in BOOLEAN
      BY <1>5 DEF RestartAdverTimer, TypeOK
    <2>2. TypeOK' BY <1>1, <2>1 DEF RestartAdverTimer, TypeOK
    <2>3. Keeps(timer, timer') BY <2>1, KeepsItself DEF TypeOK
    <2>4. EntriesOwn' BY <1>3, <2>3, EntriesKept DEF Found
    <2>5. HandlerCopyOwns' /\ IntfCopyOwns' BY <1>3, <2>3, CopiesKept
    <2>6. ~(Found(k) /\ gbl[k].state = "Master")
      BY <1>0, <1>5 DEF MasterHasTimer
    <2>7. \A j \in Key : j # k /\ Advertises(j) => Advertises(j)'
      BY <1>2, <1>3, <2>1 DEF Advertises
    <2>8. MasterHasTimer' /\ MasterAdvertises'
      BY <1>3, <2>6, <2>7, MastersKept DEF Found
    <2> QED BY <2>2, <2>4, <2>5, <2>8
  <1> QED BY <1>4, <1>5

-----------------------------------------------------------------------------
(* Configuration                                                            *)

\* A step that only writes the entry of k, which is then no master.
LEMMA EntryStep ==
    ASSUME IInv, TypeOK', NEW k \in Key, Keeps(timer, timer'),
           \A i \in 1..Len(timer) : timer[i].armed => timer'[i].armed,
           UNCHANGED <<thread, intf>>,
           handler' = handler \/ (handler.pc # "backup" /\ handler'.pc # "backup")
                              \/ (handler.key = k /\ handler'.pc # "backup"),
           \A j \in Key : j # k => gbl'[j] = gbl[j],
           Found(k)' => gbl'[k].state # "Master" /\ OwnTimers(gbl'[k], k, timer')
    PROVE  IInv'
  <1> USE DEF IInv
  <1>1. EntriesOwn' BY EntriesKept DEF Found
  <1>2. HandlerCopyOwns' /\ IntfCopyOwns' BY CopiesKept
  <1>3. ASSUME NEW j \in Key, j # k, Found(j), gbl[j].state = "Master", Advertises(j)
        PROVE  Advertises(j)'
    <2>1. gbl[j].adver \in 1..Len(timer)
      BY <1>3 DEF EntriesOwn, OwnTimers, Points, MasterHasTimer
    <2>2. CallbackRunning("adver", j) => CallbackRunning("adver", j)'
      BY DEF CallbackRunning, Running
    <2> QED BY <1>3, <2>1, <2>2 DEF Advertises
  <1>4. MasterHasTimer' /\ MasterAdvertises'
    BY <1>3, MastersKept DEF Found
  <1> QED BY <1>1, <1>2, <1>4

LEMMA NewEntryFacts ==
    ASSUME TypeOK, NEW k \in Key, NewEntry(k)
    PROVE  /\ gbl' \in [Key -> VrrpGlobalInfo \cup {NoEntry}]
           /\ gbl'[k].state = "Initialize"
           /\ \A ts : OwnTimers(gbl'[k], k, ts)
           /\ \A j \in Key : j # k => gbl'[j] = gbl[j]
           /\ listens' \subseteq Key
  <1>1. PICK p \in Priorities, m \in Preempts, l \in Listening :
          /\ gbl' = [gbl EXCEPT ![k] =
                        [found |-> TRUE, state |-> "Initialize", priority |-> p, preempt |-> m,
                         pHandle |-> l, down |-> 0, adver |-> 0]]
          /\ listens' = IF l THEN listens \cup {k} ELSE listens
    BY DEF NewEntry
  <1> DEFINE e == [found |-> TRUE, state |-> "Initialize", priority |-> p, preempt |-> m,
                   pHandle |-> l, down |-> 0, adver |-> 0]
  <1>2. 0 \in 0..MaxTimers BY BoundAssumption
  <1>3. /\ e \in VrrpGlobalInfo
        /\ e.state = "Initialize" /\ e.down = 0 /\ e.adver = 0
    BY <1>2 DEF VrrpGlobalInfo, StateName
  <1>4. gbl' = [gbl EXCEPT ![k] = e] BY <1>1
  <1> HIDE DEF e
  <1>5. /\ gbl' \in [Key -> VrrpGlobalInfo \cup {NoEntry}]
        /\ gbl'[k] = e
        /\ \A j \in Key : j # k => gbl'[j] = gbl[j]
    BY <1>3, <1>4 DEF TypeOK
  <1>6. \A ts : OwnTimers(gbl'[k], k, ts)
    BY <1>3, <1>5 DEF OwnTimers, Points
  <1>7. listens' \subseteq Key BY <1>1 DEF TypeOK
  <1> QED BY <1>3, <1>5, <1>6, <1>7

LEMMA ReadDBStep == IInv /\ VrrpReadDB => IInv'
  <1> SUFFICES ASSUME IInv, VrrpReadDB PROVE IInv'
    OBVIOUS
  <1> USE DEF IInv
  <1>1. handler \in [pc : {"boot"}, todo : SUBSET Key] BY DEF VrrpReadDB, TypeOK
  <1>2. Keeps(timer, timer') BY KeepsItself DEF VrrpReadDB, TypeOK
  <1>3. CASE \E k \in handler.todo : 
                /\ NewEntry(k)
                /\ IF Len(fsmCh) < VRRP_FSM_CHANNEL_SIZE
                   THEN /\ fsmCh' = Append(fsmCh, [key |-> k, priority |-> NoPacket])
                        /\ handler' = [handler EXCEPT !.todo = @ \ {k}]
                   ELSE fsmCh' = fsmCh /\ handler' = [pc |-> "stuck"]
    <2>1. PICK k \in Key :
                /\ NewEntry(k)
                /\ IF Len(fsmCh) < VRRP_FSM_CHANNEL_SIZE
                   THEN /\ fsmCh' = Append(fsmCh, [key |-> k, priority |-> NoPacket])
                        /\ handler' = [handler EXCEPT !.todo = @ \ {k}]
                   ELSE fsmCh' = fsmCh /\ handler' = [pc |-> "stuck"]
      BY <1>1, <1>3
    <2>2. [key |-> k, priority |-> NoPacket] \in VrrpFsm BY DEF VrrpFsm
    <2>3. fsmCh' \in Seq(VrrpFsm) /\ Len(fsmCh') <= VRRP_FSM_CHANNEL_SIZE
      <3>1. CASE Len(fsmCh) < VRRP_FSM_CHANNEL_SIZE
        BY <2>1, <2>2, <3>1, FsmChannel
      <3>2. CASE ~(Len(fsmCh) < VRRP_FSM_CHANNEL_SIZE)
        BY <2>1, <3>2 DEF TypeOK
      <3> QED BY <3>1, <3>2
    <2>4. /\ handler' \in [pc : {"idle", "signal", "stuck"}] \cup [pc : {"boot"}, todo : SUBSET Key]
          /\ handler'.pc # "backup"
      BY <1>1, <2>1
    <2>5. /\ gbl' \in [Key -> VrrpGlobalInfo \cup {NoEntry}]
          /\ gbl'[k].state = "Initialize"
          /\ OwnTimers(gbl'[k], k, timer')
          /\ \A j \in Key : j # k => gbl'[j] = gbl[j]
          /\ listens' \subseteq Key
      BY <2>1, NewEntryFacts
    <2>6. TypeOK' BY <2>3, <2>4, <2>5 DEF VrrpReadDB, TypeOK
    <2> QED BY <1>1, <1>2, <2>4, <2>5, <2>6, EntryStep DEF VrrpReadDB
  <1>4. CASE handler' = Idle /\ UNCHANGED <<gbl, fsmCh, listens>>
    <2>1. handler' \in [pc : {"idle", "signal", "stuck"}] /\ handler'.pc # "backup"
      BY <1>4 DEF Idle
    <2>2. TypeOK' BY <1>4, <2>1 DEF VrrpReadDB, TypeOK
    <2> QED BY <1>1, <1>4, <2>1, <2>2, QuietStep DEF VrrpReadDB, CallbackRunning, Running
  <1> QED BY <1>3, <1>4 DEF VrrpReadDB

LEMMA ConfigStep ==
    ASSUME IInv, NEW k \in Key,
           VrrpCreateGblInfo(k) \/ VrrpDeleteGblInfo(k) \/ VrrpUpdateIntf(k)
    PROVE  IInv'
  <1> USE DEF IInv
  <1>1. events' \in 0..MaxEvents
    BY BoundAssumption DEF VrrpCreateGblInfo, VrrpDeleteGblInfo, VrrpUpdateIntf, Event, TypeOK
  <1>2. timer \in Seq(Timer) /\ Keeps(timer, timer) BY KeepsItself DEF TypeOK
  <1>3. CASE VrrpCreateGblInfo(k)
    <2>1. NewEntry(k) /\ SendToFsm([key |-> k, priority |-> NoPacket])
      BY <1>3 DEF VrrpCreateGblInfo
    <2>2. [key |-> k, priority |-> NoPacket] \in VrrpFsm BY DEF VrrpFsm
    <2>3. fsmCh' \in Seq(VrrpFsm) /\ Len(fsmCh') <= VRRP_FSM_CHANNEL_SIZE
      <3>1. CASE Len(fsmCh) < VRRP_FSM_CHANNEL_SIZE
        BY <2>1, <2>2, <3>1, FsmChannel DEF SendToFsm
      <3>2. CASE ~(Len(fsmCh) < VRRP_FSM_CHANNEL_SIZE)
        BY <2>1, <3>2 DEF SendToFsm, TypeOK
      <3> QED BY <3>1, <3>2
    <2>4. handler' \in [pc : {"idle", "signal", "stuck"}] /\ handler'.pc # "backup"
      BY <2>1 DEF SendToFsm, Idle
    <2>5. /\ gbl' \in [Key -> VrrpGlobalInfo \cup {NoEntry}]
          /\ gbl'[k].state = "Initialize"
          /\ OwnTimers(gbl'[k], k, timer')
          /\ \A j \in Key : j # k => gbl'[j] = gbl[j]
          /\ listens' \subseteq Key
      BY <2>1, NewEntryFacts
    <2>6. TypeOK' BY <1>1, <1>3, <2>3, <2>4, <2>5 DEF VrrpCreateGblInfo, TypeOK
    <2> QED BY <1>2, <1>3, <2>4, <2>5, <2>6, EntryStep DEF VrrpCreateGblInfo
  <1>4. CASE VrrpDeleteGblInfo(k)
    <2>1. /\ gbl' \in [Key -> VrrpGlobalInfo \cup {NoEntry}]
          /\ ~Found(k)'
          /\ \A j \in Key : j # k => gbl'[j] = gbl[j]
      BY <1>4 DEF VrrpDeleteGblInfo, TypeOK, Found, NoEntry
    <2>2. vip' \in [Key -> BOOLEAN] BY <1>4 DEF VrrpDeleteGblInfo, TypeOK
    <2>3. TypeOK' BY <1>1, <1>4, <2>1, <2>2 DEF VrrpDeleteGblInfo, TypeOK
    <2> QED BY <1>2, <1>4, <2>1, <2>3, EntryStep DEF VrrpDeleteGblInfo
  <1>5. ASSUME VrrpUpdateIntf(k), VrrpHandleMasterDownTimer(k, gbl[k], timer) PROVE IInv'
    <2>1. gbl[k] \in VrrpGlobalInfo /\ OwnTimers(gbl[k], k, timer)
      BY <1>5, EntryType DEF VrrpUpdateIntf, EntriesOwn
    <2>2. /\ Keeps(timer, timer') /\ Len(timer') <= MaxTimers
          /\ \A i \in 1..Len(timer) : timer[i].armed => timer'[i].armed
          /\ gbl' \in [Key -> VrrpGlobalInfo \cup {NoEntry}]
          /\ gbl'[k].state = "Backup"
          /\ OwnTimers(gbl'[k], k, timer')
          /\ \A j \in Key : j # k => gbl'[j] = gbl[j]
      BY <1>5, <2>1, DownTimerFacts
    <2>3. TypeOK' BY <1>1, <1>5, <2>2 DEF VrrpUpdateIntf, TypeOK, Keeps
    <2> QED BY <1>5, <2>2, <2>3, EntryStep DEF VrrpUpdateIntf
  <1>6. ASSUME VrrpUpdateIntf(k), UNCHANGED timer, NEW p \in Priorities, NEW m \in Preempts,
               gbl' = [gbl EXCEPT ![k].priority = p, ![k].preempt = m]
        PROVE  IInv'
    <2> DEFINE e == [gbl[k] EXCEPT !.priority = p, !.preempt = m]
    <2>1. gbl[k] \in VrrpGlobalInfo BY <1>6, EntryType DEF VrrpUpdateIntf
    <2>2. /\ e \in VrrpGlobalInfo
          /\ e.state = gbl[k].state /\ e.down = gbl[k].down /\ e.adver = gbl[k].adver
      BY <2>1 DEF VrrpGlobalInfo
    <2>3. gbl' = [gbl EXCEPT ![k] = e] BY <1>6, <2>1 DEF TypeOK, VrrpGlobalInfo
    <2> HIDE DEF e
    <2>4. /\ gbl' \in [Key -> VrrpGlobalInfo \cup {NoEntry}]
          /\ gbl'[k] = e
          /\ \A j \in Key : j # k => gbl'[j] = gbl[j]
      BY <2>2, <2>3 DEF TypeOK
    <2>5. Found(k) /\ UNCHANGED <<thread, handler, intf>> BY <1>6 DEF VrrpUpdateIntf
    <2>6. \A j \in Key : /\ Found(j)' => Found(j)
                         /\ gbl'[j].state = gbl[j].state
                         /\ gbl'[j].down = gbl[j].down
                         /\ gbl'[j].adver = gbl[j].adver
      BY <2>2, <2>4, <2>5 DEF Found
    <2>7. TypeOK' BY <1>1, <1>6, <2>4 DEF VrrpUpdateIntf, TypeOK
    <2>8. EntriesOwn' BY <1>2, <1>6, <2>6, EntriesKept
    <2>9. HandlerCopyOwns' /\ IntfCopyOwns' BY <1>2, <1>6, <2>5, CopiesKept
    <2>10. \A j \in Key : Advertises(j) => Advertises(j)'
      BY <1>6, <2>5, <2>6 DEF Advertises, CallbackRunning, Running
    <2>11. MasterHasTimer' /\ MasterAdvertises' BY <2>6, <2>10, MastersKept
    <2> QED BY <2>7, <2>8, <2>9, <2>11
  <1> QED BY <1>3, <1>4, <1>5, <1>6 DEF VrrpUpdateIntf

-----------------------------------------------------------------------------
(* The handler                                                              *)

LEMMA FinishBackupStep == IInv /\ FinishBackup => IInv'
  <1> SUFFICES ASSUME IInv, FinishBackup PROVE IInv'
    OBVIOUS
  <1> USE DEF IInv
  <1> DEFINE k == handler.key
             e == handler.copy
  <1>1. handler.pc = "backup" /\ VrrpHandleMasterDownTimer(k, e, timer) /\ handler' = Idle
    BY DEF FinishBackup
  <1>2. k \in Key /\ e \in VrrpGlobalInfo /\ OwnTimers(e, k, timer)
    BY <1>1, HandlerType DEF HandlerCopyOwns
  <1> HIDE DEF k, e
  <1>3. /\ Keeps(timer, timer') /\ Len(timer') <= MaxTimers
        /\ \A i \in 1..Len(timer) : timer[i].armed => timer'[i].armed
        /\ gbl' \in [Key -> VrrpGlobalInfo \cup {NoEntry}]
        /\ gbl'[k].state = "Backup"
        /\ OwnTimers(gbl'[k], k, timer')
        /\ \A j \in Key : j # k => gbl'[j] = gbl[j]
    BY <1>1, <1>2, DownTimerFacts
  <1>4. handler' \in [pc : {"idle", "signal", "stuck"}] /\ handler'.pc # "backup"
    BY <1>1 DEF Idle
  <1>5. TypeOK' BY <1>3, <1>4 DEF FinishBackup, TypeOK, Keeps
  <1>6. handler.key = k BY DEF k
  <1> QED BY <1>2, <1>3, <1>4, <1>5, <1>6, EntryStep DEF FinishBackup

\* The entry of k is copied for the transition to backup; its AdverTimer may
\* have been stopped.
LEMMA TransitionStep ==
    ASSUME IInv, TypeOK', NEW k \in Key, Found(k), VrrpTransitionToBackup(k),
           UNCHANGED <<gbl, thread, intf>>, handler.pc = "idle",
           timer' = timer \/ timer' = Stop(timer, gbl[k].adver)
    PROVE  IInv'
  <1> USE DEF IInv
  <1>1. timer \in Seq(Timer) /\ Len(timer) \in Nat BY LenProperties DEF TypeOK
  <1>2. handler' = [pc |-> "backup", key |-> k, copy |-> gbl[k]] BY DEF VrrpTransitionToBackup
  <1>3. gbl[k] \in VrrpGlobalInfo /\ OwnTimers(gbl[k], k, timer) BY EntryType DEF EntriesOwn
  <1>4. gbl[k].adver \in 0..Len(timer)
    BY <1>1, <1>3 DEF VrrpGlobalInfo, OwnTimers, Points
  <1>5. /\ Keeps(timer, timer')
        /\ \A i \in 1..Len(timer) : i # gbl[k].adver => timer'[i] = timer[i]
    BY <1>1, <1>4, StopFacts, KeepsItself
  <1>6. EntriesOwn' BY <1>5, EntriesKept DEF Found
  <1>7. OwnTimers(gbl[k], k, timer') BY <1>1, <1>3, <1>5, OwnTimersKept
  <1>8. HandlerCopyOwns' BY <1>2, <1>7 DEF HandlerCopyOwns
  <1>9. intf.pc \in {"send", "wait"} => OwnTimers(intf.copy, intf.key, timer')
    BY <1>1, <1>5, OwnTimersKept DEF IntfCopyOwns
  <1>10. IntfCopyOwns' BY <1>9 DEF IntfCopyOwns
  <1>11. gbl[k].state = "Master" => Advertises(k)' BY <1>2 DEF Advertises
  <1>12. ASSUME NEW j \in Key, j # k, Found(j), gbl[j].state = "Master", Advertises(j)
         PROVE  Advertises(j)'
    <2>1. gbl[j].adver \in 1..Len(timer) /\ timer[gbl[j].adver].key = j
      BY <1>12 DEF EntriesOwn, OwnTimers, Points, MasterHasTimer
    <2>2. gbl[j].adver # gbl[k].adver
      BY <1>3, <1>12, <2>1 DEF OwnTimers, Points
    <2>3. timer'[gbl[j].adver] = timer[gbl[j].adver] BY <1>5, <2>1, <2>2
    <2>4. CallbackRunning("adver", j) => CallbackRunning("adver", j)'
      BY DEF CallbackRunning, Running
    <2> QED BY <1>12, <2>3, <2>4 DEF Advertises
  <1>13. MasterHasTimer' /\ MasterAdvertises'
    BY <1>11, <1>12, MastersKept DEF Found
  <1> QED BY <1>6, <1>8, <1>10, <1>13

LEMMA FsmStartStep == IInv /\ VrrpFsmStart => IInv'
  <1> SUFFICES ASSUME IInv, VrrpFsmStart PROVE IInv'
    OBVIOUS
  <1> USE DEF IInv
  <1> DEFINE k == Head(fsmCh).key
             p == Head(fsmCh).priority
  <1>1. /\ handler.pc = "idle"
        /\ UNCHANGED <<thread, intf, rxCh, listens, link, events>>
    BY DEF VrrpFsmStart
  <1>2. /\ k \in Key
        /\ fsmCh' \in Seq(VrrpFsm) /\ Len(fsmCh') <= VRRP_FSM_CHANNEL_SIZE
    <2>1. /\ Head(fsmCh) \in VrrpFsm
          /\ fsmCh' \in Seq(VrrpFsm) /\ Len(fsmCh') <= VRRP_FSM_CHANNEL_SIZE
      BY DEF TypeOK, VrrpFsmStart, VRRP_FSM_CHANNEL_SIZE
    <2> QED BY <2>1 DEF VrrpFsm
  <1>3. \/ UNCHANGED <<handler, vip, gbl, timer, txCh>> /\ crashed' \in BOOLEAN
        \/ Found(k) /\ UNCHANGED crashed /\ VrrpInitState(k)
        \/ Found(k) /\ UNCHANGED crashed /\ VrrpBackupState(k, p)
        \/ Found(k) /\ UNCHANGED crashed /\ VrrpMasterState(k, p)
    <2>1. Found(k) => gbl[k].state \in StateName
      BY <1>2, EntryType DEF VrrpGlobalInfo
    <2>2. crashed \in BOOLEAN BY DEF TypeOK
    <2> QED BY <2>1, <2>2 DEF VrrpFsmStart, StateName
  <1> HIDE DEF k, p
  <1>4. CASE \/ UNCHANGED <<handler, vip, gbl, timer, txCh>> /\ crashed' \in BOOLEAN
             \/ handler' = Idle /\ UNCHANGED <<vip, gbl, timer, txCh, crashed>>
    <2>1. /\ handler' = handler \/ handler' \in [pc : {"idle", "signal", "stuck"}]
          /\ handler'.pc # "backup"
      BY <1>1, <1>4 DEF Idle
    <2>2. UNCHANGED <<vip, gbl, timer, txCh>> /\ crashed' \in BOOLEAN BY <1>4 DEF TypeOK
    <2>3. TypeOK' BY <1>1, <1>2, <2>1, <2>2 DEF TypeOK
    <2> QED BY <1>1, <2>1, <2>2, <2>3, QuietStep DEF CallbackRunning, Running
  <1>5. CASE WaitForItself(k) /\ UNCHANGED crashed
    <2>1. handler' \in [pc : {"idle", "signal", "stuck"}] /\ handler'.pc # "backup"
      BY <1>5 DEF WaitForItself
    <2>2. txCh' \in Seq(Key) /\ Len(txCh') <= VRRP_TX_BUF_CHANNEL_SIZE
      <3>1. CASE Len(txCh) < VRRP_TX_BUF_CHANNEL_SIZE
        BY <1>2, <1>5, <3>1, TxChannel DEF WaitForItself
      <3>2. CASE ~(Len(txCh) < VRRP_TX_BUF_CHANNEL_SIZE)
        BY <1>5, <3>2 DEF WaitForItself, TypeOK
      <3> QED BY <3>1, <3>2
    <2>3. TypeOK' BY <1>1, <1>2, <1>5, <2>1, <2>2 DEF WaitForItself, TypeOK
    <2> QED BY <1>1, <1>5, <2>1, <2>3, QuietStep DEF WaitForItself, CallbackRunning, Running
  <1>6. ASSUME Found(k), VrrpTransitionToBackup(k), UNCHANGED <<gbl, txCh, crashed>>,
               timer' = timer \/ timer' = Stop(timer, gbl[k].adver)
        PROVE  IInv'
    <2>1. gbl[k] \in VrrpGlobalInfo /\ OwnTimers(gbl[k], k, timer)
      BY <1>2, <1>6, EntryType DEF EntriesOwn
    <2>2. handler' \in [pc : {"backup"}, key : Key, copy : VrrpGlobalInfo]
      BY <1>2, <1>6, <2>1 DEF VrrpTransitionToBackup
    <2>3. timer' \in Seq(Timer) /\ Len(timer') <= MaxTimers
      <3>1. timer \in Seq(Timer) /\ Len(timer) \in Nat /\ Len(timer) <= MaxTimers
        BY LenProperties DEF TypeOK
      <3>2. gbl[k].adver \in 0..Len(timer)
        BY <2>1, <3>1 DEF VrrpGlobalInfo, OwnTimers, Points
      <3> QED BY <1>6, <3>1, <3>2, StopFacts DEF Keeps
    <2>4. vip' \in [Key -> BOOLEAN] BY <1>2, <1>6 DEF VrrpTransitionToBackup, TypeOK
    <2>5. TypeOK' BY <1>1, <1>2, <1>6, <2>2, <2>3, <2>4 DEF TypeOK
    <2> QED BY <1>1, <1>2, <1>6, <2>5, TransitionStep
  <1>7. CASE Found(k) /\ UNCHANGED crashed /\ VrrpInitState(k)
    BY <1>5, <1>6, <1>7 DEF VrrpInitState
  <1>8. ASSUME Found(k), VrrpHandleMasterDownTimer(k, gbl[k], timer), handler' = Idle,
               UNCHANGED <<vip, txCh, crashed>>
        PROVE  IInv'
    <2>1. gbl[k] \in VrrpGlobalInfo /\ OwnTimers(gbl[k], k, timer)
      BY <1>2, <1>8, EntryType DEF EntriesOwn
    <2>2. /\ Keeps(timer, timer') /\ Len(timer') <= MaxTimers
          /\ \A i \in 1..Len(timer) : timer[i].armed => timer'[i].armed
          /\ gbl' \in [Key -> VrrpGlobalInfo \cup {NoEntry}]
          /\ gbl'[k].state = "Backup"
          /\ OwnTimers(gbl'[k], k, timer')
          /\ \A j \in Key : j # k => gbl'[j] = gbl[j]
      BY <1>2, <1>8, <2>1, DownTimerFacts
    <2>3. handler' \in [pc : {"idle", "signal", "stuck"}] /\ handler'.pc # "backup"
      BY <1>8 DEF Idle
    <2>4. TypeOK' BY <1>1, <1>2, <1>8, <2>2, <2>3 DEF TypeOK, Keeps
    <2> QED BY <1>1, <1>2, <2>2, <2>3, <2>4, EntryStep
  <1>9. CASE Found(k) /\ UNCHANGED crashed /\ VrrpBackupState(k, p)
    BY <1>4, <1>5, <1>8, <1>9 DEF VrrpBackupState
  <1>10. CASE Found(k) /\ UNCHANGED crashed /\ VrrpMasterState(k, p)
    BY <1>4, <1>5, <1>6, <1>10 DEF VrrpMasterState
  <1> QED BY <1>3, <1>4, <1>7, <1>9, <1>10

-----------------------------------------------------------------------------
(* Link events                                                              *)

LEMMA StopTimersStep ==
    ASSUME IInv, NEW k \in Key, VrrpStopTimers(k)
    PROVE  IInv'
  <1> USE DEF IInv
  <1> DEFINE mid == Stop(timer, gbl[k].down)
             e == [gbl[k] EXCEPT !.state = "Initialize"]
  <1>0. Found(k) /\ intf.pc = "down" BY DEF VrrpStopTimers
  <1>1. timer \in Seq(Timer) /\ Len(timer) \in Nat /\ Len(timer) <= MaxTimers
    BY LenProperties DEF TypeOK
  <1>2. gbl[k] \in VrrpGlobalInfo /\ OwnTimers(gbl[k], k, timer) BY <1>0, EntryType DEF EntriesOwn
  <1>3. gbl[k].down \in 0..Len(timer) /\ gbl[k].adver \in 0..Len(timer)
    BY <1>1, <1>2 DEF VrrpGlobalInfo, OwnTimers, Points
  <1>4. /\ Keeps(timer, mid) /\ Len(mid) = Len(timer)
        /\ \A i \in 1..Len(timer) : i # gbl[k].down => mid[i] = timer[i]
    BY <1>1, <1>3, StopFacts
  <1>5. timer' = Stop(mid, gbl[k].adver) BY DEF VrrpStopTimers
  <1> HIDE DEF mid
  <1>6. /\ Keeps(mid, timer') /\ Len(timer') = Len(mid)
        /\ \A i \in 1..Len(timer) : i # gbl[k].adver => timer'[i] = mid[i]
    <2>1. mid \in Seq(Timer) /\ gbl[k].adver \in 0..Len(mid) BY <1>3, <1>4 DEF Keeps
    <2> QED BY <1>4, <1>5, <2>1, StopFacts
  <1>7. /\ Keeps(timer, timer') /\ Len(timer') <= MaxTimers
        /\ \A i \in 1..Len(timer) : i # gbl[k].down /\ i # gbl[k].adver => timer'[i] = timer[i]
    BY <1>1, <1>4, <1>6 DEF Keeps
  <1>8. UNCHANGED <<thread, handler>> BY DEF VrrpStopTimers
  <1>9. intf \in [pc : {"up", "down"}, todo : SUBSET Key] BY <1>0 DEF TypeOK, Idle
  <1>10. HandlerCopyOwns'
    <2>1. handler.pc = "backup" => OwnTimers(handler.copy, handler.key, timer')
      BY <1>1, <1>7, OwnTimersKept DEF HandlerCopyOwns
    <2> QED BY <1>8, <2>1 DEF HandlerCopyOwns
  <1>11. ASSUME NEW j \in Key, j # k, Found(j), gbl[j].state = "Master", Advertises(j),
                gbl'[j] = gbl[j]
         PROVE  Advertises(j)'
    <2>1. gbl[j].adver \in 1..Len(timer) /\ timer[gbl[j].adver].key = j
      BY <1>11 DEF EntriesOwn, OwnTimers, Points, MasterHasTimer
    <2>2. gbl[j].adver # gbl[k].adver /\ gbl[j].adver # gbl[k].down
      BY <1>2, <1>11, <2>1 DEF OwnTimers, Points
    <2>3. timer'[gbl[j].adver] = timer[gbl[j].adver] BY <1>7, <2>1, <2>2
    <2>4. CallbackRunning("adver", j) => CallbackRunning("adver", j)'
      BY <1>8 DEF CallbackRunning, Running
    <2> QED BY <1>0, <1>8, <1>11, <2>3, <2>4 DEF Advertises
  <1>12. CASE gbl[k].state = "Master"
    <2>1. /\ intf' = [pc |-> "send", todo |-> intf.todo \ {k}, key |-> k, copy |-> gbl[k]]
          /\ gbl' = gbl
      BY <1>12 DEF VrrpStopTimers
    <2>2. intf' \in [pc : {"send", "wait"}, todo : SUBSET Key, key : Key, copy : VrrpGlobalInfo]
      BY <1>2, <1>9, <2>1
    <2>3. TypeOK' BY <1>7, <2>1, <2>2 DEF VrrpStopTimers, TypeOK, Keeps
    <2>4. EntriesOwn' BY <1>7, <2>1, EntriesKept DEF Found
    <2>5. OwnTimers(gbl[k], k, timer') BY <1>1, <1>2, <1>7, OwnTimersKept
    <2>6. IntfCopyOwns' BY <2>1, <2>5 DEF IntfCopyOwns
    <2>7. Advertises(k)' BY <2>1 DEF Advertises
    <2>8. MasterHasTimer' /\ MasterAdvertises'
      BY <1>11, <2>1, <2>7, MastersKept DEF Found
    <2> QED BY <1>10, <2>3, <2>4, <2>6, <2>8
  <1>13. CASE gbl[k].state # "Master"
    <2>1. /\ e \in VrrpGlobalInfo
          /\ e.state = "Initialize" /\ e.down = gbl[k].down /\ e.adver = gbl[k].adver
      BY <1>2 DEF VrrpGlobalInfo, StateName
    <2>2. gbl' = [gbl EXCEPT ![k] = e] /\ intf' = [intf EXCEPT !.todo = @ \ {k}]
      BY <1>13 DEF VrrpStopTimers, TypeOK
    <2> HIDE DEF e
    <2>3. /\ gbl' \in [Key -> VrrpGlobalInfo \cup {NoEntry}]
          /\ gbl'[k] = e
          /\ \A j \in Key : j # k => gbl'[j] = gbl[j]
      BY <2>1, <2>2 DEF TypeOK
    <2>4. intf' \in [pc : {"up", "down"}, todo : SUBSET Key] /\ intf'.pc \notin {"send", "wait"}
      BY <1>0, <1>9, <2>2
    <2>5. TypeOK' BY <1>7, <2>3, <2>4 DEF VrrpStopTimers, TypeOK, Keeps
    <2>6. \A j \in Key : Found(j)' => /\ Found(j)
                                      /\ gbl'[j].down = gbl[j].down
                                      /\ gbl'[j].adver = gbl[j].adver
      BY <1>0, <2>1, <2>3 DEF Found
    <2>7. EntriesOwn' BY <1>7, <2>6, EntriesKept
    <2>8. IntfCopyOwns' BY <2>4 DEF IntfCopyOwns
    <2>9. MasterHasTimer' /\ MasterAdvertises'
      BY <1>11, <2>1, <2>3, MastersKept DEF Found
    <2> QED BY <1>10, <2>5, <2>7, <2>8, <2>9
  <1> QED BY <1>12, <1>13

LEMMA IntfSignalledStep == IInv /\ IntfSignalled => IInv'
  <1> SUFFICES ASSUME IInv, IntfSignalled PROVE IInv'
    OBVIOUS
  <1> USE DEF IInv
  <1> DEFINE k == intf.key
             e == [intf.copy EXCEPT !.state = "Initialize"]
  <1>1. intf.pc = "wait" /\ handler.pc = "signal" BY DEF IntfSignalled
  <1>2. /\ intf.todo \in SUBSET Key /\ k \in Key /\ intf.copy \in VrrpGlobalInfo
        /\ OwnTimers(intf.copy, k, timer)
    BY <1>1, IntfType DEF IntfCopyOwns
  <1>3. /\ e \in VrrpGlobalInfo
        /\ e.state = "Initialize" /\ e.down = intf.copy.down /\ e.adver = intf.copy.adver
    BY <1>2 DEF VrrpGlobalInfo, StateName
  <1>4. gbl' = [gbl EXCEPT ![k] = e] /\ timer' = timer /\ thread' = thread BY DEF IntfSignalled
  <1>5. OwnTimers(e, k, timer') BY <1>2, <1>3, <1>4 DEF OwnTimers
  <1> HIDE DEF e
  <1>6. /\ gbl' \in [Key -> VrrpGlobalInfo \cup {NoEntry}]
        /\ gbl'[k] = e
        /\ \A j \in Key : j # k => gbl'[j] = gbl[j]
    BY <1>2, <1>3, <1>4 DEF TypeOK
  <1>7. handler' \in [pc : {"idle", "signal", "stuck"}] /\ handler'.pc # "backup"
    BY DEF IntfSignalled, Idle
  <1>8. intf' \in [pc : {"up", "down"}, todo : SUBSET Key] /\ intf'.pc \notin {"send", "wait"}
    BY <1>2 DEF IntfSignalled
  <1>9. TypeOK' BY <1>6, <1>7, <1>8 DEF IntfSignalled, TypeOK
  <1>10. Keeps(timer, timer') BY <1>4, KeepsItself DEF TypeOK
  <1>11. EntriesOwn' BY <1>5, <1>6, <1>10, EntriesKept DEF Found
  <1>12. HandlerCopyOwns' /\ IntfCopyOwns' BY <1>7, <1>8, <1>10, CopiesKept
  <1>13. ASSUME NEW j \in Key, j # k, Advertises(j) PROVE Advertises(j)'
    <2>1. CallbackRunning("adver", j) => CallbackRunning("adver", j)'
      BY <1>4 DEF CallbackRunning, Running
    <2> QED BY <1>1, <1>4, <1>6, <1>13, <2>1 DEF Advertises
  <1>14. MasterHasTimer' /\ MasterAdvertises'
    BY <1>3, <1>6, <1>13, MastersKept DEF Found
  <1> QED BY <1>9, <1>11, <1>12, <1>14

-----------------------------------------------------------------------------
(* The theorems                                                             *)

LEMMA InitInvariant == Init => IInv
  <1> SUFFICES ASSUME Init PROVE IInv
    OBVIOUS
  <1>1. TypeOK
    <2>1. /\ gbl \in [Key -> VrrpGlobalInfo \cup {NoEntry}] /\ vip \in [Key -> BOOLEAN]
          /\ thread \in [Callback -> Nat]
      BY DEF Init
    <2>2. /\ timer \in Seq(Timer) /\ Len(timer) <= MaxTimers
          /\ fsmCh \in Seq(VrrpFsm) /\ Len(fsmCh) <= VRRP_FSM_CHANNEL_SIZE
          /\ txCh \in Seq(Key) /\ Len(txCh) <= VRRP_TX_BUF_CHANNEL_SIZE
          /\ rxCh \in Seq(VrrpFsm) /\ Len(rxCh) <= RxCapacity
      BY BoundAssumption DEF Init, VRRP_FSM_CHANNEL_SIZE, VRRP_TX_BUF_CHANNEL_SIZE
    <2>3. handler \in [pc : {"boot"}, todo : SUBSET Key] /\ intf \in {Idle}
      BY ChoiceAssumption DEF Init
    <2>4. listens \subseteq Key /\ events \in 0..MaxEvents
      BY BoundAssumption DEF Init
    <2>5. link \in BOOLEAN /\ crashed \in BOOLEAN
      BY ChoiceAssumption, Zenon DEF Init
    <2> QED BY <2>1, <2>2, <2>3, <2>4, <2>5 DEF TypeOK
  <1>2. \A k \in Key : ~Found(k) BY DEF Init, Found, NoEntry
  <1>3. handler.pc = "boot" /\ intf.pc = "idle" BY DEF Init, Idle
  <1> QED BY <1>1, <1>2, <1>3
          DEF IInv, EntriesOwn, HandlerCopyOwns, IntfCopyOwns, MasterHasTimer, MasterAdvertises

LEMMA NextInvariant == IInv /\ [Next]_vars => IInv'
  <1> SUFFICES ASSUME IInv, [Next]_vars PROVE IInv'
    OBVIOUS
  <1>1. CASE HandlerStep
    BY <1>1, FsmStartStep, FinishBackupStep, CheckRcvdPktStep, SendPktStep DEF HandlerStep
  <1>2. CASE IntfStep
    BY <1>2, LinkStep, StopTimersStep, IntfSignalledStep DEF IntfStep
  <1>3. CASE VrrpReadDB
    BY <1>3, ReadDBStep
  <1>4. CASE LinkChanges
    BY <1>4, LinkStep
  <1>5. CASE \E k \in Key : \/ VrrpCreateGblInfo(k) \/ VrrpDeleteGblInfo(k)
                            \/ VrrpUpdateIntf(k) \/ VrrpReceivePackets(k)
    BY <1>5, ConfigStep, ReceiveStep
  <1>6. CASE \E t \in DOMAIN timer : Fire(t)
    BY <1>6, FireStep
  <1>7. CASE \E c \in Callback : CallbackStep(c)
    BY <1>7, CallbackWaitStep, BecomeMasterStep, RestartAdverTimerStep DEF CallbackStep
  <1>8. CASE UNCHANGED vars
    <2>1. TypeOK' BY <1>8 DEF vars, TypeOK, IInv
    <2> QED BY <1>8, <2>1, QuietStep DEF vars, CallbackRunning, Running
  <1> QED BY <1>1, <1>2, <1>3, <1>4, <1>5, <1>6, <1>7, <1>8 DEF Next

\* In every reachable state the entries of vrrpGblInfo, and the copies of them
\* that are written back after a wait, refer to timers of their own, and a
\* master has an AdverTimer that keeps it advertising.
THEOREM InductiveInvariant == Spec => []IInv
  BY InitInvariant, NextInvariant, PTL DEF Spec

\* Every reachable state of the daemon is well typed: channels never hold more
\* than their capacity, no entry refers to a timer that does not exist.
THEOREM TypeCorrect == Spec => []TypeOK
  <1>1. IInv => TypeOK BY DEF IInv
  <1> QED BY <1>1, InductiveInvariant, PTL

\* A master advertises, whatever VrrpChannelHanlder, the timer callbacks and
\* VrrpAsicdSubscriber do in between: its AdverTimer runs, or a callback is about
\* to restart it, or it is about to leave the state.
THEOREM MasterAdvertisesHolds == Spec => []MasterAdvertises
  <1>1. IInv => MasterAdvertises BY DEF IInv
  <1> QED BY <1>1, InductiveInvariant, PTL
=============================================================================
