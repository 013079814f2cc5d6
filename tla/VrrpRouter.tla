----------------------------- MODULE VrrpRouter -----------------------------
(***************************************************************************)
(* One VRRP daemon (src/vrrp/server): the goroutines that share the map    *)
(* vrrpGblInfo of virtual routers and the channels vrrpFsmCh, vrrpTxPktCh  *)
(* and vrrpPktSend.                                                        *)
(*                                                                         *)
(*   - VrrpChannelHanlder, the only reader of vrrpFsmCh, vrrpTxPktCh and   *)
(*     vrrpRxPktCh, and the only sender on vrrpPktSend ("handler");        *)
(*   - the callbacks of MasterDownTimer ("down") and of AdverTimer         *)
(*     ("adver"), each a goroutine of its own;                             *)
(*   - VrrpAsicdSubscriber, which handles link events ("intf").            *)
(*                                                                         *)
(* A step ends where the goroutine blocks: at a channel operation and at   *)
(* the call to asicd (VrrpUpdateSubIntf).  A goroutine that copied an      *)
(* entry of vrrpGblInfo before such a point writes its stale copy back     *)
(* after it.  Timers are heap objects: an entry refers to them by number,  *)
(* 0 is nil.  Time is abstracted: an armed timer may fire at any moment.   *)
(***************************************************************************)
EXTENDS Naturals, Sequences, FiniteSets, FiniteSetsExt

CONSTANTS
    Key,           \* virtual routers (IfIndex_VRID), all on one interface
    Priorities,    \* configured priorities
    Preempts,      \* configured values of PreemptMode
    Listening,     \* whether the pcap handle of an entry may be opened (TRUE) or not
    Advertised,    \* priorities of received advertisements
    Restored,      \* virtual routers that VrrpReadDB finds
    Operations,    \* kinds of external event that may happen
    LinkUpAtStart, \* state of the interface when the daemon starts
    RxCapacity,    \* VRRP_RX_BUF_CHANNEL_SIZE
    MaxTimers,     \* bound: timers created in a behaviour
    MaxEvents      \* bound: external events in a behaviour

VRRP_MASTER_PRIORITY == 255
VRRP_MASTER_DOWN_PRIORITY == 0
VRRP_FSM_CHANNEL_SIZE == 1
VRRP_TX_BUF_CHANNEL_SIZE == 1

ASSUME PriorityAssumption ==
    Priorities \subseteq 1..255 /\ Advertised \subseteq 0..255
ASSUME ChoiceAssumption ==
    /\ Preempts \subseteq BOOLEAN
    /\ Listening \subseteq BOOLEAN
    /\ LinkUpAtStart \in BOOLEAN
    /\ Restored \subseteq Key
ASSUME BoundAssumption == {RxCapacity, MaxTimers, MaxEvents} \subseteq Nat

VARIABLES
    gbl,     \* vrrpGblInfo, by key
    vip,     \* asicd: the sub-interface with the virtual address is enabled
    timer,   \* the timers created so far
    thread,  \* how many callbacks of each kind are at each point
    handler, \* what VrrpChannelHanlder is doing
    intf,    \* what VrrpAsicdSubscriber is doing
    fsmCh,   \* vrrpFsmCh
    txCh,    \* vrrpTxPktCh: the key is enough
    rxCh,    \* vrrpRxPktCh
    listens, \* keys with a packet listener (VrrpInitPacketListener)
    link,    \* the interface is up
    crashed, \* the daemon has panicked
    events   \* external events so far

vars == <<gbl, vip, timer, thread, handler, intf, fsmCh, txCh, rxCh, listens, link, crashed, events>>

-----------------------------------------------------------------------------

StateName == {"Initialize", "Backup", "Master"}

VrrpGlobalInfo ==
    [found : {TRUE}, state : StateName, priority : Priorities, preempt : Preempts,
     pHandle : Listening, down : 0..MaxTimers, adver : 0..MaxTimers]

NoEntry == [found |-> FALSE]

Timer == [kind : {"down", "adver"}, key : Key, armed : BOOLEAN]

\* Points at which a callback can be: about to send on vrrpTxPktCh, waiting on
\* vrrpPktSend, about to call asicd ("vip"), about to update the entry ("set").
Callback == [kind : {"down", "adver"}, key : Key, pc : {"tx", "wait", "vip", "set"}]

\* What vrrpFsmCh carries; an event without a packet has priority NoPacket.
NoPacket == 256
VrrpFsm == [key : Key, priority : Advertised \cup {NoPacket}]

At(kind, k, pc) == [kind |-> kind, key |-> k, pc |-> pc]
Idle == [pc |-> "idle"]
Found(k) == gbl[k].found

Running(c) == thread[c] > 0
Move(c, d) == [thread EXCEPT ![c] = @ - 1, ![d] = @ + 1]
End(c) == [thread EXCEPT ![c] = @ - 1]

AfterFunc(kind, k) == Append(timer, [kind |-> kind, key |-> k, armed |-> TRUE])
Arm(ts, t) == [ts EXCEPT ![t].armed = TRUE]
Stop(ts, t) == IF t = 0 THEN ts ELSE [ts EXCEPT ![t].armed = FALSE]

-----------------------------------------------------------------------------
(* The handler                                                              *)

\* VrrpHandleMasterDownTimer on entry e of k: the timer runs, the state is Backup.
VrrpHandleMasterDownTimer(k, e, ts) ==
    IF e.down # 0
    THEN /\ timer' = Arm(ts, e.down)
         /\ gbl' = [gbl EXCEPT ![k] = [e EXCEPT !.state = "Backup"]]
    ELSE /\ Len(ts) < MaxTimers
         /\ timer' = Append(ts, [kind |-> "down", key |-> k, armed |-> TRUE])
         /\ gbl' = [gbl EXCEPT ![k] = [e EXCEPT !.state = "Backup", !.down = Len(ts) + 1]]

\* Fault: the virtual address stays configured.
TransitionToBackupKeepsVip(k) ==
    /\ vip' = vip
    /\ handler' = [pc |-> "backup", key |-> k, copy |-> gbl[k]]

\* VrrpTransitionToBackup up to the call to asicd, which works on a copy.
VrrpTransitionToBackup(k) ==
    /\ vip' = [vip EXCEPT ![k] = FALSE]
    /\ handler' = [pc |-> "backup", key |-> k, copy |-> gbl[k]]

\* The rest of VrrpTransitionToBackup.
FinishBackup ==
    /\ handler.pc = "backup"
    /\ VrrpHandleMasterDownTimer(handler.key, handler.copy, timer)
    /\ handler' = Idle
    /\ UNCHANGED <<vip, thread, intf, fsmCh, txCh, rxCh, listens, link, crashed, events>>

\* The handler sends on vrrpTxPktCh and waits on vrrpPktSend.  It is itself the
\* only reader of the one and the only sender on the other: it waits forever.
WaitForItself(k) ==
    /\ handler' = [pc |-> "stuck"]
    /\ txCh' = IF Len(txCh) < VRRP_TX_BUF_CHANNEL_SIZE THEN Append(txCh, k) ELSE txCh
    /\ UNCHANGED <<vip, gbl, timer>>

VrrpInitState(k) ==
    IF gbl[k].priority = VRRP_MASTER_PRIORITY
    THEN WaitForItself(k)
    ELSE VrrpTransitionToBackup(k) /\ UNCHANGED <<gbl, timer, txCh>>

VrrpBackupState(k, priority) ==
    LET e == gbl[k]
        wins == priority >= e.priority
    IN  CASE priority = VRRP_MASTER_DOWN_PRIORITY \/ (wins /\ ~e.preempt) ->
                /\ VrrpHandleMasterDownTimer(k, e, timer)
                /\ handler' = Idle
                /\ UNCHANGED <<vip, txCh>>
          [] priority # VRRP_MASTER_DOWN_PRIORITY /\ ~wins /\ e.preempt -> WaitForItself(k)
          [] OTHER -> handler' = Idle /\ UNCHANGED <<vip, gbl, timer, txCh>>

\* The address of the sender is compared with net.ParseIP of an address with a
\* prefix length, which is nil: an equal priority always wins.
VrrpMasterState(k, priority) ==
    CASE priority = VRRP_MASTER_DOWN_PRIORITY -> WaitForItself(k)
      [] priority # VRRP_MASTER_DOWN_PRIORITY /\ priority >= gbl[k].priority ->
            /\ timer' = Stop(timer, gbl[k].adver)
            /\ VrrpTransitionToBackup(k)
            /\ UNCHANGED <<gbl, txCh>>
      [] OTHER -> handler' = Idle /\ UNCHANGED <<vip, gbl, timer, txCh>>

\* VrrpBackupState and VrrpMasterState dereference the packet of an event that
\* has none.
VrrpFsmStart ==
    /\ handler.pc = "idle"
    /\ fsmCh # <<>>
    /\ fsmCh' = Tail(fsmCh)
    /\ LET k == Head(fsmCh).key
           priority == Head(fsmCh).priority
       IN  CASE ~Found(k) ->
                    UNCHANGED <<handler, vip, gbl, timer, txCh, crashed>>
             [] Found(k) /\ gbl[k].state = "Initialize" ->
                    VrrpInitState(k) /\ UNCHANGED crashed
             [] Found(k) /\ gbl[k].state # "Initialize" /\ priority = NoPacket ->
                    crashed' = TRUE /\ UNCHANGED <<handler, vip, gbl, timer, txCh>>
             [] Found(k) /\ gbl[k].state = "Backup" /\ priority # NoPacket ->
                    VrrpBackupState(k, priority) /\ UNCHANGED crashed
             [] Found(k) /\ gbl[k].state = "Master" /\ priority # NoPacket ->
                    VrrpMasterState(k, priority) /\ UNCHANGED crashed
    /\ UNCHANGED <<thread, intf, rxCh, listens, link, events>>

\* Fault: the channel takes any number of events.
SendToFsmUnbounded(m) == fsmCh' = Append(fsmCh, m) /\ handler' = Idle

\* Sending on vrrpFsmCh, of which the handler is the only reader: when the
\* channel is full the handler waits forever.
SendToFsm(m) ==
    IF Len(fsmCh) < VRRP_FSM_CHANNEL_SIZE
    THEN fsmCh' = Append(fsmCh, m) /\ handler' = Idle
    ELSE fsmCh' = fsmCh /\ handler' = [pc |-> "stuck"]

\* An entry that does not exist has no StateNameLock to take.
VrrpCheckRcvdPkt ==
    /\ handler.pc = "idle"
    /\ rxCh # <<>>
    /\ rxCh' = Tail(rxCh)
    /\ LET m == Head(rxCh)
       IN  CASE ~Found(m.key) -> crashed' = TRUE /\ UNCHANGED <<fsmCh, handler>>
             [] Found(m.key) /\ gbl[m.key].state = "Initialize" ->
                    UNCHANGED <<fsmCh, handler, crashed>>
             [] OTHER -> SendToFsm(m) /\ UNCHANGED crashed
    /\ UNCHANGED <<gbl, vip, timer, thread, intf, txCh, listens, link, events>>

\* Fault: the packet is sent, the caller is not told.
SendPktSilent(k) == handler' = Idle

\* VrrpSendPkt tells the caller that the packet is out, except when there is no
\* entry or no pcap handle.
AfterSendPkt(k) ==
    handler' = IF Found(k) /\ gbl[k].pHandle THEN [pc |-> "signal"] ELSE Idle

VrrpSendPkt ==
    /\ handler.pc = "idle"
    /\ txCh # <<>>
    /\ txCh' = Tail(txCh)
    /\ AfterSendPkt(Head(txCh))
    /\ UNCHANGED <<gbl, vip, timer, thread, intf, fsmCh, rxCh, listens, link, crashed, events>>

-----------------------------------------------------------------------------
(* Configuration                                                            *)

Event(op) ==
    /\ op \in Operations
    /\ events < MaxEvents
    /\ events' = events + 1

NewEntry(k) ==
    \E p \in Priorities, m \in Preempts, l \in Listening :
        /\ gbl' = [gbl EXCEPT ![k] =
                      [found |-> TRUE, state |-> "Initialize", priority |-> p, preempt |-> m,
                       pHandle |-> l, down |-> 0, adver |-> 0]]
        /\ listens' = IF l THEN listens \cup {k} ELSE listens

\* VrrpReadDB, which runs before the handler is started.
VrrpReadDB ==
    /\ handler.pc = "boot"
    /\ \/ \E k \in handler.todo :
            /\ NewEntry(k)
            /\ IF Len(fsmCh) < VRRP_FSM_CHANNEL_SIZE
               THEN /\ fsmCh' = Append(fsmCh, [key |-> k, priority |-> NoPacket])
                    /\ handler' = [handler EXCEPT !.todo = @ \ {k}]
               ELSE fsmCh' = fsmCh /\ handler' = [pc |-> "stuck"]
       \/ handler.todo = {} /\ handler' = Idle /\ UNCHANGED <<gbl, fsmCh, listens>>
    /\ UNCHANGED <<vip, timer, thread, intf, txCh, rxCh, link, crashed, events>>

VrrpCreateGblInfo(k) ==
    /\ handler.pc = "idle"
    /\ ~Found(k)
    /\ Event("create")
    /\ NewEntry(k)
    /\ SendToFsm([key |-> k, priority |-> NoPacket])
    /\ UNCHANGED <<vip, timer, thread, intf, txCh, rxCh, link, crashed>>

\* Neither the timers of the entry nor its packet listener are stopped.
VrrpDeleteGblInfo(k) ==
    /\ handler.pc = "idle"
    /\ Found(k)
    /\ Event("delete")
    /\ vip' = [vip EXCEPT ![k] = FALSE]
    /\ gbl' = [gbl EXCEPT ![k] = NoEntry]
    /\ UNCHANGED <<timer, thread, handler, intf, fsmCh, txCh, rxCh, listens, link, crashed>>

\* A change of the advertisement interval restarts the master down timer.
VrrpUpdateIntf(k) ==
    /\ handler.pc = "idle"
    /\ Found(k)
    /\ \/ /\ Event("config")
          /\ \E p \in Priorities, m \in Preempts :
                gbl' = [gbl EXCEPT ![k].priority = p, ![k].preempt = m]
          /\ UNCHANGED timer
       \/ Event("interval") /\ VrrpHandleMasterDownTimer(k, gbl[k], timer)
    /\ UNCHANGED <<vip, thread, handler, intf, fsmCh, txCh, rxCh, listens, link, crashed>>

\* The listener of an entry outlives it.
VrrpReceivePackets(k) ==
    /\ k \in listens
    /\ Len(rxCh) < RxCapacity
    /\ Event("receive")
    /\ \E p \in Advertised : rxCh' = Append(rxCh, [key |-> k, priority |-> p])
    /\ UNCHANGED <<gbl, vip, timer, thread, handler, intf, fsmCh, txCh, listens, link, crashed>>

-----------------------------------------------------------------------------
(* Timer callbacks                                                          *)

Fire(t) ==
    /\ timer[t].armed
    /\ timer' = [timer EXCEPT ![t].armed = FALSE]
    /\ thread' = [thread EXCEPT ![At(timer[t].kind, timer[t].key, "tx")] = @ + 1]
    /\ UNCHANGED <<gbl, vip, handler, intf, fsmCh, txCh, rxCh, listens, link, crashed, events>>

CallbackSends(c) ==
    /\ c.pc = "tx"
    /\ Running(c)
    /\ Len(txCh) < VRRP_TX_BUF_CHANNEL_SIZE
    /\ txCh' = Append(txCh, c.key)
    /\ thread' = Move(c, [c EXCEPT !.pc = "wait"])
    /\ UNCHANGED <<gbl, vip, timer, handler, intf, fsmCh, rxCh, listens, link, crashed, events>>

\* vrrpPktSend is shared: any goroutine that waits may get the signal.
CallbackSignalled(c) ==
    /\ c.pc = "wait"
    /\ Running(c)
    /\ handler.pc = "signal"
    /\ handler' = Idle
    /\ thread' = Move(c, [c EXCEPT !.pc = IF c.kind = "down" THEN "vip" ELSE "set"])
    /\ UNCHANGED <<gbl, vip, timer, intf, fsmCh, txCh, rxCh, listens, link, crashed, events>>

\* Fault: an error of asicd ends the transition.
EnableVipFails(c) ==
    /\ c.pc = "vip"
    /\ Running(c)
    /\ thread' = End(c)
    /\ UNCHANGED <<vip, gbl, timer, handler, intf, fsmCh, txCh, rxCh, listens, link, crashed, events>>

\* VrrpTransitionToMaster after the advertisement: the call to asicd.
EnableVip(c) ==
    /\ c.pc = "vip"
    /\ Running(c)
    /\ IF Found(c.key)
       THEN vip' = [vip EXCEPT ![c.key] = TRUE] /\ thread' = Move(c, [c EXCEPT !.pc = "set"])
       ELSE vip' = vip /\ thread' = End(c)
    /\ UNCHANGED <<gbl, timer, handler, intf, fsmCh, txCh, rxCh, listens, link, crashed, events>>

\* Fault: the advertisement timer is not started.
MasterWithoutTimer(c) ==
    /\ c.kind = "down" /\ c.pc = "set"
    /\ Running(c)
    /\ thread' = End(c)
    /\ gbl' = IF Found(c.key) THEN [gbl EXCEPT ![c.key].state = "Master"] ELSE gbl
    /\ UNCHANGED <<vip, timer, handler, intf, fsmCh, txCh, rxCh, listens, link, crashed, events>>

\* VrrpHandleMasterAdverTimer: a new timer replaces the old one, which is not
\* stopped.
BecomeMaster(c) ==
    /\ c.kind = "down" /\ c.pc = "set"
    /\ Running(c)
    /\ thread' = End(c)
    /\ IF Found(c.key)
       THEN /\ Len(timer) < MaxTimers
            /\ timer' = AfterFunc("adver", c.key)
            /\ gbl' = [gbl EXCEPT ![c.key].state = "Master",
                                  ![c.key].adver = Len(timer) + 1]
       ELSE UNCHANGED <<timer, gbl>>
    /\ UNCHANGED <<vip, handler, intf, fsmCh, txCh, rxCh, listens, link, crashed, events>>

\* The end of the callback of AdverTimer: the timer the entry now refers to is
\* restarted, whatever the state of the entry.
RestartAdverTimer(c) ==
    /\ c.kind = "adver" /\ c.pc = "set"
    /\ Running(c)
    /\ thread' = End(c)
    /\ CASE ~Found(c.key) -> UNCHANGED <<timer, crashed>>
         [] Found(c.key) /\ gbl[c.key].adver # 0 ->
                timer' = Arm(timer, gbl[c.key].adver) /\ UNCHANGED crashed
         [] OTHER -> crashed' = TRUE /\ UNCHANGED timer
    /\ UNCHANGED <<gbl, vip, handler, intf, fsmCh, txCh, rxCh, listens, link, events>>

-----------------------------------------------------------------------------
(* Link events                                                              *)

LinkChanges ==
    /\ intf.pc = "idle"
    /\ Event("link")
    /\ link' = ~link
    /\ intf' = [pc |-> IF link THEN "down" ELSE "up", todo |-> {k \in Key : Found(k)}]
    /\ UNCHANGED <<gbl, vip, timer, thread, handler, fsmCh, txCh, rxCh, listens, crashed>>

\* VrrpHandleIntfUpEvent and VrrpStopTimers have gone through all entries, or
\* have met one that is gone.
IntfDone ==
    /\ intf.pc \in {"down", "up"}
    /\ intf.todo = {} \/ \E k \in intf.todo : ~Found(k)
    /\ intf' = Idle
    /\ UNCHANGED <<gbl, vip, timer, thread, handler, fsmCh, txCh, rxCh, listens, link, crashed, events>>

VrrpHandleIntfUpEvent(k) ==
    /\ intf.pc = "up"
    /\ k \in intf.todo
    /\ Found(k)
    /\ Len(fsmCh) < VRRP_FSM_CHANNEL_SIZE
    /\ fsmCh' = Append(fsmCh, [key |-> k, priority |-> NoPacket])
    /\ intf' = [intf EXCEPT !.todo = @ \ {k}]
    /\ UNCHANGED <<gbl, vip, timer, thread, handler, txCh, rxCh, listens, link, crashed, events>>

\* VrrpStopTimers for one entry; a master first announces priority 0.
VrrpStopTimers(k) ==
    /\ intf.pc = "down"
    /\ k \in intf.todo
    /\ Found(k)
    /\ timer' = Stop(Stop(timer, gbl[k].down), gbl[k].adver)
    /\ IF gbl[k].state = "Master"
       THEN /\ intf' = [pc |-> "send", todo |-> intf.todo \ {k}, key |-> k, copy |-> gbl[k]]
            /\ gbl' = gbl
       ELSE /\ gbl' = [gbl EXCEPT ![k].state = "Initialize"]
            /\ intf' = [intf EXCEPT !.todo = @ \ {k}]
    /\ UNCHANGED <<vip, thread, handler, fsmCh, txCh, rxCh, listens, link, crashed, events>>

IntfSends ==
    /\ intf.pc = "send"
    /\ Len(txCh) < VRRP_TX_BUF_CHANNEL_SIZE
    /\ txCh' = Append(txCh, intf.key)
    /\ intf' = [intf EXCEPT !.pc = "wait"]
    /\ UNCHANGED <<gbl, vip, timer, thread, handler, fsmCh, rxCh, listens, link, crashed, events>>

\* The copy taken before the wait is written back.
IntfSignalled ==
    /\ intf.pc = "wait"
    /\ handler.pc = "signal"
    /\ handler' = Idle
    /\ gbl' = [gbl EXCEPT ![intf.key] = [intf.copy EXCEPT !.state = "Initialize"]]
    /\ intf' = [pc |-> "down", todo |-> intf.todo]
    /\ UNCHANGED <<vip, timer, thread, fsmCh, txCh, rxCh, listens, link, crashed, events>>

-----------------------------------------------------------------------------

Init ==
    /\ gbl = [k \in Key |-> NoEntry]
    /\ vip = [k \in Key |-> FALSE]
    /\ timer = <<>>
    /\ thread = [c \in Callback |-> 0]
    /\ handler = [pc |-> "boot", todo |-> Restored]
    /\ intf = Idle
    /\ fsmCh = <<>> /\ txCh = <<>> /\ rxCh = <<>>
    /\ listens = {}
    /\ link = LinkUpAtStart
    /\ crashed = FALSE
    /\ events = 0

HandlerStep == VrrpFsmStart \/ FinishBackup \/ VrrpCheckRcvdPkt \/ VrrpSendPkt
IntfStep ==
    \/ IntfDone \/ IntfSends \/ IntfSignalled
    \/ \E k \in Key : VrrpHandleIntfUpEvent(k) \/ VrrpStopTimers(k)
CallbackStep(c) ==
    \/ CallbackSends(c) \/ CallbackSignalled(c) \/ EnableVip(c)
    \/ BecomeMaster(c) \/ RestartAdverTimer(c)

Next ==
    /\ ~crashed
    /\ \/ VrrpReadDB \/ HandlerStep \/ IntfStep \/ LinkChanges
       \/ \E k \in Key : \/ VrrpCreateGblInfo(k) \/ VrrpDeleteGblInfo(k)
                         \/ VrrpUpdateIntf(k) \/ VrrpReceivePackets(k)
       \/ \E t \in DOMAIN timer : Fire(t)
       \/ \E c \in Callback : CallbackStep(c)

\* Goroutines that can run do run, goroutines that compete for a channel are
\* served in turn (Go queues them), and select picks every ready channel in the
\* end.  Nothing is assumed of timers, links, packets and configuration.
Fairness ==
    /\ WF_vars(~crashed /\ (VrrpReadDB \/ VrrpFsmStart \/ FinishBackup))
    /\ SF_vars(~crashed /\ VrrpSendPkt)
    /\ \A k \in Key, kind \in {"down", "adver"} :
          SF_vars(~crashed /\ \E pc \in {"tx", "wait", "vip", "set"} : CallbackStep(At(kind, k, pc)))

Spec == Init /\ [][Next]_vars
FairSpec == Spec /\ Fairness

-----------------------------------------------------------------------------
(* Properties                                                               *)

TypeOK ==
    /\ gbl \in [Key -> VrrpGlobalInfo \cup {NoEntry}]
    /\ vip \in [Key -> BOOLEAN]
    /\ timer \in Seq(Timer) /\ Len(timer) <= MaxTimers
    /\ thread \in [Callback -> Nat]
    /\ handler \in [pc : {"idle", "signal", "stuck"}]
                   \cup [pc : {"boot"}, todo : SUBSET Key]
                   \cup [pc : {"backup"}, key : Key, copy : VrrpGlobalInfo]
    /\ intf \in {Idle} \cup [pc : {"up", "down"}, todo : SUBSET Key]
                \cup [pc : {"send", "wait"}, todo : SUBSET Key, key : Key, copy : VrrpGlobalInfo]
    /\ fsmCh \in Seq(VrrpFsm) /\ Len(fsmCh) <= VRRP_FSM_CHANNEL_SIZE
    /\ txCh \in Seq(Key) /\ Len(txCh) <= VRRP_TX_BUF_CHANNEL_SIZE
    /\ rxCh \in Seq(VrrpFsm) /\ Len(rxCh) <= RxCapacity
    /\ listens \subseteq Key
    /\ link \in BOOLEAN
    /\ crashed \in BOOLEAN
    /\ events \in 0..MaxEvents

\* How many goroutines wait on vrrpPktSend.
Waiting ==
    LET W(k, kind) == thread[At(kind, k, "wait")]
    IN  FoldSet(LAMBDA k, n : n + W(k, "down") + W(k, "adver"),
                IF intf.pc = "wait" THEN 1 ELSE 0, Key)

\* Nobody waits for a signal that no queued request will produce: as long as
\* every entry exists and has a pcap handle, VrrpSendPkt answers every request on
\* vrrpTxPktCh with one signal on vrrpPktSend.
EveryWaiterHasRequest ==
    Waiting <= Len(txCh) + (IF handler.pc = "signal" THEN 1 ELSE 0)

CallbackRunning(kind, k) == \E pc \in {"tx", "wait", "vip", "set"} : Running(At(kind, k, pc))

\* The virtual address is configured exactly on a master, except while
\* VrrpTransitionToMaster or VrrpTransitionToBackup is between its call to asicd
\* and its update of StateName.
VipFollowsState ==
    \A k \in Key : Found(k) =>
        /\ gbl[k].state = "Backup" /\ vip[k] => Running(At("down", k, "set"))
        /\ gbl[k].state = "Master" /\ ~vip[k] => handler.pc = "backup" /\ handler.key = k

\* A master advertises: its AdverTimer runs, or one of the callbacks that
\* restart it is under way, or it is about to become backup.
MasterAdvertises ==
    \A k \in Key : Found(k) /\ gbl[k].state = "Master" =>
        \/ gbl[k].adver # 0 /\ timer[gbl[k].adver].armed
        \/ CallbackRunning("adver", k)
        \/ handler.pc = "backup" /\ handler.key = k
        \/ intf.pc \in {"send", "wait"} /\ intf.key = k

\* An expired MasterDownTimer makes the router master: the callback is never
\* left waiting because its signal went to another goroutine.  Only a handler
\* that waits for itself can prevent it.
TakeoverCompletes ==
    \A k \in Key : Running(At("down", k, "tx"))
                      ~> ((Found(k) /\ gbl[k].state = "Master") \/ handler.pc = "stuck")

\* "cancel master down timer and transition to initialize state" (comment of
\* VrrpStopTimers): once a link-down event is handled the router stays in
\* Initialize until the link is up again.
ShutdownHolds ==
    ~link /\ intf.pc = "idle" => \A k \in Key : Found(k) => gbl[k].state = "Initialize"
=============================================================================
