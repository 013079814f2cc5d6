------------------------------ MODULE VxlanVtep ------------------------------
(***************************************************************************)
(* VXLAN tunnel end points (tunnel/vxlan): one goroutine runs the state    *)
(* machine of each VTEP, ConfigListener runs the configuration on another. *)
(* A machine takes an event, calls the clients (asicd, ribd, arpd), whose  *)
(* answers come back through its own channel, and only then stores its new *)
(* state: in between the configuration goroutine still reads the old one.  *)
(* A request is checked by the RPC goroutine and run by ConfigListener; the*)
(* two are one step here, since a Thrift client waits for its answer.      *)
(***************************************************************************)
EXTENDS Integers, Sequences, FiniteSets

CONSTANTS Vnis,           \* VXLAN network identifiers
          Vteps,          \* VTEP names
          VtepCfg,        \* configuration of a VTEP: [vni, vlan, src, port]; external: port, where ribd leads
          MaxVxlanEvents  \* bound on requests, packets and failed answers

(* What is taken for granted of the constants. *)
VxlanConstants == IsFiniteSet(Vteps)

VARIABLES vxlanDb,     \* vxlanDB
          vtepDb,      \* vtepDB, with the machine of each VTEP
          vtepHw,      \* VTEPs that asicd has
          vxlanVlans,  \* PortVlanDb: reference count per VLAN and source interface
          vxlanPorts,  \* portDB: VtepRefCnt per port, a uint32: -1 is its largest value
          vxlanCrash,  \* why the process is dead, or "none"
          vxlanEvents  \* [left, past]
vxlanVars == <<vxlanDb, vtepDb, vtepHw, vxlanVlans, vxlanPorts, vxlanCrash, vxlanEvents>>

NoVtep == [state |-> "absent"]
NoPort == -1000
States == {"None", "Disabled", "Init", "Detached", "Interface", "NextHopInfo", "ResolveNextHopMac", "HwConfig", "Start"}
Events == {"Begin", "FallThrough", "SrcInterfaceResolved", "NextHopInfoResolved", "NextHopInfoMacResolved",
           "HwConfigComplete", "Disable", "Detached", "RetryTimerExpired"}
(* next: the state a handler that is running will store, or "idle";        *)
(* handle, srcIp: opened, known; deleted: Stop has closed the channel      *)
Machine == [state: States, next: States \cup {"idle"}, queue: Seq(Events), timer: {"armed", "stopped"},
            handle: BOOLEAN, srcIp: BOOLEAN, deleted: BOOLEAN]
Exists(v) == vtepDb[v] # NoVtep /\ ~vtepDb[v].deleted
NewVtepDbEntry == [state |-> "None", next |-> "idle", queue |-> <<"Begin">>, timer |-> "armed",
                   handle |-> FALSE, srcIp |-> FALSE, deleted |-> FALSE]
Vlans == {VtepCfg[v].vlan : v \in Vteps}
Srcs == {VtepCfg[v].src : v \in Vteps}
Ports == {VtepCfg[v].port : v \in Vteps}

VxlanInit ==
  /\ vxlanDb = {} /\ vtepHw = {} /\ vxlanCrash = "none"
  /\ vtepDb = [v \in Vteps |-> NoVtep]
  /\ vxlanVlans = [l \in Vlans |-> [s \in Srcs |-> 0]]
  /\ vxlanPorts = [p \in Ports |-> NoPort]
  /\ vxlanEvents = [left |-> MaxVxlanEvents, past |-> {}]

Happens(what) ==
  vxlanEvents.left > 0 /\ vxlanEvents' = [left |-> vxlanEvents.left - 1, past |-> vxlanEvents.past \cup what]
(* A client's call may fail: nothing is sent back. *)
Asks(what, answer) ==
  \/ answer = TRUE /\ UNCHANGED vxlanEvents
  \/ answer = FALSE /\ Happens({what})

-----------------------------------------------------------------------------
(* The clients *)

(* Hardware and VLAN membership of the source interface. *)
HwCreateVtep(v) ==
  /\ vtepHw' = vtepHw \cup {v}
  /\ vxlanVlans' = [vxlanVlans EXCEPT ![VtepCfg[v].vlan][VtepCfg[v].src] = @ + 1]
(* Fault: the reference on the VLAN is not given back. *)
HwDeleteOnly(v) == vtepHw' = vtepHw \ {v} /\ UNCHANGED vxlanVlans
HwDeleteVtep(v) ==
  /\ vtepHw' = vtepHw \ {v}
  /\ vxlanVlans' = [vxlanVlans EXCEPT ![VtepCfg[v].vlan][VtepCfg[v].src] = IF @ = 0 THEN 0 ELSE @ - 1]

(* The first user of a port leaves its count at zero. *)
CreatePort(p) == [vxlanPorts EXCEPT ![p] = IF @ = NoPort THEN 0 ELSE @ + 1]
DeletePort(p) ==
  [vxlanPorts EXCEPT ![p] = IF @ = NoPort \/ @ = 1 THEN NoPort ELSE @ - 1]

-----------------------------------------------------------------------------
(* The state machine *)

(* Fault: nothing polls arpd. *)
RulesWithoutPoll(s, e) ==
  IF e = "Begin" THEN "Init"
  ELSE CASE s = "Init" /\ e \in {"Detached", "Disable"} -> e
         [] s = "Init" /\ e = "SrcInterfaceResolved" -> "Interface"
         [] s = "Interface" /\ e = "NextHopInfoResolved" -> "NextHopInfo"
         [] s = "NextHopInfo" /\ e = "NextHopInfoMacResolved" -> "ResolveNextHopMac"
         [] s = "ResolveNextHopMac" /\ e = "FallThrough" -> "HwConfig"
         [] s = "HwConfig" /\ e = "HwConfigComplete" -> "Start"
         [] s = "Init" /\ e = "RetryTimerExpired" -> s
         [] OTHER -> "none"
(* The state that event e leads to from s; "none": there is no rule.  The  *)
(* second branch of the loop over the clients repeats the condition of the *)
(* first, so an Interface whose next hop is unknown is not polled.         *)
VxlanVtepMachineFSMBuild(s, e) ==
  IF e = "Begin" THEN "Init"
  ELSE IF e = "Disable" THEN IF s \in {"None", "Disabled"} THEN "none" ELSE "Disabled"
  ELSE CASE s = "Init" /\ e = "Detached" -> "Detached"
         [] s = "Init" /\ e = "SrcInterfaceResolved" -> "Interface"
         [] s = "Interface" /\ e = "NextHopInfoResolved" -> "NextHopInfo"
         [] s = "NextHopInfo" /\ e = "NextHopInfoMacResolved" -> "ResolveNextHopMac"
         [] s = "ResolveNextHopMac" /\ e = "FallThrough" -> "HwConfig"
         [] s = "HwConfig" /\ e = "HwConfigComplete" -> "Start"
         [] s \in {"Init", "NextHopInfo"} /\ e = "RetryTimerExpired" -> s
         [] OTHER -> "none"

Send(m, e) == [m EXCEPT !.queue = Append(@, e)]

VxlanVtepInit(v, m, ok) ==
  IF VtepCfg[v].vni \notin vxlanDb THEN Send(m, "Detached")
  ELSE IF ok THEN Send(m, "SrcInterfaceResolved") ELSE m
VxlanVtepInterface(v, m, ok) ==
  LET known == [m EXCEPT !.srcIp = TRUE] IN IF ok THEN Send(known, "NextHopInfoResolved") ELSE known
VxlanVtepNextHopInfo(v, m, ok) == IF ok THEN Send(m, "NextHopInfoMacResolved") ELSE m
VxlanVtepConfigHw(v, m) == [Send(m, "HwConfigComplete") EXCEPT !.timer = "stopped"]
VxlanVtepStartListener(v, m) == [m EXCEPT !.handle = TRUE]

(* A handler runs on machine m and will store the state to. *)
Enters(v, m, to) ==
  /\ \E ok \in BOOLEAN :
       /\ to \notin {"Init", "Interface", "NextHopInfo"} => ok
       /\ to = "Init" /\ VtepCfg[v].vni \notin vxlanDb => ok
       /\ Asks(IF to = "Interface" THEN "rib" ELSE "client", ok)
       /\ vtepDb' = [vtepDb EXCEPT ![v] =
            [CASE to = "Init" -> VxlanVtepInit(v, m, ok)
               [] to = "Interface" -> VxlanVtepInterface(v, m, ok)
               [] to = "NextHopInfo" -> VxlanVtepNextHopInfo(v, m, ok)
               [] to = "HwConfig" -> VxlanVtepConfigHw(v, m)
               [] to = "Start" -> VxlanVtepStartListener(v, m)
               [] OTHER -> m
             EXCEPT !.next = to]]
  /\ IF to = "HwConfig" THEN HwCreateVtep(v) ELSE UNCHANGED <<vtepHw, vxlanVlans>>
  /\ vxlanPorts' = IF to = "Start" THEN CreatePort(VtepCfg[v].port) ELSE vxlanPorts
  /\ UNCHANGED <<vxlanDb, vxlanCrash>>

(* One event, or an expiry of the retry timer, is taken; without a rule it *)
(* is dropped.  The loop reads the timer first: after Stop that is nil.    *)
Runs(v) == vxlanCrash = "none" /\ vtepDb[v] # NoVtep /\ vtepDb[v].next = "idle"
Takes(v, m, e) ==
  LET to == VxlanVtepMachineFSMBuild(m.state, e) IN
  IF to = "none" THEN vtepDb' = [vtepDb EXCEPT ![v] = m] /\ UNCHANGED <<vxlanDb, vtepHw, vxlanVlans, vxlanPorts, vxlanCrash, vxlanEvents>>
  ELSE Enters(v, m, to)
TakeEvent(v) ==
  /\ Runs(v) /\ Exists(v) /\ vtepDb[v].queue # <<>>
  /\ Takes(v, [vtepDb[v] EXCEPT !.queue = Tail(@)], Head(vtepDb[v].queue))
RetryTimerExpires(v) ==
  /\ Runs(v) /\ Exists(v) /\ vtepDb[v].timer = "armed" /\ vtepDb[v].queue = <<>>
  /\ Takes(v, vtepDb[v], "RetryTimerExpired")
(* The handler is done: the state is stored; a machine that has the MAC    *)
(* sends itself on.                                                        *)
ProcessPostStateProcessing(v) ==
  /\ vxlanCrash = "none" /\ Exists(v) /\ vtepDb[v].next # "idle"
  /\ LET m == [vtepDb[v] EXCEPT !.state = vtepDb[v].next, !.next = "idle"] IN
       vtepDb' = [vtepDb EXCEPT ![v] = IF m.state = "ResolveNextHopMac" THEN Send(m, "FallThrough") ELSE m]
  /\ UNCHANGED <<vxlanDb, vtepHw, vxlanVlans, vxlanPorts, vxlanCrash, vxlanEvents>>
(* A deleted machine that was at work, or had an event, meets the nil timer *)
(* or sends on the closed channel.                                         *)
StoppedMachinePanics(v) ==
  /\ vxlanCrash = "none" /\ vtepDb[v] # NoVtep /\ vtepDb[v].deleted
  /\ vxlanCrash' = "stopped"
  /\ UNCHANGED <<vxlanDb, vtepDb, vtepHw, vxlanVlans, vxlanPorts, vxlanEvents>>

-----------------------------------------------------------------------------
(* Configuration, on the goroutine of ConfigListener *)

(* A new VXLAN: VTEPs that wait in Detached, whatever their VNI, begin again. *)
WakeDetached(vni, db) ==
  [v \in Vteps |-> IF db[v] # NoVtep /\ ~db[v].deleted /\ db[v].state = "Detached" THEN Send(db[v], "Begin") ELSE db[v]]
BecomesDetached(m) == m.next = "Detached" \/ \E i \in DOMAIN m.queue : m.queue[i] = "Detached"
CreateVxLAN(vni) ==
  /\ vxlanCrash = "none" /\ vni \notin vxlanDb
  /\ Happens(IF \E v \in Vteps : Exists(v) /\ VtepCfg[v].vni = vni /\ BecomesDetached(vtepDb[v]) THEN {"missed"} ELSE {})
  /\ vxlanDb' = vxlanDb \cup {vni}
  /\ vtepDb' = WakeDetached(vni, vtepDb)
  /\ UNCHANGED <<vtepHw, vxlanVlans, vxlanPorts, vxlanCrash>>
(* ConvertVxlanInstanceToVxlanConfig refuses a VNI that exists, so what    *)
(* reaches DeleteVxLAN is a VNI that does not.                             *)
DeleteVxLAN(vni) ==
  /\ vxlanCrash = "none" /\ vni \notin vxlanDb /\ Happens({})
  /\ vxlanDb' = vxlanDb \ {vni}
  /\ UNCHANGED <<vtepDb, vtepHw, vxlanVlans, vxlanPorts, vxlanCrash>>

CreateVtep(v) ==
  /\ vxlanCrash = "none" /\ vtepDb[v] = NoVtep /\ Happens({})
  /\ vtepDb' = [vtepDb EXCEPT ![v] = NewVtepDbEntry]
  /\ UNCHANGED <<vxlanDb, vtepHw, vxlanVlans, vxlanPorts, vxlanCrash>>

(* The hardware goes if the machine has stored HwConfig or Start. *)
DeProvisionVtep(v) ==
  IF vtepDb[v].state \in {"Start", "HwConfig"}
  THEN HwDeleteVtep(v) /\ vxlanPorts' = DeletePort(VtepCfg[v].port)
  ELSE UNCHANGED <<vtepHw, vxlanVlans, vxlanPorts>>
DeleteVtep(v) ==
  LET atWork == vtepDb[v].next # "idle" \/ vtepDb[v].queue # <<>> IN
  /\ vxlanCrash = "none" /\ Exists(v)
  /\ Happens(IF atWork THEN {"deletedAtWork"} ELSE {})
  /\ DeProvisionVtep(v)
  /\ vtepDb' = [vtepDb EXCEPT ![v] = IF atWork THEN [@ EXCEPT !.deleted = TRUE] ELSE NoVtep]
  /\ UNCHANGED <<vxlanDb, vxlanCrash>>

(* ribd reports a change of reachability.  processRibdNotification leaves  *)
(* the destination out, so that HandleNextHopChange, which would begin the *)
(* VTEPs to it again, finds none.                                          *)
NoIp == "none"
HandleNextHopChange(dip) == {v \in Vteps : Exists(v) /\ dip = v}
ProcessRibdNotification ==
  /\ vxlanCrash = "none" /\ HandleNextHopChange(NoIp) = {} /\ Happens({})
  /\ UNCHANGED <<vxlanDb, vtepDb, vtepHw, vxlanVlans, vxlanPorts, vxlanCrash>>

(* A packet of the tunnel comes in on an open port and is written to the   *)
(* handle of the first VTEP with its addresses and VNI, started or not.    *)
IsMyVtepPkt(v) == Exists(v) /\ vtepDb[v].srcIp
DecapAndDispatchPkt(v) ==
  /\ vxlanCrash = "none" /\ IsMyVtepPkt(v) /\ \E p \in Ports : vxlanPorts[p] # NoPort
  /\ Happens(IF vtepDb[v].handle THEN {} ELSE {"early"})
  /\ vxlanCrash' = IF vtepDb[v].handle THEN "none" ELSE "handle"
  /\ UNCHANGED <<vxlanDb, vtepDb, vtepHw, vxlanVlans, vxlanPorts>>

MachineNext(v) == TakeEvent(v) \/ ProcessPostStateProcessing(v) \/ StoppedMachinePanics(v)
VxlanNext ==
  \/ \E v \in Vteps : MachineNext(v) \/ RetryTimerExpires(v) \/ CreateVtep(v) \/ DeleteVtep(v) \/ DecapAndDispatchPkt(v)
  \/ \E vni \in Vnis : CreateVxLAN(vni) \/ DeleteVxLAN(vni)
  \/ ProcessRibdNotification
(* The goroutine of a machine runs, and its timer expires again and again. *)
VxlanFairness == \A v \in Vteps : WF_vxlanVars(MachineNext(v)) /\ WF_vxlanVars(RetryTimerExpires(v))
VxlanSpec == VxlanInit /\ [][VxlanNext]_vxlanVars /\ VxlanFairness

-----------------------------------------------------------------------------
VxlanTypeOK ==
  /\ vxlanDb \subseteq Vnis /\ vtepHw \subseteq Vteps
  /\ vtepDb \in [Vteps -> {NoVtep} \cup Machine]
  /\ vxlanVlans \in [Vlans -> [Srcs -> Nat]] /\ vxlanPorts \in [Ports -> Int]
  /\ vxlanCrash \in {"none", "stopped", "handle"}

InHardware(v) == Exists(v) /\ (vtepDb[v].state \in {"HwConfig", "Start"} \/ vtepDb[v].next = "HwConfig")
Undisturbed == "deletedAtWork" \notin vxlanEvents.past
(* asicd has exactly the VTEPs whose machine has passed hardware           *)
(* configuration (client.CreateVtep and DeleteVtep), unless one was        *)
(* deleted while its machine was at work.                                  *)
HardwareFollowsMachine == Undisturbed => vtepHw = {v \in Vteps : InHardware(v)}
(* The reference count of a source interface in a VLAN is the number of    *)
(* VTEPs in hardware that use it (PortVlanDb).                             *)
VlanCountsUsers ==
  Undisturbed => \A l \in Vlans, s \in Srcs :
    vxlanVlans[l][s] = Cardinality({v \in vtepHw : VtepCfg[v].vlan = l /\ VtepCfg[v].src = s})
(* A VTEP is in hardware only with a VXLAN to belong to, and one that rests *)
(* in Detached waits for a VXLAN that does not exist, unless that was made  *)
(* just while the machine was on its way there (CreateVxLAN).              *)
DetachedOnlyWithoutVxlan ==
  /\ \A v \in vtepHw : VtepCfg[v].vni \in vxlanDb
  /\ "missed" \notin vxlanEvents.past =>
       \A v \in Vteps : Exists(v) /\ vtepDb[v].state = "Detached" /\ vtepDb[v].next = "idle" /\ vtepDb[v].queue = <<>>
                        => VtepCfg[v].vni \notin vxlanDb
(* A VTEP whose VXLAN is there comes up, however often asicd and arpd fail *)
(* to answer: every wait is ended by a wake-up or by the retry timer       *)
(* (vtepFSM.go), unless it is deleted, ribd has failed to answer or the    *)
(* VXLAN was made just when the machine gave it up.                        *)
VtepComesUp ==
  \A v \in Vteps : (Exists(v) /\ VtepCfg[v].vni \in vxlanDb)
     ~> \/ ~Exists(v) \/ vtepDb[v].state = "Start" \/ vxlanCrash # "none"
        \/ vxlanEvents.past \cap {"rib", "missed"} # {}
(* The parts together: a VTEP is in hardware exactly when its machine says *)
(* so, a VLAN counts the VTEPs that use it, and a machine waits for a      *)
(* VXLAN only while there is none (vtepFSM.go, vtep.go, vxlan.go).         *)
VtepSafe == VxlanTypeOK /\ HardwareFollowsMachine /\ VlanCountsUsers /\ DetachedOnlyWithoutVxlan
=============================================================================
