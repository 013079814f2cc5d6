---------------------------- MODULE OspfInterface ----------------------------
(***************************************************************************)
(* The OSPF routers of one broadcast network (src/ospf/server): on each of *)
(* them the goroutine of the interface state machine                       *)
(* (StartOspfBroadcastIntfFSM), a goroutine for every received Hello       *)
(* (ProcessOspfRecvPkt), the goroutine of the neighbour state machine      *)
(* (ProcessNbrStateMachine) as far as it stores router ids, and the        *)
(* callbacks of the dead timers.                                           *)
(*                                                                         *)
(* A router is a number: its router id, which also stands for its address. *)
(* All channels are unbuffered: a message and the handler that takes it    *)
(* are one step.  Between its messages a Hello goroutine works with the    *)
(* copy of the interface (ent) it has read at the beginning.               *)
(***************************************************************************)
EXTENDS Naturals

CONSTANTS
    Router,       \* router ids, all positive
    Priority,     \* Priority[r]: IfRtrPriority of r at the beginning
    Priorities,   \* values a reconfiguration may set it to
    MaxDisturbances  \* bound: interfaces reconfigured, dead timers expired and
                  \* Hellos received while an earlier one is being processed

ASSUME RouterAssumption == Router \subseteq Nat \ {0}
ASSUME PriorityAssumption == Priority \in [Router -> 0..255] /\ Priorities \subseteq 0..255
ASSUME BoundAssumption == MaxDisturbances \in Nat

VARIABLES
    intf,    \* IntfConfMap: the interface of each router
    known,   \* NeighborConfigMap: neighbours whose router id is stored
    nsm,     \* the neighbour ProcessNbrStateMachine is about to store, or 0
    rx,      \* the Hello goroutines of each router
    dead,    \* dead[r][s]: where r's callback of the dead timer of s is
    disturbances
vars == <<intf, known, nsm, rx, dead, disturbances>>

None == 0                                   \* the address 0.0.0.0
Address == Router \cup {None}
IfState == {"Down", "Waiting", "OtherDesignatedRouter", "DesignatedRouter", "BackupDesignatedRouter"}

NeighborData == [found : BOOLEAN, twoWay : BOOLEAN, prio : 0..255, dr : Address, bdr : Address]
NoNeighbor == [found |-> FALSE, twoWay |-> FALSE, prio |-> 0, dr |-> None, bdr |-> None]

IntfConf ==
    [on : BOOLEAN,                          \* state machine and receiver are running
     state : IfState, prio : 0..255, dr : Address, bdr : Address,
     nbrs : [Router -> NeighborData],       \* NeighborMap
     wait : BOOLEAN,                        \* WaitTimer is running
     gen : 0..MaxDisturbances]                  \* which WaitTimer

\* A Hello goroutine: the message it sends next, what it says, whether it found
\* the interface waiting and the Hello of a router that calls itself DR or BDR.
HelloGoroutine ==
    [from : Router, nbr : NeighborData, pc : {"create", "change", "nbr", "seen", "backup"},
     seen : BOOLEAN, gen : 0..MaxDisturbances]

-----------------------------------------------------------------------------
(* Election.  i is the interface of r as the state machine sees it.          *)

\* OspfNbrRtrId of a neighbour that is not in NeighborConfigMap is 0.
OspfNbrRtrId(r, s) == IF s = r \/ s \in known[r] THEN s ELSE 0

Prio(r, i, s) == IF s = r THEN i.prio ELSE i.nbrs[s].prio
ClaimsDR(r, i, s) == s = IF s = r THEN i.dr ELSE i.nbrs[s].dr
ClaimsBDR(r, i, s) == s = IF s = r THEN i.bdr ELSE i.nbrs[s].bdr
Eligible(r, i) == {s \in Router : Prio(r, i, s) > 0 /\ (s = r \/ i.nbrs[s].twoWay)}

\* The candidates of highest priority and then highest router id; of several
\* without an id the iteration over the Go map takes any.
Best(r, i, candidates) ==
    IF candidates = {} THEN {None}
    ELSE {c \in candidates : \A d \in candidates :
             \/ Prio(r, i, d) < Prio(r, i, c)
             \/ (Prio(r, i, d) = Prio(r, i, c) /\ OspfNbrRtrId(r, d) =< OspfNbrRtrId(r, c))}

ElectBDR(r, i) ==
    LET others == {s \in Eligible(r, i) : ~ClaimsDR(r, i, s)}
        backups == {s \in others : ClaimsBDR(r, i, s)}
    IN  Best(r, i, IF backups # {} THEN backups ELSE others)

ElectDR(r, i, bdr) ==
    LET claimed == {s \in Eligible(r, i) : ClaimsDR(r, i, s)}
    IN  IF claimed # {} THEN Best(r, i, claimed) ELSE {bdr}

Round(r, i) ==
    UNION {{[i EXCEPT !.bdr = b, !.dr = d] : d \in ElectDR(r, i, b)} : b \in ElectBDR(r, i)}

NewState(r, i) ==
    IF i.dr = r THEN "DesignatedRouter"
    ELSE IF i.bdr = r THEN "BackupDesignatedRouter" ELSE "OtherDesignatedRouter"

Settle(r, i) == [i EXCEPT !.state = NewState(r, i)]

\* Fault: the second round does not set the state again.
ElectKeepsState(r, i) ==
    UNION {IF /\ NewState(r, j) # i.state
              /\ ~(NewState(r, j) = "OtherDesignatedRouter" /\ i.state \in {"Down", "Waiting"})
           THEN {[k EXCEPT !.state = NewState(r, j)] : k \in Round(r, j)}
           ELSE {Settle(r, j)} : j \in Round(r, i)}

\* The second round lets a router that has become DR or BDR, or has stopped
\* being one, elect the other one without itself.
ElectBDRAndDR(r, i) ==
    UNION {IF /\ NewState(r, j) # i.state
              /\ ~(NewState(r, j) = "OtherDesignatedRouter" /\ i.state \in {"Down", "Waiting"})
           THEN {Settle(r, k) : k \in Round(r, j)}
           ELSE {Settle(r, j)} : j \in Round(r, i)}

PastWaiting(i) == i.state \notin {"Down", "Waiting"}

Elect(r, i, condition) == IF condition THEN ElectBDRAndDR(r, i) ELSE {i}

-----------------------------------------------------------------------------
(* Hello packets                                                            *)

\* What the Hello that s sends now says to r: the state machine of s lists the
\* neighbours whose router id is stored.
BuildHelloPkt(s, r) ==
    [found |-> TRUE, twoWay |-> r \in known[s] /\ intf[s].nbrs[r].found,
     prio |-> intf[s].prio, dr |-> intf[s].dr, bdr |-> intf[s].bdr]

BackupSeen(s, nbr) == nbr.twoWay /\ (nbr.bdr = s \/ (nbr.dr = s /\ nbr.bdr # None))

Disturb(b) ==
    /\ disturbances' = disturbances + (IF b THEN 1 ELSE 0)
    /\ disturbances' =< MaxDisturbances

\* s sends a Hello (StartSendHelloPkt) and r receives it: processRxHelloPkt and
\* processOspfHelloNeighbor up to the first message.  A Hello that says the same
\* as one that is just as far counts as lost.
processRxHelloPkt(r, s) ==
    LET nbr == BuildHelloPkt(s, r)
        old == intf[r].nbrs[s]
    IN  /\ intf[r].on /\ intf[s].on /\ r # s
        /\ Disturb(rx[r] # {})
        /\ rx' = [rx EXCEPT ![r] = @ \cup
              {[from |-> s, nbr |-> nbr,
                pc |-> IF ~old.found THEN "create" ELSE IF old # nbr THEN "change" ELSE "nbr",
                seen |-> intf[r].state = "Waiting" /\ BackupSeen(s, nbr),
                gen |-> intf[r].gen]}]
        /\ UNCHANGED <<intf, known, nsm, dead>>

Advance(r, g, pc) == rx' = [rx EXCEPT ![r] = (@ \ {g}) \cup {[g EXCEPT !.pc = pc]}]
Finish(r, g) == rx' = [rx EXCEPT ![r] = @ \ {g}]

\* The state machine takes createMsg.
NeighCreate(r, g) ==
    /\ g.pc = "create" /\ intf[r].on
    /\ IF intf[r].nbrs[g.from].found
       THEN UNCHANGED intf
       ELSE \E i \in Elect(r, [intf[r] EXCEPT !.nbrs[g.from] = g.nbr],
                           g.nbr.twoWay /\ PastWaiting(intf[r])) :
               intf' = [intf EXCEPT ![r] = i]
    /\ Advance(r, g, "nbr")
    /\ UNCHANGED <<known, nsm, dead, disturbances>>

\* Fault: a new claim to be DR or BDR is not a neighbour change.
ChangeOfTwoWayOnly(s, old, new) == old.twoWay # new.twoWay \/ old.prio # new.prio

\* RFC 2328 section 9.2, as StartOspfBroadcastIntfFSM tests it.
NeighborChange(s, old, new) ==
    \/ old.twoWay # new.twoWay
    \/ /\ old.twoWay
       /\ \/ (old.dr = s) # (new.dr = s)
          \/ (old.bdr = s) # (new.bdr = s)
          \/ old.prio # new.prio

\* The state machine takes changeMsg.
NeighChange(r, g) ==
    /\ g.pc = "change" /\ intf[r].on
    /\ LET old == intf[r].nbrs[g.from]
       IN  IF ~old.found
           THEN UNCHANGED intf
           ELSE \E i \in Elect(r, [intf[r] EXCEPT !.nbrs[g.from] = g.nbr],
                               PastWaiting(intf[r]) /\ NeighborChange(g.from, old, g.nbr)) :
                   intf' = [intf EXCEPT ![r] = i]
    /\ Advance(r, g, "nbr")
    /\ UNCHANGED <<known, nsm, dead, disturbances>>

\* CreateAndSendHelloRecvdMsg: ProcessNbrStateMachine takes the message.  It
\* stores a new neighbour later, after it has reported the event.
NbrHello(r, g) ==
    /\ g.pc = "nbr" /\ nsm[r] = None
    /\ nsm' = [nsm EXCEPT ![r] = IF g.from \in known[r] THEN None ELSE g.from]
    /\ IF g.seen THEN Advance(r, g, "seen") ELSE Finish(r, g)
    /\ UNCHANGED <<intf, known, dead, disturbances>>

StoreNeighbor(r) ==
    /\ nsm[r] # None
    /\ known' = [known EXCEPT ![r] = @ \cup {nsm[r]}]
    /\ nsm' = [nsm EXCEPT ![r] = None]
    /\ UNCHANGED <<intf, rx, dead, disturbances>>

\* The end of processOspfHelloNeighbor: WaitTimer.Stop() says whether the timer of
\* the copy was running.  It was not if it has expired, be it that the state
\* machine has still to take the event; of an earlier timer nothing is known.
StopWaitTimer(r, g) ==
    /\ g.pc = "seen"
    /\ \/ /\ g.gen = intf[r].gen /\ intf[r].wait
          /\ intf' = [intf EXCEPT ![r].wait = FALSE]
          /\ Advance(r, g, "backup")
       \/ g.gen # intf[r].gen /\ Advance(r, g, "backup") /\ UNCHANGED intf
       \/ Finish(r, g) /\ UNCHANGED intf
    /\ UNCHANGED <<known, nsm, dead, disturbances>>

\* The state machine takes the message from BackupSeenCh.
TakeBackupSeen(r, g) ==
    /\ g.pc = "backup" /\ intf[r].on
    /\ \E i \in ElectBDRAndDR(r, intf[r]) : intf' = [intf EXCEPT ![r] = i]
    /\ Finish(r, g)
    /\ UNCHANGED <<known, nsm, dead, disturbances>>

-----------------------------------------------------------------------------
(* Timers                                                                   *)

\* Any number of Hellos may be lost or delayed: a timer expires at any time.
WaitTimerExpires(r) ==
    /\ intf[r].on /\ intf[r].wait
    /\ \E i \in ElectBDRAndDR(r, [intf[r] EXCEPT !.wait = FALSE]) : intf' = [intf EXCEPT ![r] = i]
    /\ UNCHANGED <<known, nsm, rx, dead, disturbances>>

\* neighborDeadTimerEvent: the callback starts.
DeadTimerExpires(r, s) ==
    /\ s \in known[r] /\ dead[r][s] = "no"
    /\ Disturb(TRUE)
    /\ dead' = [dead EXCEPT ![r][s] = "tell"]
    /\ UNCHANGED <<intf, known, nsm, rx>>

\* The state machine takes nbrStateChangeMsg.
processNbrDownEvent(r, s) ==
    /\ dead[r][s] = "tell" /\ intf[r].on
    /\ \E i \in Elect(r, [intf[r] EXCEPT !.nbrs[s] = NoNeighbor],
                      intf[r].nbrs[s].found /\ PastWaiting(intf[r])) :
          intf' = [intf EXCEPT ![r] = i]
    /\ dead' = [dead EXCEPT ![r][s] = "delete"]
    /\ UNCHANGED <<known, nsm, rx, disturbances>>

\* UpdateNeighborConf takes NBRDEL.
DeleteNeighbor(r, s) ==
    /\ dead[r][s] = "delete"
    /\ known' = [known EXCEPT ![r] = @ \ {s}]
    /\ dead' = [dead EXCEPT ![r][s] = "no"]
    /\ UNCHANGED <<intf, nsm, rx, disturbances>>

-----------------------------------------------------------------------------
(* Configuration                                                            *)

\* A stopped interface with priority p.
Configured(p, gen) ==
    [on |-> FALSE, state |-> "Down", prio |-> p, dr |-> None, bdr |-> None,
     nbrs |-> [s \in Router |-> NoNeighbor], wait |-> FALSE, gen |-> gen]

\* StopSendRecvPkts and updateIPIntfConfMap.  The goroutines of Hellos and dead
\* timers go on.
StopSendRecvPkts(r) ==
    /\ intf[r].on /\ Disturb(TRUE)
    /\ \E p \in Priorities :
          intf' = [intf EXCEPT ![r] = Configured(p, @.gen + 1)]
    /\ UNCHANGED <<known, nsm, rx, dead>>

StartSendRecvPkts(r) ==
    /\ ~intf[r].on
    /\ intf' = [intf EXCEPT ![r].on = TRUE, ![r].state = "Waiting", ![r].wait = TRUE]
    /\ UNCHANGED <<known, nsm, rx, dead, disturbances>>

-----------------------------------------------------------------------------

Init ==
    /\ intf = [r \in Router |-> Configured(Priority[r], 0)]
    /\ known = [r \in Router |-> {}]
    /\ nsm = [r \in Router |-> None]
    /\ rx = [r \in Router |-> {}]
    /\ dead = [r \in Router |-> [s \in Router |-> "no"]]
    /\ disturbances = 0

HelloStep(r, g) ==
    NeighCreate(r, g) \/ NeighChange(r, g) \/ NbrHello(r, g) \/ StopWaitTimer(r, g) \/ TakeBackupSeen(r, g)

DeadStep(r, s) == processNbrDownEvent(r, s) \/ DeleteNeighbor(r, s)

Next ==
    \E r \in Router :
        \/ WaitTimerExpires(r) \/ StoreNeighbor(r)
        \/ StopSendRecvPkts(r) \/ StartSendRecvPkts(r)
        \/ \E s \in Router : processRxHelloPkt(r, s) \/ DeadTimerExpires(r, s) \/ DeadStep(r, s)
        \/ \E g \in rx[r] : HelloStep(r, g)

Spec == Init /\ [][Next]_vars

-----------------------------------------------------------------------------
(* Properties                                                               *)

\* The types, with the state an interface may be in: before its first election it
\* knows no DR and no BDR, afterwards its state is its place in the election.
TypeOK ==
    /\ intf \in [Router -> IntfConf]
    /\ \A r \in Router :
          intf[r].state = IF ~intf[r].on THEN "Down"
                          ELSE IF intf[r].state = "Waiting" THEN "Waiting" ELSE NewState(r, intf[r])
    /\ \A r \in Router : ~PastWaiting(intf[r]) => intf[r].dr = None /\ intf[r].bdr = None
    /\ known \in [Router -> SUBSET Router]
    /\ nsm \in [Router -> Address]
    /\ \A r \in Router : rx[r] \subseteq HelloGoroutine
    /\ dead \in [Router -> [Router -> {"no", "tell", "delete"}]]
    /\ disturbances \in 0..MaxDisturbances

Up == {r \in Router : intf[r].on}

\* Nothing is under way: everybody who is up has elected, and has seen the
\* present Hello of everybody who is up and of nobody else.
Quiescent ==
    /\ \A r \in Router : rx[r] = {} /\ nsm[r] = None
    /\ \A r \in Up : /\ PastWaiting(intf[r])
                     /\ known[r] = Up \ {r}
                     /\ \A s \in Router \ {r} :
                           intf[r].nbrs[s] = IF s \in Up THEN BuildHelloPkt(s, r) ELSE NoNeighbor

\* All routers name the same DR and BDR, two different routers that are up and
\* may be elected; there is a DR, and a BDR, if somebody may be one.
Agreement ==
    LET able == {s \in Up : intf[s].prio > 0}
        Elected(x, candidates) == IF candidates = {} THEN x = None ELSE x \in candidates
    IN  /\ \A r, s \in Up : intf[r].dr = intf[s].dr /\ intf[r].bdr = intf[s].bdr
        /\ \A r \in Up : Elected(intf[r].dr, able) /\ Elected(intf[r].bdr, able \ {intf[r].dr})

Tie == \E r, s \in Up : r # s /\ intf[r].prio = intf[s].prio /\ intf[r].prio > 0

\* When nothing is under way and the priorities decide, all routers agree on DR
\* and BDR (ElectBDRAndDR): no order of Hellos, elections, expired timers and
\* restarts leaves the network in a disagreement that no later Hello resolves.
\* With equal priorities the code does not achieve this: a neighbour that claims
\* to be DR in the Hello that creates it is compared with router id 0.
AgreementWithoutTies == Quiescent /\ ~Tie => Agreement
=============================================================================
