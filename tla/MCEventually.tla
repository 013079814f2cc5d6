---------------------------- MODULE MCEventually ----------------------------
(***************************************************************************)
(* What must happen in the end: a BFD session notices that its path has    *)
(* failed, ARP resolves a next hop, a VTEP reaches hardware.  The three    *)
(* share no state, so a behaviour is one of one of them: `running' says    *)
(* which, and the others stay as they were started.                        *)
(***************************************************************************)
EXTENDS BfdSession, VxlanVtep, ArpServer

VARIABLE running

\* The values of the constants.
OnePort == [i \in ArpIntfs |-> {"p1"}]
OneTunnel == [v \in Vteps |-> [vni |-> 1, vlan |-> 10, src |-> "lo", port |-> "p1"]]

\* They are such as the theorems about the daemons suppose.
ASSUME EventuallyConstants == VxlanConstants /\ ArpConstants

EventuallyInit ==
    /\ running \in {"bfd", "arp", "vxlan"}
    /\ Init /\ ArpInit /\ VxlanInit
    /\ running # "arp" => arpL3 = {}

EventuallyNext ==
    /\ UNCHANGED running
    /\ \/ running = "bfd" /\ Next /\ UNCHANGED <<arpVars, vxlanVars>>
       \/ running = "arp" /\ ArpNext /\ UNCHANGED <<vars, vxlanVars>>
       \/ running = "vxlan" /\ VxlanNext /\ UNCHANGED <<vars, arpVars>>

\* The fairness of each, for the one that runs: Fairness, ArpFairness and
\* VxlanFairness.
EventuallyFairness ==
    /\ \A n \in Node : WF_vars(running = "bfd" /\ SessionTimeout(n))
    /\ WF_arpVars(running = "arp" /\ updateArpCache)
    /\ SF_arpVars(running = "arp" /\ arpCacheTimeout)
    /\ SF_arpVars(running = "arp" /\ MainStep)
    /\ \A p \in ArpPorts : SF_arpVars(running = "arp" /\ RxSend(p))
    /\ \A ip \in ArpHosts :
         SF_arpVars(running = "arp" /\ \E p \in ArpPorts, mac \in ArpMacs : RxReply(p, ip, mac))
    /\ \A v \in Vteps : /\ WF_vxlanVars(running = "vxlan" /\ MachineNext(v))
                        /\ WF_vxlanVars(running = "vxlan" /\ RetryTimerExpires(v))

EventuallySpec ==
    EventuallyInit /\ [][EventuallyNext]_<<running, vars, arpVars, vxlanVars>> /\ EventuallyFairness

=============================================================================
