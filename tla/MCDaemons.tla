----------------------------- MODULE MCDaemons ------------------------------
(***************************************************************************)
(* Daemons side by side: a virtual router of VRRP, NDP, the DHCP server,   *)
(* the DHCP relay and the BFD session manager.  They share no state, so a  *)
(* behaviour is one of one daemon: `running' says which, and the others    *)
(* stay as they were started.                                              *)
(***************************************************************************)
EXTENDS VrrpRouter, NdpServer, DhcpServer, DhcpRelay, BfdServer, TLC

CONSTANTS
    k1, k2

VARIABLES
    running

\* The values of the constants.
TwoMacs == {<<"m1", "g", "q1">>, <<"m2", "g", "q1">>}
OneHostEach == "a" :> "v1" @@ "b" :> "v2"

\* They are such as the theorems about the daemons suppose.
ASSUME DaemonConstants == NdpConstants /\ DhcpConstants /\ RelayConstants /\ BfdsConstants

\* A daemon that is not running has been started in one way.
DaemonsInit ==
    /\ running \in {"vrrp", "ndp", "dhcp", "relay", "bfds"}
    /\ Init /\ NdpInit /\ DhcpInit /\ RelayInit /\ BfdsInit
    /\ running # "ndp" => ndpIf.type = "port" /\ ndpIf.addrs = {}
    /\ running # "dhcp" => ~dhcpL3.exists
    /\ running # "bfds" => bfdsRoutes = {}

DaemonsNext ==
    /\ UNCHANGED running
    /\ \/ running = "vrrp" /\ Next /\ UNCHANGED <<ndpVars, dhcpVars, relayVars, bfdsVars>>
       \/ running = "ndp" /\ NdpNext /\ UNCHANGED <<vars, dhcpVars, relayVars, bfdsVars>>
       \/ running = "dhcp" /\ DhcpNext /\ UNCHANGED <<vars, ndpVars, relayVars, bfdsVars>>
       \/ running = "relay" /\ RelayNext /\ UNCHANGED <<vars, ndpVars, dhcpVars, bfdsVars>>
       \/ running = "bfds" /\ BfdsNext /\ UNCHANGED <<vars, ndpVars, dhcpVars, relayVars>>

DaemonsSpec == DaemonsInit /\ [][DaemonsNext]_<<running, vars, ndpVars, dhcpVars, relayVars, bfdsVars>>

=============================================================================
