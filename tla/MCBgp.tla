------------------------------- MODULE MCBgp --------------------------------
(***************************************************************************)
(* The parts of bgpd side by side: the state machine of a session, the     *)
(* Loc-RIB, the server with its neighbours and managers, and the Adj-RIBs. *)
(* What each needs of the others is part of its own module, so a behaviour *)
(* is one of one part: `running' says which.                               *)
(***************************************************************************)
EXTENDS BgpFsm, TLC

CONSTANTS
    BribPeers, BribPeer, BribPrefixes, BribUpdates, BribNextHops, BribMulti, BribAddPaths, MaxBribEvents,
    BgpsAddrs, BgpsIfAddr, BgpsConfs, BgpsGroups, BgpsGroupConfs, BgpsGlobals,
    MaxBgpsObjs, MaxBgpsMgrs, MaxBgpsEvents,
    BadjPeers, BadjInternal, BadjClients, BadjTx, BadjOutFilter, BadjInFilters, BadjPrefixes, BadjV6,
    BadjMembers, BadjUpdates, MaxBadjEvents

VARIABLES
    running,
    bribTab, bribRibd, bribEvents,
    bgpsSrv, bgpsMgr, bgpsConnQ, bgpsPkts, bgpsBfdQ, bgpsDb, bgpsEvents,
    badj, badjEvents

bribOf == <<bribTab, bribRibd, bribEvents>>
bgpsOf == <<bgpsSrv, bgpsMgr, bgpsConnQ, bgpsPkts, bgpsBfdQ, bgpsDb, bgpsEvents>>
badjOf == <<badj, badjEvents>>

Rib == INSTANCE BgpRib
Server == INSTANCE BgpServer
Adj == INSTANCE BgpAdj

-----------------------------------------------------------------------------
(* The values of the constants *)

\* Loc-RIB: an external and an internal peer, which announce, replace and
\* withdraw x and y with different next hops, path ids and AS paths, once
\* with a loop and once with invalid attributes.
EAndI == [e |-> [ebgp |-> TRUE, id |-> 2, addr |-> 1, max |-> 2],
          i |-> [ebgp |-> FALSE, id |-> 1, addr |-> 2, max |-> 0]]
Attr(ases, origin, loop, valid) ==
    [pref |-> 100, ases |-> ases, origin |-> origin, loop |-> loop, clusters |-> 0, valid |-> valid]
UpdateOf(p, add, rem, attr, nh) == [peer |-> p, add |-> add, rem |-> rem, attr |-> attr, nh |-> nh]
x0 == <<<<"x", 0>>>>
y0 == <<<<"y", 0>>>>
XAndY ==
    {UpdateOf("e", x0, <<>>, Attr(1, 0, FALSE, TRUE), "n1"),
     UpdateOf("e", x0, <<>>, Attr(2, 0, FALSE, TRUE), "n2"),
     UpdateOf("i", x0, <<>>, Attr(1, 0, FALSE, TRUE), "n1"),
     UpdateOf("i", x0, <<>>, Attr(1, 0, FALSE, TRUE), "n2"),
     UpdateOf("e", <<>>, x0, Attr(1, 0, FALSE, TRUE), "n1"),
     UpdateOf("i", <<>>, x0, Attr(1, 0, FALSE, TRUE), "n1"),
     UpdateOf("e", <<<<"x", 1>>, <<"y", 0>>>>, x0, Attr(1, 1, FALSE, TRUE), "n2"),
     UpdateOf("i", y0, x0, Attr(1, 0, TRUE, TRUE), "n1"),
     UpdateOf("i", x0, y0, Attr(1, 0, FALSE, FALSE), "n1")}
BothOrNone == {[ebgp |-> m, ibgp |-> m] : m \in BOOLEAN}

\* Server: one address, also that of an interface, with BFD or in a group.
Alone == [dis |-> FALSE, bfd |-> TRUE, las |-> 0, addp |-> 0, grp |-> "none"]
Grouped == [dis |-> FALSE, bfd |-> FALSE, las |-> 0, addp |-> 1, grp |-> "g1"]
TwoConfs == {Alone, Grouped}
OneGroupConf == {[las |-> 7, addp |-> 0]}
OnAndOff == {[as |-> 1, dis |-> d] : d \in BOOLEAN}
OneInterface == "e" :> "a"

\* Adj-RIBs: an external peer with an export filter, two internal ones and
\* one with additional paths; x is a member of the aggregate, w is IPv6.
ToC == [p \in BadjPeers |-> IF p = "c" THEN 3 ELSE 0]
NoPolicy == [act |-> "none", pfx |-> {}]
PermitX == [act |-> "permit", pfx |-> {"x"}]
DenyX == [act |-> "deny", pfx |-> {"x"}]
AFilters == [p \in BadjPeers |-> IF p = "a" THEN PermitX ELSE NoPolicy]
PermitOrDeny == {PermitX, DenyX}
PathOf(src, as, rank) == [src |-> src, as |-> as, rank |-> rank]
Nothing == PathOf("none", {}, 0)
Tells(p, add, rem, path) == [peer |-> p, add |-> add, rem |-> rem, path |-> path]
XAndW ==
    {Tells("a", {"x", "w"}, {}, PathOf("a", {"a"}, 2)), Tells("a", {"x"}, {}, PathOf("a", {"a", "i"}, 5)),
     Tells("a", {}, {"x"}, Nothing), Tells("a", {}, {"w"}, Nothing),
     Tells("i", {"x"}, {}, PathOf("i", {}, 3)), Tells("i", {}, {"x"}, Nothing),
     Tells("i", {"w"}, {}, PathOf("i", {"us"}, 4))}

-----------------------------------------------------------------------------
\* The variables of a part that is not running are "off".
BgpInit ==
    /\ running \in {"fsm", "rib", "server", "adj"}
    /\ Init
    /\ \/ running = "rib" /\ Rib!BribInit
       \/ running # "rib" /\ bribTab = "off" /\ bribRibd = "off" /\ bribEvents = "off"
    /\ \/ running = "server" /\ Server!BgpsInit
       \/ /\ running # "server"
          /\ bgpsSrv = "off" /\ bgpsMgr = "off" /\ bgpsConnQ = "off" /\ bgpsPkts = "off"
          /\ bgpsBfdQ = "off" /\ bgpsDb = "off" /\ bgpsEvents = "off"
    /\ \/ running = "adj" /\ Adj!BadjInit
       \/ running # "adj" /\ badj = "off" /\ badjEvents = "off"

BgpNext ==
    /\ UNCHANGED running
    /\ \/ running = "fsm" /\ Next /\ UNCHANGED <<bribOf, bgpsOf, badjOf>>
       \/ running = "rib" /\ Rib!BribNext /\ UNCHANGED <<vars, bgpsOf, badjOf>>
       \/ running = "server" /\ Server!BgpsNext /\ UNCHANGED <<vars, bribOf, badjOf>>
       \/ running = "adj" /\ Adj!BadjNext /\ UNCHANGED <<vars, bribOf, bgpsOf>>

BgpSpec == BgpInit /\ [][BgpNext]_<<running, vars, bribOf, bgpsOf, badjOf>>

-----------------------------------------------------------------------------
(* Properties *)

\* Loc-RIB: ribd has exactly what the destinations installed, prefix counts
\* are the numbers of paths, and every destination is in the list once, over
\* every sequence of updates, next hop changes and sessions (rib.go,
\* destination.go), with the exceptions each part names.
BgpRibSafe ==
    running = "rib" =>
        Rib!BribTypeOK /\ Rib!FibMatchesEcmp /\ Rib!PrefixCountMatches /\ Rib!ListedOnce

\* Best path: what a destination has selected is one of its current paths,
\* reachable and installed, and none of its usable paths was to be preferred
\* (destination.go SelectRouteForLocRib), with the exceptions it names.
BestPathSafe == running = "rib" => Rib!BestIsBest

\* Server: the list of neighbours, bfdd's sessions, the local AS numbers,
\* the established neighbours and their routes follow the configuration and
\* the managers, over every order of configuration, session events, packets
\* and BFD notifications (server.go, peer.go, neighbor.go), with the
\* exceptions each part names.
BgpServerSafe ==
    running = "server" =>
        /\ Server!BgpsTypeOK /\ Server!ListIsPeers /\ Server!BfdFollowsPeers
        /\ Server!LocalASIsConfigured /\ Server!BelievesItsManagers
        /\ Server!RoutesFromSessions /\ Server!ServerLives

\* Adj-RIB-In: the Loc-RIB has exactly what the peers whose sessions last
\* announced and their import filters accepted (peer.go ReceiveUpdate,
\* AddAdjRIBFilter), with the exceptions it names.
LocRibSafe == running = "adj" => Adj!LocRibIsAdjIn

\* Adj-RIB-Out: a peer holds the best path or nothing, nothing withdrawn, none
\* of its own routes, and no member of a summary (peer.go SendUpdate,
\* server.go), with the exceptions each part names.
BgpAdjSafe ==
    running = "adj" =>
        /\ Adj!BadjTypeOK /\ Adj!PeersHoldTheBest /\ Adj!NothingStaleAtPeers
        /\ Adj!SplitHorizon /\ Adj!MembersAreSummarised
=============================================================================
