------------------------------ MODULE BgpServer ------------------------------
(***************************************************************************)
(* The BGP server goroutine (src/bgp/server/server.go, peer.go), the        *)
(* neighbour configuration it runs on (src/bgp/baseobjects/neighbor.go) and *)
(* the RPC layer in front of it (src/bgp/rpc/listener.go): neighbours given *)
(* by address or by interface, peer groups, the global configuration,       *)
(* BFD, interface events, resets, bulk gets, and the restart from the       *)
(* configuration database.                                                  *)
(*                                                                          *)
(* The server handles one message at a time. An RPC hands its message over  *)
(* an unbuffered channel, so a call and its handling are one step. Peer     *)
(* objects and FSM managers are positions in the sequences "obj" and "mgr": *)
(* several of them may claim one address. The session itself is BgpFsm's    *)
(* subject: here a manager has a session or not, and posts what happens to  *)
(* it in PeerFSMConnCh.                                                     *)
(***************************************************************************)
EXTENDS Integers, Sequences, FiniteSets, SequencesExt, FiniteSetsExt, Functions

CONSTANTS BgpsAddrs,       \* neighbour addresses
          BgpsIfAddr,      \* interface -> the address its other end has when it is up
          BgpsConfs,       \* neighbour settings [dis, bfd, las, addp, grp]
          BgpsGroups,      \* names of peer groups
          BgpsGroupConfs,  \* their settings [las, addp]
          BgpsGlobals,     \* global settings [as, dis]
          MaxBgpsObjs,     \* bound: peer objects ever made
          MaxBgpsMgrs,     \* bound: FSM managers ever made
          MaxBgpsEvents    \* bound: RPCs, interface, BFD and session events

VARIABLES bgpsSrv,      \* the server's tables: see BgpsInit
          bgpsMgr,      \* the FSM managers
          bgpsConnQ,    \* PeerFSMConnCh: <<address, established>>, and the manager that posted it
          bgpsPkts,     \* UPDATEs on their way to BGPPktSrcCh, by address
          bgpsBfdQ,     \* BfdCh: <<address, up>>
          bgpsDb,       \* the configuration database (external)
          bgpsEvents

bgpsVars == <<bgpsSrv, bgpsMgr, bgpsConnQ, bgpsPkts, bgpsBfdQ, bgpsDb, bgpsEvents>>

None == "none"
Ifaces == DOMAIN BgpsIfAddr
NoObj == 0
NoMgr == 0
NoGrp == [name |-> None, live |-> FALSE, conf |-> [bfd |-> FALSE, las |-> 0, addp |-> 0]]
\* A neighbour request names an address or an interface.
Requests == [addr : BgpsAddrs, ifc : {None}] \cup [addr : {None}, ifc : Ifaces]

BgpsInit ==
    /\ \E g \in BgpsGlobals :
        bgpsSrv = [obj |-> << >>, map |-> [a \in BgpsAddrs |-> NoObj], ifn |-> [i \in Ifaces |-> NoObj],
                   list |-> << >>, grps |-> [n \in BgpsGroups |-> NoGrp], glob |-> g,
                   up |-> {}, flipped |-> {}, ifMap |-> [a \in BgpsAddrs |-> 0], addp |-> 0,
                   routes |-> {}, bfd |-> {}, mgrs |-> 0, close |-> {}, start |-> {}, send |-> << >>,
                   hung |-> FALSE, crash |-> FALSE, past |-> {}]
    /\ bgpsMgr = << >>
    /\ bgpsConnQ = << >> /\ bgpsPkts = {} /\ bgpsBfdQ = << >>
    /\ bgpsDb = [nbr |-> << >>, grp |-> << >>]
    /\ bgpsEvents = 0

Note(s, what) == [s EXCEPT !.past = @ \cup {what}]

-----------------------------------------------------------------------------
(* The configuration a neighbour runs with                                  *)

\* SetRunningConf: the neighbour's own settings over the group's over the global AS.
Running(g, own, as) ==
    [las |-> IF own.las # 0 THEN own.las ELSE IF g.conf.las # 0 THEN g.conf.las ELSE as,
     bfd |-> own.bfd \/ g.conf.bfd,
     addp |-> IF own.addp # 0 THEN own.addp ELSE g.conf.addp,
     dis |-> own.dis]

\* SetNeighborState writes a fresh state: BFD, add-path and BFD-use are reset.
SetNeighborState(o) == [o EXCEPT !.bfd = "", !.addtx = 0, !.use = FALSE]

\* setOtherStates: BFD counts as up as soon as it is enabled.
SetOtherStates(o) == [o EXCEPT !.bfd = IF o.run.bfd THEN "up" ELSE "down"]

\* UpdateNeighborConf starts from an empty configuration, without the global
\* AS, and asks the group only if the neighbour changes group.
UpdateNeighborConf(s, o, own) ==
    LET g == IF own.grp # None /\ own.grp # o.grp.name THEN s.grps[own.grp] ELSE NoGrp
    IN  SetNeighborState([o EXCEPT !.own = own, !.run = Running(g, own, 0)])

UpdateGlobalConf(s, o) == SetOtherStates(SetNeighborState([o EXCEPT !.run = Running(o.grp, o.own, s.glob.as)]))

UpdatePeerGroup(s, o, g) == SetNeighborState([o EXCEPT !.grp = g, !.run = Running(g, o.own, s.glob.as)])

\* getIfaceIP: nothing while the interface has no address; ^ of the last byte
\* otherwise, which yields the local address if it was applied before.
IfaceIP(s, i) == IF i \in s.up /\ i \notin s.flipped THEN BgpsIfAddr[i] ELSE None

-----------------------------------------------------------------------------
(* A peer                                                                   *)

NewFSMManager(s, k) == [s EXCEPT !.mgrs = @ + 1, !.obj[k].mgr = s.mgrs + 1]

\* NewPeer: the manager exists at once, unless the neighbour has no address or is disabled.
NewPeer(s, addr, ifc, own, g) ==
    LET run == Running(g, own, s.glob.as)
        o == SetOtherStates([addr |-> addr, ifc |-> ifc, own |-> own, grp |-> g, run |-> run, active |-> FALSE,
                             mgr |-> NoMgr, local |-> FALSE, bfd |-> "", timer |-> FALSE, use |-> FALSE,
                             addtx |-> 0, idx |-> FALSE])
        t == [s EXCEPT !.obj = Append(@, o)]
    IN  IF addr = None \/ own.dis THEN t ELSE NewFSMManager(t, Len(t.obj))

\* ProcessBfd: what BGP asks of bfdd.
ProcessBfd(s, k, add) ==
    LET o == s.obj[k]
    IN  IF add /\ o.run.bfd THEN [s EXCEPT !.bfd = @ \cup {o.addr}, !.obj[k].bfd = "up"]
        ELSE IF o.bfd # "" THEN [s EXCEPT !.bfd = @ \ {o.addr}, !.obj[k].bfd = ""]
        ELSE s

\* Peer.Init starts the manager's goroutine.
PeerInit(s, k) ==
    LET o == s.obj[k]
        t == IF o.mgr = NoMgr THEN NewFSMManager(s, k) ELSE s
    IN  IF o.active \/ o.addr = None \/ o.run.dis THEN s
        ELSE ProcessBfd([t EXCEPT !.start = @ \cup {<<t.obj[k].mgr, k>>}, !.obj[k].active = TRUE], k, TRUE)

\* Fault: the BFD session outlives the peer.
CleanupKeepsBfd(s, k) ==
    LET o == s.obj[k]
    IN  IF ~o.active \/ o.addr = None \/ o.run.dis THEN s
        ELSE [s EXCEPT !.obj[k].active = FALSE, !.close = @ \cup {o.mgr}, !.obj[k].mgr = NoMgr]

\* Peer.Cleanup tells the manager to close; it posts the end of the session later.
Cleanup(s, k) ==
    LET o == s.obj[k]
        t == ProcessBfd([s EXCEPT !.obj[k].active = FALSE], k, FALSE)
    IN  IF ~o.active \/ o.addr = None \/ o.run.dis THEN s
        ELSE [t EXCEPT !.close = @ \cup {o.mgr}, !.obj[k].mgr = NoMgr]

\* BfdFaultSet and BfdFaultCleared use the manager, and the timer, without looking.
BfdFaultSet(s, k) ==
    IF s.obj[k].mgr = NoMgr THEN [Note(s, "bfd without manager") EXCEPT !.crash = TRUE]
    ELSE [s EXCEPT !.obj[k].bfd = "down", !.obj[k].timer = TRUE, !.send = Append(@, <<s.obj[k].mgr, "bfd down">>)]
BfdFaultCleared(s, k) ==
    IF s.obj[k].mgr = NoMgr \/ ~s.obj[k].timer THEN [Note(s, "bfd without manager") EXCEPT !.crash = TRUE]
    ELSE [s EXCEPT !.obj[k].bfd = "up", !.send = Append(@, <<s.obj[k].mgr, "bfd up">>)]

PeerConnEstablished(s, k) == [s EXCEPT !.obj[k].local = TRUE, !.obj[k].use = TRUE]
PeerConnBroken(s, k) == [s EXCEPT !.obj[k].local = FALSE, !.obj[k].addtx = 0]

\* A message over an unbuffered channel of a manager whose goroutine was never
\* started blocks the server for ever.
ToManager(s, k, what) ==
    IF s.obj[k].mgr = NoMgr THEN s
    ELSE IF s.obj[k].active THEN [s EXCEPT !.send = Append(@, <<s.obj[k].mgr, what>>)]
    ELSE [Note(s, "manager not started") EXCEPT !.hung = TRUE]

-----------------------------------------------------------------------------
(* The server                                                               *)

ProcessRemoveNeighbor(s, addr) == [s EXCEPT !.routes = @ \ {addr}]

MappedObjs(s) == {s.map[a] : a \in BgpsAddrs} \ {NoObj}
OnEach(Op(_, _), s, ks) == FoldSet(LAMBDA k, t : Op(t, k), s, ks)

GroupOf(s, name) == IF name # None THEN s.grps[name] ELSE NoGrp

CreatePeer(s, req, own) ==
    LET addr == IF req.ifc # None THEN IfaceIP(s, req.ifc) ELSE req.addr
        known == req.addr # None /\ s.map[req.addr] # NoObj
        t == NewPeer(s, addr, req.ifc, own, GroupOf(s, own.grp))
        k == Len(t.obj)
        u == IF addr = None THEN t
             ELSE IF t.map[addr] # NoObj THEN [Note(t, "address taken") EXCEPT !.map[addr] = k]
             ELSE [t EXCEPT !.map[addr] = k]
        v == IF req.ifc # None THEN [u EXCEPT !.ifn[req.ifc] = k] ELSE u
        w == [v EXCEPT !.list = Append(@, k)]
    IN  IF known \/ (req.ifc # None /\ s.ifn[req.ifc] # NoObj) THEN s
        ELSE IF w.glob.dis THEN Note(w, "created while disabled") ELSE PeerInit(w, k)

\* The RPC layer resolves the interface before the server sees the request.
Resolved(s, req) == IF req.ifc # None THEN [req EXCEPT !.addr = IfaceIP(s, req.ifc)] ELSE req

GetPeer(s, req) ==
    IF req.addr # None THEN s.map[req.addr] ELSE IF req.ifc # None THEN s.ifn[req.ifc] ELSE NoObj

\* updatePeerConf: stop, take the new settings and the group's, start again.
UpdatePeerConf(s, k, own) ==
    LET t == Cleanup(s, k)
        u == IF t.obj[k].addr # None THEN ProcessRemoveNeighbor(t, t.obj[k].addr) ELSE t
        v == [u EXCEPT !.obj[k] = UpdateNeighborConf(u, u.obj[k], own)]
        w == IF own.grp # None /\ s.grps[own.grp] # NoGrp
             THEN [v EXCEPT !.obj[k] = UpdatePeerGroup(v, @, [s.grps[own.grp] EXCEPT !.live = TRUE])]
             ELSE Note(v, "updated alone")
    IN  IF w.glob.dis THEN w ELSE PeerInit(w, k)

\* Updatev4Peer, Updatev6Peer: a change of the Adj-RIB-In filter alone rewrites
\* the settings and the state of a peer that keeps running.
UpdatePeer(s, req, own, filterOnly) ==
    LET k == GetPeer(s, Resolved(s, req))
    IN  IF k = NoObj THEN s
        ELSE IF filterOnly THEN [Note(s, "filter changed") EXCEPT !.obj[k] = UpdateNeighborConf(s, @, own)]
        ELSE UpdatePeerConf(s, k, own)

\* removePeer: an interface neighbour that has an address is looked up by it,
\* and stays in ifaceNeighbors; one without an address stays in Neighbors.
RemovePeer(s, req) ==
    LET r == Resolved(s, req)
        i == IF r.ifc # None THEN s.ifn[r.ifc] ELSE NoObj
        addr == IF r.addr # None THEN r.addr ELSE IF i # NoObj THEN s.obj[i].addr ELSE None
        t == IF r.addr = None /\ r.ifc # None THEN [s EXCEPT !.ifn[r.ifc] = NoObj] ELSE Note(s, "removed by address")
        k == IF addr # None THEN s.map[addr] ELSE NoObj
        Unlisted(u, x) == [u EXCEPT !.list = SelectSeq(@, LAMBDA y : y # x)]
        gone == IF s.obj[k].local THEN Note(t, "removed while established") ELSE t
    IN  IF addr = None THEN Note(t, "removed without address")
        ELSE IF k # NoObj THEN ProcessRemoveNeighbor(Cleanup([Unlisted(gone, k) EXCEPT !.map[addr] = NoObj], k), addr)
        ELSE IF r.addr = None /\ i # NoObj THEN Cleanup(Unlisted(t, i), i)
        ELSE s

HandleIntfCreate(s, i) ==
    LET k == s.ifn[i]
        ip == IfaceIP(s, i)
        t == [s EXCEPT !.obj[k].addr = ip, !.map[ip] = k]
    IN  IF ip = None \/ k = NoObj THEN s
        ELSE PeerInit(IF s.map[ip] \notin {k, NoObj} THEN Note(t, "address taken") ELSE t, k)

HandleIntfDelete(s, i) ==
    LET k == s.ifn[i]
        addr == s.obj[k].addr
        t == Cleanup([s EXCEPT !.map[addr] = NoObj], k)
        u == IF s.obj[k].local THEN Note(t, "removed while established") ELSE t
    IN  IF k = NoObj THEN s
        ELSE IF addr = None THEN s
        ELSE [ProcessRemoveNeighbor(u, addr) EXCEPT !.obj[k].addr = None]

\* UpdatePeerGroupInPeers: only the peers in PeerMap, by the group they point to.
UpdatePeerGroupInPeers(s, name, g) ==
    LET ks == {k \in MappedObjs(s) : s.obj[k].grp.name = name}
        Stop(t, k) == ProcessRemoveNeighbor(Cleanup(t, k), t.obj[k].addr)
        Take(t, k) == PeerInit([t EXCEPT !.obj[k] = UpdatePeerGroup(t, @, g)], k)
    IN  OnEach(Take, OnEach(Stop, s, ks), ks)

\* The conversions of a peer group, from the RPC and from the database, carry
\* no BfdEnable.
GroupConf(c) == [bfd |-> FALSE, las |-> c.las, addp |-> c.addp]

AddPeerGroup(s, name, conf) ==
    LET g == [name |-> name, live |-> FALSE, conf |-> conf]
        t == [s EXCEPT !.grps[name] = [g EXCEPT !.live = TRUE],
                       !.obj = [k \in DOMAIN @ |-> IF @[k].grp.name = name /\ @[k].grp.live
                                                   THEN [@[k] EXCEPT !.grp.conf = conf] ELSE @[k]]]
    IN  UpdatePeerGroupInPeers(t, name, g)

RemPeerGroup(s, name) ==
    IF s.grps[name] = NoGrp THEN s
    ELSE UpdatePeerGroupInPeers([s EXCEPT !.grps[name] = NoGrp], name, NoGrp)

\* Restart, on a new global configuration.
Restart(s, g) ==
    LET ks == MappedObjs(s)
        Take(t, k) == [t EXCEPT !.obj[k] = UpdateGlobalConf(t, @)]
        t == [OnEach(Cleanup, s, ks) EXCEPT !.routes = {}, !.glob = g]
        u == OnEach(Take, t, ks)
        v == IF ks # {k \in DOMAIN s.obj : \E i \in DOMAIN s.list : s.list[i] = k} THEN Note(u, "restart missed a peer") ELSE u
    IN  IF g.dis THEN v ELSE OnEach(PeerInit, v, ks)

\* The two branches of PeerFSMConnCh.
Max0(S) == IF S = {} THEN 0 ELSE Max(S)
SetInterfaceMapForPeer(s, k, addr, found) ==
    IF found THEN [s EXCEPT !.ifMap[addr] = @ + 1, !.obj[k].idx = TRUE] ELSE s
ClearInterfaceMapForPeer(s, k, addr) ==
    LET t == [s EXCEPT !.obj[k].idx = FALSE]
    IN  IF s.obj[k].idx /\ s.ifMap[addr] > 0 THEN [t EXCEPT !.ifMap[addr] = @ - 1] ELSE t

Established(s, addr, found) ==
    LET k == s.map[addr]
        t == PeerConnEstablished(s, k)
        u == [t EXCEPT !.addp = Max({@, t.obj[k].addtx})]
    IN  IF k = NoObj THEN s ELSE SetInterfaceMapForPeer(u, k, addr, found)

Broken(s, addr) ==
    LET k == s.map[addr]
        t == PeerConnBroken(s, k)
        u == [t EXCEPT !.addp = IF @ > 0 THEN Max0({t.obj[x].addtx : x \in MappedObjs(t)}) ELSE @]
    IN  IF k = NoObj THEN s ELSE ProcessRemoveNeighbor(ClearInterfaceMapForPeer(u, k, addr), addr)

HandleBfdNotifications(s, addr, up) ==
    LET k == s.map[addr]
    IN  IF k = NoObj THEN s
        ELSE IF ~up /\ s.obj[k].bfd = "up" THEN BfdFaultSet(s, k)
        ELSE IF up /\ s.obj[k].bfd = "down" THEN BfdFaultCleared(s, k)
        ELSE s

\* INTF_STATE_DOWN stops the peers IfIndexPeerMap holds for the interface.
InterfaceDown(s, addr) ==
    IF s.ifMap[addr] = 0 \/ s.map[addr] = NoObj THEN s ELSE ToManager(s, s.map[addr], "stop")

AcceptConn(s, addr) == IF s.map[addr] = NoObj THEN s ELSE ToManager(s, s.map[addr], "accept")

\* PeerCommandCh: an unknown neighbour is logged, and used.
Command(s, addr) ==
    IF addr = None \/ (addr # None /\ s.map[addr] = NoObj) THEN [Note(s, "unknown neighbour") EXCEPT !.crash = TRUE]
    ELSE IF s.obj[s.map[addr]].mgr = NoMgr THEN s
    ELSE [s EXCEPT !.send = Append(@, <<s.obj[s.map[addr]].mgr, "reset">>)]

\* ResetBGPv4NeighborByInterface flips the last byte of the interface's own
\* address in place.
ResetByInterface(s, i) ==
    IF i \notin s.up THEN s
    ELSE Command([Note(s, "reset by interface") EXCEPT
                    !.flipped = IF i \in @ THEN @ \ {i} ELSE @ \cup {i}], IfaceIP(s, i))

\* bulkGetBGPNeighbors from index on: reads Neighbors[i + index].
BulkGet(s, index, count) ==
    IF \E i \in index .. Len(s.list) - 1 : i + index >= Len(s.list) /\ i - index < count
    THEN [Note(s, "bulk get continued") EXCEPT !.crash = TRUE] ELSE s

-----------------------------------------------------------------------------
(* Steps. Handled(t) makes what the server did to the managers happen.      *)

Alive == ~bgpsSrv.hung /\ ~bgpsSrv.crash

Delivered(ms, msg) ==
    LET m == msg[1]
    IN  IF msg[2] = "stop" THEN [ms EXCEPT ![m].sess = FALSE] ELSE ms

\* What a manager posts when it is told to stop: fsmBroken.
Posts(ms, msg) ==
    IF msg[2] = "stop" /\ ms[msg[1]].sess THEN <<<<bgpsSrv.obj[ms[msg[1]].of].addr, FALSE, msg[1]>>>> ELSE << >>

HandledWith(t, q) ==
    LET new == t.mgrs - Len(bgpsMgr)
        all == bgpsMgr \o [i \in 1 .. new |-> [of |-> NoObj, run |-> "no", sess |-> FALSE]]
        run == [m \in DOMAIN all |->
                  IF m \in t.close THEN [all[m] EXCEPT !.run = "closing"]
                  ELSE IF \E p \in t.start : p[1] = m
                       THEN [all[m] EXCEPT !.run = "yes", !.of = (CHOOSE p \in t.start : p[1] = m)[2]]
                  ELSE all[m]]
        posts == FlattenSeq([i \in DOMAIN t.send |-> Posts(run, t.send[i])])
    IN  /\ t.mgrs <= MaxBgpsMgrs /\ Len(t.obj) <= MaxBgpsObjs
        /\ bgpsMgr' = FoldLeft(Delivered, run, t.send)
        /\ bgpsConnQ' = q \o SelectSeq(posts, LAMBDA e : e[1] # None)
        /\ bgpsSrv' = [t EXCEPT !.close = {}, !.start = {}, !.send = << >>]

Handled(t) == HandledWith(t, bgpsConnQ)

Happens == bgpsEvents < MaxBgpsEvents /\ bgpsEvents' = bgpsEvents + 1

\* A neighbour as the database keeps it and a restart converts it back.
Stored(req, own) == [req |-> req, own |-> own]

\* An RPC that changes the configuration; the database is written by its caller.
Configures ==
    /\ Alive /\ Happens
    /\ \/ \E req \in Requests, own \in BgpsConfs :
            LET ok == \A i \in DOMAIN bgpsDb.nbr : bgpsDb.nbr[i].req # req
            IN  /\ ok
                /\ Handled(CreatePeer(bgpsSrv, Resolved(bgpsSrv, req), own))
                /\ bgpsDb' = [bgpsDb EXCEPT !.nbr = Append(@, Stored(req, own))]
       \/ \E i \in DOMAIN bgpsDb.nbr, own \in BgpsConfs, filterOnly \in BOOLEAN :
            /\ IF filterOnly THEN own = bgpsDb.nbr[i].own ELSE own # bgpsDb.nbr[i].own
            /\ Handled(UpdatePeer(bgpsSrv, bgpsDb.nbr[i].req, own, filterOnly))
            /\ bgpsDb' = [bgpsDb EXCEPT !.nbr[i].own = own]
       \/ \E i \in DOMAIN bgpsDb.nbr :
            /\ Handled(RemovePeer(bgpsSrv, bgpsDb.nbr[i].req))
            /\ bgpsDb' = [bgpsDb EXCEPT !.nbr = RemoveAt(@, i)]
       \/ \E n \in BgpsGroups, c \in BgpsGroupConfs :
            /\ bgpsSrv.grps[n].conf # GroupConf(c)
            /\ Handled(AddPeerGroup(bgpsSrv, n, GroupConf(c)))
            /\ bgpsDb' = [bgpsDb EXCEPT !.grp = Append(SelectSeq(@, LAMBDA g : g[1] # n), <<n, c>>)]
       \/ \E n \in BgpsGroups :
            /\ bgpsSrv.grps[n] # NoGrp
            /\ Handled(RemPeerGroup(bgpsSrv, n))
            /\ bgpsDb' = [bgpsDb EXCEPT !.grp = SelectSeq(@, LAMBDA g : g[1] # n)]
       \/ \E g \in BgpsGlobals : g # bgpsSrv.glob /\ Handled(Restart(bgpsSrv, g)) /\ UNCHANGED bgpsDb
    /\ UNCHANGED <<bgpsPkts, bgpsBfdQ>>

\* Interface events from asicd.
IntfEvent ==
    /\ Alive /\ Happens
    /\ \/ \E i \in Ifaces \ bgpsSrv.up :
            Handled(HandleIntfCreate([bgpsSrv EXCEPT !.up = @ \cup {i}, !.flipped = @ \ {i}], i))
       \/ \E i \in bgpsSrv.up : Handled(HandleIntfDelete([bgpsSrv EXCEPT !.up = @ \ {i}], i))
       \/ \E a \in BgpsAddrs : Handled(InterfaceDown(bgpsSrv, a))
    /\ UNCHANGED <<bgpsPkts, bgpsBfdQ, bgpsDb>>

\* An incoming connection, a reset, a bulk get.
Asked ==
    /\ Alive /\ Happens
    /\ \/ \E a \in BgpsAddrs : Handled(AcceptConn(bgpsSrv, a))
       \/ \E a \in BgpsAddrs : Handled(Command(bgpsSrv, a))
       \/ \E i \in Ifaces : Handled(ResetByInterface(bgpsSrv, i))
       \/ \E index \in 0 .. 1 : Handled(BulkGet(bgpsSrv, index, 1))
    /\ UNCHANGED <<bgpsPkts, bgpsBfdQ, bgpsDb>>

\* BFD loses or regains a neighbour it was asked to watch.
BfddNotifies ==
    /\ Happens
    /\ \E a \in bgpsSrv.bfd, up \in BOOLEAN : bgpsBfdQ' = Append(bgpsBfdQ, <<a, up>>)
    /\ UNCHANGED <<bgpsSrv, bgpsMgr, bgpsConnQ, bgpsPkts, bgpsDb>>

HandleBfd ==
    /\ Alive /\ bgpsBfdQ # << >>
    /\ Handled(HandleBfdNotifications(bgpsSrv, Head(bgpsBfdQ)[1], Head(bgpsBfdQ)[2]))
    /\ bgpsBfdQ' = Tail(bgpsBfdQ)
    /\ UNCHANGED <<bgpsPkts, bgpsDb, bgpsEvents>>

\* A session comes up (SetPeerAttrs, fsmEstablished) or goes (fsmBroken).
SessionChanges ==
    /\ Happens
    /\ \E m \in DOMAIN bgpsMgr :
        LET k == bgpsMgr[m].of
            est == ~bgpsMgr[m].sess
        IN  /\ bgpsMgr[m].run # "no" /\ bgpsMgr[m].run # "stuck"
            /\ bgpsSrv.obj[k].addr # None
            /\ bgpsMgr' = [bgpsMgr EXCEPT ![m].sess = est]
            /\ bgpsConnQ' = Append(bgpsConnQ, <<bgpsSrv.obj[k].addr, est, m>>)
            /\ bgpsSrv' = IF est THEN [bgpsSrv EXCEPT !.obj[k].addtx = bgpsSrv.obj[k].run.addp] ELSE bgpsSrv
    /\ UNCHANGED <<bgpsPkts, bgpsBfdQ, bgpsDb>>

\* FSMManager.Cleanup: fsmBroken, then fsmStateChange waits for the mutex
\* Cleanup itself holds, for ever.
ManagerCleansUp ==
    /\ \E m \in DOMAIN bgpsMgr :
        /\ bgpsMgr[m].run = "closing"
        /\ bgpsMgr' = [bgpsMgr EXCEPT ![m].run = "stuck", ![m].sess = FALSE]
        /\ LET addr == bgpsSrv.obj[bgpsMgr[m].of].addr
           IN  bgpsConnQ' = IF bgpsMgr[m].sess /\ addr # None THEN Append(bgpsConnQ, <<addr, FALSE, m>>) ELSE bgpsConnQ
    /\ UNCHANGED <<bgpsSrv, bgpsPkts, bgpsBfdQ, bgpsDb, bgpsEvents>>

\* The case of PeerFSMConnCh. An event posted by a manager that was replaced
\* is taken for the news of its successor.
HandleConn ==
    /\ Alive /\ bgpsConnQ # << >>
    /\ LET addr == Head(bgpsConnQ)[1]
           k == bgpsSrv.map[addr]
           current == k # NoObj /\ bgpsSrv.obj[k].mgr = Head(bgpsConnQ)[3]
           s == IF current THEN bgpsSrv ELSE Note(bgpsSrv, "old news")
       IN  IF Head(bgpsConnQ)[2]
           THEN \E found \in BOOLEAN : HandledWith(Established(s, addr, found), Tail(bgpsConnQ))
           ELSE HandledWith(Broken(s, addr), Tail(bgpsConnQ))
    /\ UNCHANGED <<bgpsPkts, bgpsBfdQ, bgpsDb, bgpsEvents>>

\* ProcessUpdateMessage: each UPDATE is handed over by a goroutine of its own.
UpdateArrives ==
    /\ Happens
    /\ \E m \in DOMAIN bgpsMgr :
        /\ bgpsMgr[m].sess /\ bgpsSrv.obj[bgpsMgr[m].of].addr # None
        /\ bgpsPkts' = bgpsPkts \cup {bgpsSrv.obj[bgpsMgr[m].of].addr}
    /\ UNCHANGED <<bgpsSrv, bgpsMgr, bgpsConnQ, bgpsBfdQ, bgpsDb>>

ProcessUpdate ==
    /\ Alive
    /\ \E a \in bgpsPkts :
        LET k == bgpsSrv.map[a]
            t == IF k # NoObj /\ bgpsSrv.obj[k].local THEN bgpsSrv ELSE Note(bgpsSrv, "late update")
        IN  /\ bgpsSrv' = IF k = NoObj THEN bgpsSrv ELSE [t EXCEPT !.routes = @ \cup {a}]
            /\ bgpsPkts' = bgpsPkts \ {a}
    /\ UNCHANGED <<bgpsMgr, bgpsConnQ, bgpsBfdQ, bgpsDb, bgpsEvents>>

\* The daemon restarts: ReadBGPConfigFromDB sends the groups and then the
\* neighbours of the database through the same channels.
ReadBGPConfigFromDB ==
    /\ Happens
    /\ LET s == [bgpsSrv EXCEPT !.obj = << >>, !.map = [a \in BgpsAddrs |-> NoObj], !.ifn = [i \in Ifaces |-> NoObj],
                                !.list = << >>, !.grps = [n \in BgpsGroups |-> NoGrp], !.flipped = {},
                                !.ifMap = [a \in BgpsAddrs |-> 0], !.addp = 0, !.routes = {}, !.bfd = {},
                                !.mgrs = 0, !.hung = FALSE, !.crash = FALSE, !.past = {"restarted"}]
           t == FoldLeft(LAMBDA u, g : AddPeerGroup(u, g[1], GroupConf(g[2])), s, bgpsDb.grp)
           u == FoldLeft(LAMBDA v, n : CreatePeer(v, Resolved(v, n.req), n.own), t, bgpsDb.nbr)
       IN  /\ bgpsSrv' = [u EXCEPT !.close = {}, !.start = {}, !.send = << >>]
           /\ bgpsMgr' = [m \in 1 .. u.mgrs |->
                            IF \E p \in u.start : p[1] = m
                            THEN [of |-> (CHOOSE p \in u.start : p[1] = m)[2], run |-> "yes", sess |-> FALSE]
                            ELSE [of |-> NoObj, run |-> "no", sess |-> FALSE]]
    /\ bgpsConnQ' = << >> /\ bgpsPkts' = {} /\ bgpsBfdQ' = << >>
    /\ UNCHANGED bgpsDb

BgpsNext ==
    \/ Configures \/ IntfEvent \/ Asked \/ BfddNotifies \/ HandleBfd \/ SessionChanges
    \/ ManagerCleansUp \/ HandleConn \/ UpdateArrives \/ ProcessUpdate \/ ReadBGPConfigFromDB

BgpsSpec == BgpsInit /\ [][BgpsNext]_bgpsVars

-----------------------------------------------------------------------------
(* Properties                                                               *)

\* The shape of the tables.
BgpsTypeOK ==
    /\ \A k \in DOMAIN bgpsSrv.obj :
         /\ bgpsSrv.obj[k].addr \in BgpsAddrs \cup {None} /\ bgpsSrv.obj[k].ifc \in Ifaces \cup {None}
         /\ bgpsSrv.obj[k].own \in BgpsConfs /\ bgpsSrv.obj[k].bfd \in {"", "up", "down"}
         /\ bgpsSrv.obj[k].mgr \in 0 .. MaxBgpsMgrs
    /\ \A a \in BgpsAddrs : bgpsSrv.map[a] \in 0 .. Len(bgpsSrv.obj) /\ bgpsSrv.ifMap[a] \in Nat
    /\ \A i \in Ifaces : bgpsSrv.ifn[i] \in 0 .. Len(bgpsSrv.obj)
    /\ Range(bgpsSrv.list) \subseteq DOMAIN bgpsSrv.obj /\ bgpsSrv.routes \subseteq BgpsAddrs
    /\ \A m \in DOMAIN bgpsMgr : bgpsMgr[m].run \in {"no", "yes", "closing", "stuck"}
    /\ bgpsPkts \subseteq BgpsAddrs /\ bgpsEvents \in 0 .. MaxBgpsEvents

Never(what) == what \notin bgpsSrv.past

\* Neighbors, the list the bulk get walks, holds each peer the server knows
\* once and no other (server.go addPeerToList, removePeer), as long as no
\* interface neighbour was removed (:1992, :2003).
ListIsPeers ==
    (Never("removed by address") \/ Ifaces = {}) /\ Never("removed without address") /\ Never("address taken") =>
        /\ Range(bgpsSrv.list) = MappedObjs(bgpsSrv) \cup ({bgpsSrv.ifn[i] : i \in Ifaces} \ {NoObj})
        /\ IsInjective(bgpsSrv.list)

\* bfdd watches exactly the active peers that want BFD (peer.go ProcessBfd,
\* Init, Cleanup), unless the filter of one was changed while it ran.
BfdFollowsPeers ==
    Never("filter changed") /\ Never("address taken") =>
        bgpsSrv.bfd = {bgpsSrv.obj[k].addr : k \in {x \in DOMAIN bgpsSrv.obj : bgpsSrv.obj[x].active /\ bgpsSrv.obj[x].run.bfd}}

\* A peer's local AS is its own, its group's or the global one, whatever
\* sequence of updates, group changes and restarts led there (neighbor.go
\* SetRunningConf), unless it was updated on its own (:145).
LocalASIsConfigured ==
    Never("updated alone") /\ Never("filter changed") /\ Never("restart missed a peer") =>
        \A k \in Range(bgpsSrv.list) :
            LET o == bgpsSrv.obj[k] IN o.run.las = Running(o.grp, o.own, bgpsSrv.glob.as).las

\* The server takes a neighbour for established exactly while its manager has
\* a session or the news is on its way (server.go:2200), unless news of an
\* earlier manager came in between.
BelievesItsManagers ==
    Never("old news") /\ Never("removed while established") /\ Never("address taken") =>
        \A a \in BgpsAddrs :
            LET k == bgpsSrv.map[a]
                news == SelectSeq(bgpsConnQ, LAMBDA e : e[1] = a)
                believes == IF news # << >> THEN Last(news)[2] ELSE bgpsSrv.obj[k].local
                has == bgpsSrv.obj[k].mgr # NoMgr /\ bgpsMgr[bgpsSrv.obj[k].mgr].sess
                closing == \E m \in DOMAIN bgpsMgr : bgpsMgr[m].of = k /\ bgpsMgr[m].run = "closing"
                old == \E i \in DOMAIN news : news[i][3] # bgpsSrv.obj[k].mgr
            IN  k # NoObj /\ ~closing /\ ~old => believes = has

\* Routes of a neighbour are kept only while it is established or the end of
\* its session is about to be handled (ProcessRemoveNeighbor), unless an
\* UPDATE overtook the end of its session (fsm.go:1209).
RoutesFromSessions ==
    Never("late update") /\ Never("old news") /\ Never("address taken") =>
        \A a \in bgpsSrv.routes : bgpsSrv.map[a] # NoObj /\ bgpsSrv.obj[bgpsSrv.map[a]].local

\* The server blocks for ever only on the manager of a neighbour that was
\* configured while BGP was disabled, which exists and does not run
\* (peer.go:102, :390), and a BFD notification kills it only after BGP was
\* disabled or the neighbour replaced (:404).
ServerLives ==
    /\ Never("created while disabled") => ~bgpsSrv.hung
    /\ bgpsSrv.crash /\ Never("unknown neighbour") /\ Never("bulk get continued") => bgpsSrv.glob.dis
=============================================================================
