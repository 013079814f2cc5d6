------------------------------ MODULE RibRoutes ------------------------------
(***************************************************************************)
(* The route table of RIBd (rib/server): what one prefix knows from each   *)
(* protocol, which protocol is selected, and what is installed in the      *)
(* forwarding table of asicd.  One goroutine (StartRouteProcessServer)     *)
(* takes requests from RouteConfCh; the RPC handlers and the goroutine     *)
(* that listens to asicd's interface events put them there.  The second    *)
(* one also reads and writes ConnectedRoutes, which the first one owns.    *)
(*                                                                         *)
(* asicd is reached through one FIFO channel with one reader and never     *)
(* answers, so the forwarding table is updated where the code puts the     *)
(* request on AsicdRouteCh.  A next hop stands for its address and its     *)
(* interface; no policy is configured, so the import path ends in the      *)
(* default action, createRoute, and the export path does nothing.          *)
(***************************************************************************)
EXTENDS Integers, Sequences, FiniteSets, SequencesExt

CONSTANTS Networks,            \* destination networks
          Connected,           \* those that are the subnet of an interface
          Hops,                \* next hops of routes that are not connected
          Metrics,             \* costs of configured routes
          Clients,             \* protocols that configure routes by RPC
          UpdateHops,          \* 1: updates change the cost, 2: also the next hop
          configuredDistance,  \* protocol -> distance set by policy, or -1
          MaxSlice,            \* bound on the length of destNetSlice
          MaxQueue,            \* bound on the length of RouteConfCh
          MaxAhead             \* requests a client's may be queued behind

Protocols == {"CONNECTED", "STATIC", "EBGP", "OSPF", "IBGP"}
Zero == "0.0.0.0"              \* the next hop of a connected route

ASSUME BoundAssumption == MaxSlice \in Nat /\ MaxQueue \in Nat /\ MaxAhead \in Nat
ASSUME ConnectedAssumption == Connected \subseteq Networks
ASSUME HopAssumption == Zero \notin Hops
ASSUME MetricAssumption == Metrics \subseteq Nat
ASSUME ClientAssumption == Clients \subseteq Protocols \ {"CONNECTED"}
ASSUME UpdateAssumption == UpdateHops \subseteq {1, 2}
ASSUME DistanceAssumption == configuredDistance \in [Protocols -> Nat \cup {-1}]

VARIABLES rib,          \* the tables the route goroutine works on
          routeConfCh,  \* RouteConfCh, the requests not yet taken
          link          \* the interfaces, as asicd last announced them
vars == <<rib, routeConfCh, link>>

RouteInfoRecord == [hop: Hops \cup {Zero}, metric: Metrics \cup {0}, sliceIdx: 0..MaxSlice]
ConnectedRoute == [isValid: BOOLEAN, sliceIdx: 0..MaxSlice]
NoRoute == [isValid |-> TRUE, sliceIdx |-> -1]   \* the network has no entry
Request == [op: {"add", "addFIBOnly", "del", "delFIBOnly", "update", "patchAdd", "patchRemove"},
            prefix: Networks, protocol: Protocols, hops: Seq(Hops \cup {Zero}),
            metric: Metrics \cup {0}, sliceIdx: 0..MaxSlice]

-----------------------------------------------------------------------------
(* Administrative distance *)

BuildProtocolAdminDistanceMapDB ==
  [CONNECTED |-> 0, STATIC |-> 1, EBGP |-> 20, OSPF |-> 110, IBGP |-> 200]

Distance(k) == IF configuredDistance[k] # -1 THEN configuredDistance[k]
               ELSE BuildProtocolAdminDistanceMapDB[k]

(* The slice is filled from a Go map and sorted by an unstable sort, once: *)
(* protocols of equal distance stay in whatever order they ended up in.    *)
BuildProtocolAdminDistanceSlice ==
  {order \in [1..Cardinality(Protocols) -> Protocols] :
     /\ IsInjective(order)
     /\ \A i \in 1..Cardinality(Protocols) - 1 : Distance(order[i]) =< Distance(order[i + 1])}

-----------------------------------------------------------------------------
(* The route table.  s is the record rib while a request is processed.     *)

IsRoutePresent(s, p, k) == s.routes[p][k] # <<>>
InTable(s, p) == \E k \in Protocols : IsRoutePresent(s, p, k)

findRouteWithNextHop(list, hop) ==
  IF \E i \in DOMAIN list : list[i].hop = hop
  THEN CHOOSE i \in DOMAIN list : list[i].hop = hop /\ \A j \in 1..i - 1 : list[j].hop # hop
  ELSE 0

Install(s, p, hop) == [s EXCEPT !.fib[p] = @ \cup {hop}]
Uninstall(s, p, hop) == [s EXCEPT !.fib[p] = @ \ {hop}]

(* sel is selectedRouteProtocol of the caller's copy of the list: what     *)
(* RouteInfoMapSet stores, whatever the table held.                        *)
RemoveRecord(s, p, k, i, sel) ==
  LET rest == [s EXCEPT !.routes[p][k] = RemoveAt(@, i)]
  IN [rest EXCEPT !.selected[p] = IF InTable(rest, p) THEN sel ELSE "INVALID"]

deleteRoute(s, p, k, r, sel, delType) ==
  LET invalid == [s EXCEPT !.destNetSlice[r.sliceIdx + 1].isValid = FALSE]
      i       == findRouteWithNextHop(s.routes[p][k], r.hop)
      updated == IF delType = "FIBAndRIB" THEN RemoveRecord(invalid, p, k, i, sel)
                 ELSE [invalid EXCEPT !.selected[p] = sel]
  IN CASE r.sliceIdx >= Len(s.destNetSlice)     -> s
       [] delType = "FIBAndRIB" /\ i = 0        -> invalid
       [] sel # k                               -> updated
       [] OTHER                                 -> Uninstall(updated, p, r.hop)

deleteRoutes(s, p, k, list, sel, delType) ==
  FoldLeft(LAMBDA t, r : deleteRoute(t, p, k, r, sel, delType), s, list)

(* The part of addNewRoute before the route is installed: claim the slot   *)
(* in destNetSlice, record the route unless its next hop is known, store.  *)
Claim(s, r, p) ==
  IF r.sliceIdx < Len(s.destNetSlice) THEN [s EXCEPT !.destNetSlice[r.sliceIdx + 1].isValid = TRUE]
  ELSE [s EXCEPT !.destNetSlice = Append(@, [prefix |-> p, isValid |-> TRUE])]

Record(s, p, k, r, sel) ==
  LET slot == IF r.sliceIdx < Len(s.destNetSlice) THEN r.sliceIdx ELSE Len(s.destNetSlice)
      t    == [Claim(s, r, p) EXCEPT !.selected[p] = sel]
  IN IF findRouteWithNextHop(s.routes[p][k], r.hop) # 0 THEN t
     ELSE [t EXCEPT !.routes[p][k] = Append(@, [r EXCEPT !.sliceIdx = slot])]

ForeignSlot(s, p, r) == r.sliceIdx < Len(s.destNetSlice) /\ s.destNetSlice[r.sliceIdx + 1].prefix # p

addNewRouteExport(s, p, k, r, sel) ==
  CASE ForeignSlot(s, p, r) -> s
    [] sel # k              -> Record(s, p, k, r, sel)
    [] OTHER                -> Install(Record(s, p, k, r, sel), p, r.hop)

-----------------------------------------------------------------------------
(* Adding a route *)

(* Mutant: among protocols without a configured distance the first stays.  *)
SelectFirstComer(s, p, k, r) ==
  LET cur == s.selected[p]
  IN [sel |-> IF cur = "INVALID" THEN k ELSE cur,
      del |-> IF k = cur /\ r.metric < s.routes[p][cur][1].metric THEN "FIBAndRIB" ELSE "no"]

(* The protocol to select when r of protocol k is added, and how the       *)
(* routes of the protocol selected so far are deleted.                     *)
selectBestRouteOnAdd(s, p, k, r) ==
  LET cur == s.selected[p]
      keep == [sel |-> cur, del |-> "no"]
      take == [sel |-> k, del |-> "FIBOnly"]
      best == s.routes[p][cur][1].metric
  IN CASE cur = "INVALID"                                 -> [sel |-> k, del |-> "no"]
       [] configuredDistance[k] > configuredDistance[cur] -> keep
       [] configuredDistance[k] < configuredDistance[cur] -> take
       [] k = cur -> IF r.metric < best THEN [sel |-> cur, del |-> "FIBAndRIB"] ELSE keep
       [] BuildProtocolAdminDistanceMapDB[k] < BuildProtocolAdminDistanceMapDB[cur] -> take
       [] OTHER   -> keep

SelectRouteOnAdd(s, p, k, r) ==
  LET choice  == selectBestRouteOnAdd(s, p, k, r)
      cur     == s.selected[p]
      cleared == IF choice.del = "no" THEN s
                 ELSE deleteRoutes(s, p, cur, s.routes[p][cur], cur, choice.del)
  IN addNewRouteExport(cleared, p, k, r, choice.sel)

(* ConnectedRoutes has one entry for each connected prefix.                *)
updateConnectedRoutes(s, p, op, idx) ==
  LET old == s.connected[p]
      new == CASE op = "del"        -> NoRoute
               [] old = NoRoute     -> [isValid |-> TRUE, sliceIdx |-> idx]
               [] op = "invalidate" -> [old EXCEPT !.isValid = FALSE]
               [] OTHER             -> old
  IN [s EXCEPT !.connected[p] = new]

(* A protocol's route is refused when the protocol has a cheaper one, or   *)
(* one of the same cost and next hop.                                      *)
Duplicate(s, p, k, r) ==
  LET list == s.routes[p][k]
  IN \/ r.metric > list[1].metric
     \/ r.metric = list[1].metric /\ \E i \in DOMAIN list : list[i].hop = r.hop

(* Mutant: the first route of a network claims no slot.                    *)
NewPrefixWithoutSlot(s, p, k, r) ==
  Install([s EXCEPT !.routes[p][k] = <<r>>, !.selected[p] = k], p, r.hop)

NewPrefix(s, p, k, r) ==
  Install([s EXCEPT !.routes[p][k] = <<r>>, !.selected[p] = k,
                    !.destNetSlice = Append(@, [prefix |-> p, isValid |-> TRUE])], p, r.hop)

createRoute(s, p, k, r, addType) ==
  LET refused == \/ addType = "FIBOnly" /\ ~InTable(s, p)
                 \/ addType = "FIBAndRIB" /\ IsRoutePresent(s, p, k) /\ Duplicate(s, p, k, r)
      added   == CASE ~InTable(s, p) -> NewPrefix(s, p, k, r)
                   [] ~IsRoutePresent(s, p, k) /\ addType = "FIBOnly" -> s
                   [] OTHER -> SelectRouteOnAdd(s, p, k, r)
  IN CASE refused -> s
       [] addType # "FIBOnly" /\ k = "CONNECTED" -> updateConnectedRoutes(added, p, "add", r.sliceIdx)
       [] OTHER -> added

(* Mutant: the import path records the route and installs nothing.         *)
AddImportedToRibOnly(s, p, k, r, sel) ==
  IF ForeignSlot(s, p, r) THEN s ELSE Record(s, p, k, r, sel)

(* With the import path the route goes through the policy engine, whose    *)
(* default action creates it once more, this time in the FIB only.         *)
addNewRouteImport(s, p, k, r, sel) ==
  CASE ForeignSlot(s, p, r) -> s
    [] sel # k              -> Record(s, p, k, r, sel)
    [] OTHER                -> createRoute(Record(s, p, k, r, sel), p, k, r, "FIBOnly")

addNewRouteList(s, p, k, list, sel) ==
  FoldLeft(LAMBDA t, r : addNewRouteImport(t, p, k, r, sel), s, list)

-----------------------------------------------------------------------------
(* Deleting and updating a route *)

(* The first protocol, by distance, that has a route.                      *)
SelectBestRoute(s, p) ==
  LET present == SelectSeq(s.order, LAMBDA k : IsRoutePresent(s, p, k))
  IN IF present = <<>> THEN "INVALID" ELSE Head(present)

(* When the best protocol is the one that cur names nothing is added, and  *)
(* the INVALID that SelectBestRoute returns is not stored.                 *)
Failover(s, p, cur) ==
  LET best == SelectBestRoute(s, p)
  IN IF best \in {cur, "INVALID"} THEN s ELSE addNewRouteList(s, p, best, s.routes[p][best], best)

deleteIPRoute(s, p, k, hop, delType) ==
  LET i       == findRouteWithNextHop(s.routes[p][k], hop)
      cur     == s.selected[p]
      deleted == Failover(deleteRoute(s, p, k, s.routes[p][k][i], cur, delType), p, cur)
      op      == IF delType = "FIBOnly" THEN "invalidate" ELSE "del"
  IN CASE i = 0           -> s
       [] k = "CONNECTED" -> updateConnectedRoutes(deleted, p, op, 0)
       [] OTHER           -> deleted

updateBestRoute(s, p) ==
  LET cur == s.selected[p]
  IN IF SelectBestRoute(s, p) = cur THEN s
     ELSE Failover(deleteRoutes(s, p, cur, s.routes[p][cur], cur, "FIBOnly"), p, cur)

-----------------------------------------------------------------------------
(* The requests *)

(* Every next hop of a request is given the slot that was free when the    *)
(* request was taken.                                                      *)
ProcessV4RouteCreateConfig(s, q, addType, idx) ==
  FoldLeft(LAMBDA t, h : createRoute(t, q.prefix, q.protocol,
                                     [hop |-> h, metric |-> q.metric, sliceIdx |-> idx], addType),
           s, q.hops)

ProcessV4RouteDeleteConfig(s, q, delType) ==
  FoldLeft(LAMBDA t, h : deleteIPRoute(t, q.prefix, q.protocol, h, delType), s, q.hops)

(* The first next hop names the route; a second one replaces it.  The      *)
(* record changes in place: only another selection touches the FIB.        *)
Processv4RouteUpdateConfig(s, q) ==
  LET i == findRouteWithNextHop(s.routes[q.prefix][q.protocol], q.hops[1])
      changed == [s EXCEPT !.routes[q.prefix][q.protocol][i].metric = q.metric,
                           !.routes[q.prefix][q.protocol][i].hop = Last(q.hops)]
  IN IF i = 0 THEN s ELSE updateBestRoute(changed, q.prefix)

Processv4RoutePatchUpdateConfig(s, q) ==
  CASE ~InTable(s, q.prefix) -> s
    [] q.op = "patchAdd"     -> ProcessV4RouteCreateConfig(s, q, "FIBAndRIB", Len(s.destNetSlice))
    [] OTHER                 -> ProcessV4RouteDeleteConfig(s, q, "FIBAndRIB")

Process(s, q) ==
  CASE q.op = "add"        -> ProcessV4RouteCreateConfig(s, q, "FIBAndRIB", Len(s.destNetSlice))
    [] q.op = "addFIBOnly" -> ProcessV4RouteCreateConfig(s, q, "FIBOnly", q.sliceIdx)
    [] q.op = "del"        -> ProcessV4RouteDeleteConfig(s, q, "FIBAndRIB")
    [] q.op = "delFIBOnly" -> ProcessV4RouteDeleteConfig(s, q, "FIBOnly")
    [] q.op = "update"     -> Processv4RouteUpdateConfig(s, q)
    [] OTHER               -> Processv4RoutePatchUpdateConfig(s, q)

StartRouteProcessServer ==
  /\ routeConfCh # <<>>
  /\ rib' = Process(rib, Head(routeConfCh))
  /\ routeConfCh' = Tail(routeConfCh)
  /\ UNCHANGED link

-----------------------------------------------------------------------------
(* What is put on RouteConfCh *)

Put(q) == Len(routeConfCh) < MaxQueue /\ routeConfCh' = Append(routeConfCh, q)

Room == Len(rib.destNetSlice) + Len(routeConfCh) < MaxSlice

ClientRequest(op, hops) ==
  Len(routeConfCh) =< MaxAhead /\ \E p \in Networks, k \in Clients, m \in Metrics :
    Put([op |-> op, prefix |-> p, protocol |-> k, hops |-> hops, metric |-> m, sliceIdx |-> 0])

CreateIPv4Route ==
  /\ Room
  /\ \E n \in 1..2 : \E hops \in [1..n -> Hops] : IsInjective(hops) /\ ClientRequest("add", hops)
  /\ UNCHANGED <<rib, link>>

DeleteIPv4Route == (\E h \in Hops : ClientRequest("del", <<h>>)) /\ UNCHANGED <<rib, link>>

(* New attributes for one route, or next hops to add and to remove.        *)
UpdateIPv4Route ==
  /\ \/ \E n \in UpdateHops : \E hops \in [1..n -> Hops] : ClientRequest("update", hops)
     \/ Room /\ \E h \in Hops : ClientRequest("patchAdd", <<h>>)
     \/ \E h \in Hops : ClientRequest("patchRemove", <<h>>)
  /\ UNCHANGED <<rib, link>>

IntfRequest(op, p, idx) ==
  [op |-> op, prefix |-> p, protocol |-> "CONNECTED", hops |-> <<Zero>>, metric |-> 0, sliceIdx |-> idx]

ProcessIPv4IntfCreateEvent(p) ==
  /\ link[p] = "absent" /\ Room
  /\ link' = [link EXCEPT ![p] = "up"]
  /\ Put(IntfRequest("add", p, 0))
  /\ UNCHANGED rib

ProcessIPv4IntfDeleteEvent(p) ==
  /\ link[p] # "absent"
  /\ link' = [link EXCEPT ![p] = "absent"]
  /\ Put(IntfRequest("del", p, 0))
  /\ UNCHANGED rib

ProcessIPv4IntfDownEvent(p) ==
  /\ link[p] = "up"
  /\ link' = [link EXCEPT ![p] = "down"]
  /\ Put(IntfRequest("delFIBOnly", p, 0))
  /\ UNCHANGED rib

(* The event goroutine looks at ConnectedRoutes when the event arrives,    *)
(* which may be before the request of an earlier event has been taken.     *)
Withdrawn(p) == rib.connected[p] # NoRoute /\ ~rib.connected[p].isValid

ProcessIPv4IntfUpEvent(p) ==
  /\ link[p] = "down"
  /\ link' = [link EXCEPT ![p] = "up"]
  /\ IF Withdrawn(p)
     THEN /\ rib' = [rib EXCEPT !.connected[p].isValid = TRUE]
          /\ Put(IntfRequest("addFIBOnly", p, rib.connected[p].sliceIdx))
     ELSE UNCHANGED <<rib, routeConfCh>>

-----------------------------------------------------------------------------
Init ==
  /\ routeConfCh = <<>>
  /\ link = [p \in Connected |-> "absent"]
  /\ \E order \in BuildProtocolAdminDistanceSlice :
       rib = [routes |-> [p \in Networks |-> [k \in Protocols |-> <<>>]],
              selected |-> [p \in Networks |-> "INVALID"],
              destNetSlice |-> <<>>, fib |-> [p \in Networks |-> {}],
              connected |-> [p \in Connected |-> NoRoute], order |-> order]

Next ==
  \/ StartRouteProcessServer
  \/ CreateIPv4Route \/ DeleteIPv4Route \/ UpdateIPv4Route
  \/ \E p \in Connected : \/ ProcessIPv4IntfCreateEvent(p) \/ ProcessIPv4IntfDeleteEvent(p)
                          \/ ProcessIPv4IntfDownEvent(p) \/ ProcessIPv4IntfUpEvent(p)

Spec == Init /\ [][Next]_vars
-----------------------------------------------------------------------------
(* Properties *)

(* Every part of the state has its type.                                   *)
TypeOK ==
  /\ rib.routes \in [Networks -> [Protocols -> Seq(RouteInfoRecord)]]
  /\ rib.selected \in [Networks -> Protocols \cup {"INVALID"}]
  /\ rib.destNetSlice \in Seq([prefix: Networks, isValid: BOOLEAN])
  /\ rib.fib \in [Networks -> SUBSET (Hops \cup {Zero})]
  /\ \A p \in Connected : rib.connected[p] = NoRoute \/ rib.connected[p] \in ConnectedRoute
  /\ routeConfCh \in Seq(Request)
  /\ link \in [Connected -> {"absent", "up", "down"}]

NextHops(list) == {list[i].hop : i \in DOMAIN list}

(* Once every request has been taken, asicd holds for each network exactly *)
(* the next hops of the selected protocol, and nothing for a network that  *)
(* is not in the table: no add, delete, cost change, failover or link      *)
(* event leaves a stale entry behind or forgets one (addNewRoute,          *)
(* deleteRoute, updateBestRoute).  The connected route of an interface     *)
(* that is down is not installed; for one that is up see LinkUpInstalled.  *)
FibMatchesSelected ==
  routeConfCh = <<>> => \A p \in Networks :
    CASE ~InTable(rib, p) -> rib.fib[p] = {}
      [] rib.selected[p] # "CONNECTED" -> rib.fib[p] = NextHops(rib.routes[p][rib.selected[p]])
      [] OTHER -> rib.fib[p] \subseteq IF link[p] = "up" THEN {Zero} ELSE {}

(* The selected protocol of a network has a route to it, and no protocol   *)
(* with a smaller administrative distance has one: the rule of             *)
(* selectBestRouteOnAdd and that of SelectBestRoute, which decide on       *)
(* different events and from different tables, agree.                      *)
BestSelected ==
  \A p \in Networks : InTable(rib, p) =>
    /\ rib.selected[p] # "INVALID" /\ IsRoutePresent(rib, p, rib.selected[p])
    /\ \A k \in Protocols : IsRoutePresent(rib, p, k) => Distance(rib.selected[p]) =< Distance(k)

(* The state has its type; and the slot of every route, and the one        *)
(* remembered for every connected network, exists and belongs to its       *)
(* network: PolicyEngineFilter indexes destNetSlice with it unchecked, and *)
(* addNewRoute gives up without a word when the slot is another network's. *)
SlotsOwned ==
  LET Owned(idx, p) == idx < Len(rib.destNetSlice) /\ rib.destNetSlice[idx + 1].prefix = p
  IN /\ TypeOK
     /\ \A p \in Networks, k \in Protocols :
          \A i \in DOMAIN rib.routes[p][k] : Owned(rib.routes[p][k][i].sliceIdx, p)
     /\ \A p \in Connected : rib.connected[p] # NoRoute => Owned(rib.connected[p].sliceIdx, p)

(* Once every request has been taken, the connected route of an interface  *)
(* that is up is installed when it is the selected one: the comment of     *)
(* createRoute says that it is created again when a link that was down     *)
(* comes up.                                                               *)
LinkUpInstalled ==
  routeConfCh = <<>> =>
    \A p \in Connected : (link[p] = "up" /\ rib.selected[p] = "CONNECTED") => Zero \in rib.fib[p]
=============================================================================
