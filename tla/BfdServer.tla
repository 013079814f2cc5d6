------------------------------ MODULE BfdServer ------------------------------
(***************************************************************************)
(* The BFD session manager (bfd/server): the main goroutine passes session *)
(* requests to the session handler and creates the sessions that waited    *)
(* for a route itself; the handler creates and deletes sessions; a third   *)
(* goroutine starts the two goroutines of each new session, a fourth tries *)
(* clients that failed again.  None of them locks the tables.              *)
(* A session itself is the module BfdSession; sessions over LAG members    *)
(* are left out.                                                           *)
(***************************************************************************)
EXTENDS Integers, Sequences, FiniteSets

CONSTANTS BfdPeers,       \* destination addresses
          BfdOwners,      \* protocols that register
          BfdParams,      \* names of parameter sets, besides the default
          BfdMaxSessions, \* MAX_NUM_SESSIONS
          MaxBfdEvents    \* bound on requests, route changes and failures

VARIABLES bfdsSess,     \* bfdGlobal.Sessions
          bfdsByIp,     \* bfdGlobal.SessionsByIp; 0: absent
          bfdsPending,  \* tobeCreatedSessions: one request per address
          bfdsParams,   \* NumSessions of each parameter set; NoParam: there is none
          bfdsNew,      \* CreatedSessionCh
          bfdsRetry,    \* InactiveSessionsIdSlice, with FailedSessionClientCh
          bfdsMain,     \* what the main goroutine is at
          bfdsMgr,      \* what the session handler is at
          bfdsWant,     \* the owners that have asked for a session and not given it up
          bfdsRoutes,   \* external: reachable addresses
          bfdsDead,     \* why the process is dead, or "none"
          bfdsEvents    \* [left, past]
bfdsVars == <<bfdsSess, bfdsByIp, bfdsPending, bfdsParams, bfdsNew, bfdsRetry, bfdsMain, bfdsMgr, bfdsWant, bfdsRoutes,
              bfdsDead, bfdsEvents>>
bfdsTables == <<bfdsSess, bfdsByIp, bfdsPending, bfdsParams, bfdsNew>>

Ids == 1..(BfdMaxSessions - 1)
Default == "default"
AllParams == BfdParams \cup {Default}
NoSess == [ip |-> "none"]
NoReq == [op |-> "none"]
NoParam == -1000
Req == [op: {"create", "delete", "up"}, ip: BfdPeers, owner: BfdOwners, param: AllParams]
(* run: the goroutines are running and the channels exist                  *)
Sess == [ip: BfdPeers, owners: SUBSET BfdOwners, param: AllParams, run: BOOLEAN, client: {"none", "starting", "active", "failed"}]
AtRest == [at |-> "idle", req |-> NoReq, todo |-> {}]
Stuck == [at |-> "stuck", req |-> NoReq, todo |-> {}]
Live(id) == bfdsSess[id] # NoSess
NumSessions == Cardinality({id \in Ids : Live(id)})

BfdsInit ==
  /\ bfdsSess = [id \in Ids |-> NoSess] /\ bfdsByIp = [ip \in BfdPeers |-> 0]
  /\ bfdsPending = [ip \in BfdPeers |-> NoReq]
  /\ bfdsParams = [n \in AllParams |-> IF n = Default THEN 0 ELSE NoParam]
  /\ bfdsNew = <<>> /\ bfdsRetry = {}
  /\ bfdsMain = AtRest /\ bfdsMgr = AtRest
  /\ bfdsWant = [ip \in BfdPeers |-> {}]
  /\ bfdsRoutes \in {{}, BfdPeers}
  /\ bfdsDead = "none"
  /\ bfdsEvents = [left |-> MaxBfdEvents, past |-> {}]

Note(what) == bfdsEvents' = [bfdsEvents EXCEPT !.past = @ \cup what]
BfdsEvent(what) == bfdsEvents.left > 0 /\ bfdsEvents' = [left |-> bfdsEvents.left - 1, past |-> bfdsEvents.past \cup what]
Alive == bfdsDead = "none"

-----------------------------------------------------------------------------
(* The main goroutine *)

(* A session request (SessionConfigCh) is passed on when the handler is    *)
(* free: until then the main goroutine waits.                              *)
ProcessSessionConfig(r) ==
  /\ Alive /\ bfdsMain.at = "idle" /\ BfdsEvent({})
  /\ bfdsMain' = [AtRest EXCEPT !.at = "send", !.req = r]
  /\ bfdsWant' = CASE r.op = "create" -> [bfdsWant EXCEPT ![r.ip] = @ \cup {r.owner}]
                   [] r.op = "delete" -> [bfdsWant EXCEPT ![r.ip] = @ \ {r.owner}]
                   [] OTHER -> bfdsWant
  /\ UNCHANGED <<bfdsTables, bfdsRetry, bfdsMgr, bfdsRoutes, bfdsDead>>
HandOver ==
  /\ Alive /\ bfdsMain.at = "send" /\ bfdsMgr.at = "idle"
  /\ bfdsMgr' = [AtRest EXCEPT !.at = "take", !.req = bfdsMain.req] /\ bfdsMain' = AtRest
  /\ UNCHANGED <<bfdsTables, bfdsRetry, bfdsWant, bfdsRoutes, bfdsDead, bfdsEvents>>

(* A parameter set goes although sessions use it: they take the default    *)
(* values but keep its name.                                               *)
ProcessSessionParam(n, create) ==
  /\ Alive /\ bfdsMain.at = "idle" /\ n # Default
  /\ (bfdsParams[n] = NoParam) = create
  /\ BfdsEvent(IF create THEN {} ELSE {"paramDeleted"})
  /\ bfdsParams' = [bfdsParams EXCEPT ![n] = IF create THEN 0 ELSE NoParam]
  /\ UNCHANGED <<bfdsSess, bfdsByIp, bfdsPending, bfdsNew, bfdsRetry, bfdsMain, bfdsMgr, bfdsWant, bfdsRoutes, bfdsDead>>

(* ribd reports a route: the main goroutine tries every waiting request.   *)
HandleNextHopChange ==
  /\ Alive /\ bfdsMain.at = "idle" /\ bfdsRoutes = {}
  /\ BfdsEvent({})
  /\ bfdsRoutes' = BfdPeers
  /\ bfdsMain' = LET waiting == {ip \in BfdPeers : bfdsPending[ip] # NoReq} IN
                 IF waiting = {} THEN AtRest ELSE [AtRest EXCEPT !.at = "next", !.todo = waiting]
  /\ UNCHANGED <<bfdsTables, bfdsRetry, bfdsMgr, bfdsWant, bfdsDead>>
RouteLost ==
  /\ Alive /\ bfdsRoutes # {} /\ BfdsEvent({})
  /\ bfdsRoutes' = {}
  /\ UNCHANGED <<bfdsTables, bfdsRetry, bfdsMain, bfdsMgr, bfdsWant, bfdsDead>>

-----------------------------------------------------------------------------
(* Sessions *)

FindBfdSession(ip) == {id \in Ids : Live(id) /\ bfdsSess[id].ip = ip}
Register(id, owner) == [bfdsSess EXCEPT ![id].owners = @ \cup {owner}]
ParamUsed(n) == IF bfdsParams[n] = NoParam THEN Default ELSE n
(* A request that waits; one that is there already is kept. *)
Waits(r) == IF bfdsPending[r.ip] = NoReq THEN [bfdsPending EXCEPT ![r.ip] = r] ELSE bfdsPending

CountsSession(r) == [bfdsParams EXCEPT ![ParamUsed(r.param)] = @ + 1]
NewNormalBfdSession(id, r) ==
  /\ bfdsSess' = [bfdsSess EXCEPT ![id] = [ip |-> r.ip, owners |-> {r.owner}, param |-> ParamUsed(r.param), run |-> FALSE, client |-> "none"]]
  /\ bfdsByIp' = [bfdsByIp EXCEPT ![r.ip] = id]
  /\ bfdsParams' = CountsSession(r)
  /\ bfdsNew' = Append(bfdsNew, id)

(* The first part of CreateBfdSession: is there a session to register with? *)
(* If not, ribd is asked for the interface (NewBfdSession).                *)
(* The second part, when ribd has answered: a session or a request that    *)
(* waits.  GetNewSessionId draws until it finds a free number; as 0 is     *)
(* never used there is none left when the last but one is taken.           *)
FinishCreate(r, done) ==
  IF r.ip \notin bfdsRoutes
  THEN /\ bfdsPending' = Waits(r)
       /\ Note(IF bfdsPending[r.ip] # NoReq /\ bfdsPending[r.ip] # r THEN {"secondWaits"} ELSE {})
       /\ UNCHANGED <<bfdsSess, bfdsByIp, bfdsParams, bfdsNew>>
  ELSE /\ \E id \in {i \in Ids : ~Live(i)} : NewNormalBfdSession(id, r)
       /\ Note(IF FindBfdSession(r.ip) # {} THEN {"twice"} ELSE {})
       /\ bfdsPending' = IF done THEN [bfdsPending EXCEPT ![r.ip] = NoReq] ELSE bfdsPending
Exhausted(r) == r.ip \in bfdsRoutes /\ NumSessions = Cardinality(Ids) /\ NumSessions < BfdMaxSessions

(* The session handler *)
MgrCreate ==
  /\ Alive /\ bfdsMgr.at = "take" /\ bfdsMgr.req.op = "create"
  /\ LET r == bfdsMgr.req  found == FindBfdSession(r.ip) IN
       \/ \E id \in found : bfdsSess' = Register(id, r.owner) /\ bfdsMgr' = AtRest
       \/ found = {} /\ bfdsMgr' = [bfdsMgr EXCEPT !.at = "ask"] /\ UNCHANGED bfdsSess
  /\ UNCHANGED <<bfdsByIp, bfdsPending, bfdsParams, bfdsNew, bfdsRetry, bfdsMain, bfdsWant, bfdsRoutes, bfdsDead, bfdsEvents>>
MgrAnswered ==
  /\ Alive /\ bfdsMgr.at = "ask"
  /\ IF Exhausted(bfdsMgr.req) THEN bfdsMgr' = Stuck /\ UNCHANGED <<bfdsTables, bfdsEvents>>
     ELSE FinishCreate(bfdsMgr.req, FALSE) /\ bfdsMgr' = AtRest
  /\ UNCHANGED <<bfdsRetry, bfdsMain, bfdsWant, bfdsRoutes, bfdsDead>>

(* The main goroutine, with one waiting request after the other *)
MainCreate ==
  /\ Alive /\ bfdsMain.at = "next" /\ bfdsMain.todo # {}
  /\ \E ip \in bfdsMain.todo :
       LET r == bfdsPending[ip]  found == FindBfdSession(ip)  rest == [bfdsMain EXCEPT !.todo = @ \ {ip}] IN
       \/ \E id \in found : /\ bfdsSess' = Register(id, r.owner)
                            /\ bfdsPending' = [bfdsPending EXCEPT ![ip] = NoReq] /\ bfdsMain' = rest
       \/ found = {} /\ bfdsMain' = [rest EXCEPT !.at = "ask", !.req = r] /\ UNCHANGED <<bfdsSess, bfdsPending>>
  /\ UNCHANGED <<bfdsByIp, bfdsParams, bfdsNew, bfdsRetry, bfdsMgr, bfdsWant, bfdsRoutes, bfdsDead, bfdsEvents>>
MainAnswered ==
  /\ Alive /\ bfdsMain.at = "ask"
  /\ IF Exhausted(bfdsMain.req) THEN bfdsMain' = Stuck /\ UNCHANGED <<bfdsTables, bfdsEvents>>
     ELSE FinishCreate(bfdsMain.req, TRUE) /\ bfdsMain' = [bfdsMain EXCEPT !.at = "next", !.req = NoReq]
  /\ UNCHANGED <<bfdsRetry, bfdsMgr, bfdsWant, bfdsRoutes, bfdsDead>>
MainDone ==
  /\ Alive /\ bfdsMain.at = "next" /\ bfdsMain.todo = {}
  /\ bfdsMain' = AtRest
  /\ UNCHANGED <<bfdsTables, bfdsRetry, bfdsMgr, bfdsWant, bfdsRoutes, bfdsDead, bfdsEvents>>

(* An owner gives a session up.  With the last one the goroutines are      *)
(* stopped: on channels that do not exist before the session is started    *)
(* the handler waits for ever; a client that is only starting is not       *)
(* stopped; a parameter set that is gone is dereferenced.                  *)
(* Fault: an owner that gives up takes the others' registration along. *)
LeavesNobody(s, owner) == {}
Remaining(s, owner) == s.owners \ {owner}
ForgetIp(ip) == [bfdsByIp EXCEPT ![ip] = 0]
SessionDeleteHandler(id, owner) ==
  LET s == bfdsSess[id]  left == Remaining(s, owner) IN
  \/ /\ left # {}
     /\ bfdsSess' = [bfdsSess EXCEPT ![id].owners = left] /\ bfdsMgr' = AtRest
     /\ UNCHANGED <<bfdsByIp, bfdsParams, bfdsDead>>
  \/ /\ left = {} /\ ~s.run
     /\ bfdsSess' = [bfdsSess EXCEPT ![id].owners = left] /\ bfdsMgr' = Stuck
     /\ UNCHANGED <<bfdsByIp, bfdsParams, bfdsDead>>
  \/ /\ left = {} /\ s.run /\ bfdsParams[s.param] = NoParam
     /\ bfdsDead' = "param" /\ UNCHANGED <<bfdsSess, bfdsByIp, bfdsParams, bfdsMgr>>
  \/ /\ left = {} /\ s.run /\ bfdsParams[s.param] # NoParam
     /\ bfdsSess' = [bfdsSess EXCEPT ![id] = NoSess] /\ bfdsByIp' = ForgetIp(s.ip)
     /\ bfdsParams' = [bfdsParams EXCEPT ![s.param] = @ - 1]
     /\ bfdsMgr' = AtRest /\ UNCHANGED bfdsDead
(* A request of the same owner may wait for a route: it is not looked at.  *)
StillWaits(r) == bfdsPending[r.ip] # NoReq /\ bfdsPending[r.ip].owner = r.owner
MgrDelete ==
  /\ Alive /\ bfdsMgr.at = "take" /\ bfdsMgr.req.op = "delete"
  /\ Note(IF StillWaits(bfdsMgr.req) THEN {"waitingDeleted"} ELSE {})
  /\ LET r == bfdsMgr.req  found == FindBfdSession(r.ip) IN
       \/ \E id \in found : SessionDeleteHandler(id, r.owner)
       \/ found = {} /\ bfdsMgr' = AtRest /\ UNCHANGED <<bfdsSess, bfdsByIp, bfdsParams, bfdsDead>>
  /\ UNCHANGED <<bfdsPending, bfdsNew, bfdsRetry, bfdsMain, bfdsWant, bfdsRoutes>>
(* AdminUp resets timers that only the client makes. *)
MgrAdminUp ==
  /\ Alive /\ bfdsMgr.at = "take" /\ bfdsMgr.req.op = "up"
  /\ bfdsMgr' = AtRest
  /\ bfdsDead' = IF \E id \in FindBfdSession(bfdsMgr.req.ip) : bfdsSess[id].client # "active" THEN "timer" ELSE "none"
  /\ UNCHANGED <<bfdsTables, bfdsRetry, bfdsMain, bfdsWant, bfdsRoutes, bfdsEvents>>

-----------------------------------------------------------------------------
(* The goroutines that start sessions and their clients *)

StartBfdSessionRxTx ==
  /\ Alive /\ bfdsNew # <<>>
  /\ bfdsSess' = [id \in Ids |-> IF id = Head(bfdsNew) /\ Live(id) THEN [bfdsSess[id] EXCEPT !.run = TRUE, !.client = "starting"] ELSE bfdsSess[id]]
  /\ bfdsNew' = Tail(bfdsNew)
  /\ UNCHANGED <<bfdsByIp, bfdsPending, bfdsParams, bfdsRetry, bfdsMain, bfdsMgr, bfdsWant, bfdsRoutes, bfdsDead, bfdsEvents>>
(* The client has its socket, or is announced on FailedSessionClientCh. *)
StartSessionClient(id, ok) ==
  /\ Alive /\ Live(id) /\ bfdsSess[id].client = "starting"
  /\ IF ok THEN UNCHANGED bfdsEvents ELSE BfdsEvent({})
  /\ bfdsSess' = [bfdsSess EXCEPT ![id].client = IF ok THEN "active" ELSE "failed"]
  /\ bfdsRetry' = IF ok THEN bfdsRetry ELSE bfdsRetry \cup {id}
  /\ UNCHANGED <<bfdsByIp, bfdsPending, bfdsParams, bfdsNew, bfdsMain, bfdsMgr, bfdsWant, bfdsRoutes, bfdsDead>>
Restarted(id) == [bfdsSess[id] EXCEPT !.client = IF @ = "failed" THEN "starting" ELSE @]
StartSessionRetryHandler(id) ==
  /\ Alive /\ id \in bfdsRetry /\ Live(id)
  /\ bfdsSess' = [bfdsSess EXCEPT ![id] = Restarted(id)] /\ bfdsRetry' = bfdsRetry \ {id}
  /\ UNCHANGED <<bfdsByIp, bfdsPending, bfdsParams, bfdsNew, bfdsMain, bfdsMgr, bfdsWant, bfdsRoutes, bfdsDead, bfdsEvents>>

BfdsNext ==
  \/ \E r \in Req : /\ r.op = "create" \/ r.param = Default
                    /\ r.op = "up" => r.owner \in bfdsWant[r.ip]
                    /\ ProcessSessionConfig(r)
  \/ HandOver \/ HandleNextHopChange \/ RouteLost
  \/ \E n \in BfdParams, create \in BOOLEAN : ProcessSessionParam(n, create)
  \/ MgrCreate \/ MgrAnswered \/ MgrDelete \/ MgrAdminUp
  \/ MainCreate \/ MainAnswered \/ MainDone
  \/ StartBfdSessionRxTx
  \/ \E id \in Ids : StartSessionRetryHandler(id) \/ \E ok \in BOOLEAN : StartSessionClient(id, ok)
BfdsSpec == BfdsInit /\ [][BfdsNext]_bfdsVars

(* What the theorems about the session manager suppose of the constants.   *)
BfdsConstants ==
  BfdMaxSessions \in Nat /\ MaxBfdEvents \in Nat

-----------------------------------------------------------------------------
BfdsTypeOK ==
  /\ bfdsSess \in [Ids -> {NoSess} \cup Sess] /\ bfdsByIp \in [BfdPeers -> Ids \cup {0}]
  /\ bfdsPending \in [BfdPeers -> {NoReq} \cup Req] /\ bfdsParams \in [AllParams -> Int]
  /\ bfdsWant \in [BfdPeers -> SUBSET BfdOwners] /\ bfdsDead \in {"none", "param", "timer"}

(* There is one session per address, and SessionsByIp leads to it, unless  *)
(* the handler and the main goroutine were both creating one.              *)
OneSessionPerPeer ==
  "twice" \notin bfdsEvents.past =>
    /\ \A a, b \in Ids : Live(a) /\ Live(b) /\ bfdsSess[a].ip = bfdsSess[b].ip => a = b
    /\ \A ip \in BfdPeers : FindBfdSession(ip) = IF bfdsByIp[ip] = 0 THEN {} ELSE {bfdsByIp[ip]}
(* NumSessions of a parameter set is the number of sessions with its name, *)
(* unless a set was deleted while in use.                                  *)
ParamCountsSessions ==
  "paramDeleted" \notin bfdsEvents.past =>
    \A n \in AllParams : bfdsParams[n] # NoParam => bfdsParams[n] = Cardinality({id \in Ids : Live(id) /\ bfdsSess[id].param = n})
(* An owner that has asked for a session has it, or its request is under   *)
(* way or waits for a route: unless a second request waited for the same   *)
(* address (CreateBfdSession keeps the first only), or the handler waits   *)
(* for ever, for a free number or a session that was not started.          *)
InHand(ip, o) ==
  \/ \E g \in {bfdsMain, bfdsMgr} : g.req # NoReq /\ g.req.op \in {"create", "delete"} /\ g.req.ip = ip /\ g.req.owner = o
  \/ bfdsPending[ip] # NoReq /\ bfdsPending[ip].owner = o
OwnersAreServed ==
  "secondWaits" \notin bfdsEvents.past /\ bfdsMgr # Stuck =>
    \A ip \in BfdPeers, o \in BfdOwners :
      o \in bfdsWant[ip] /\ ~InHand(ip, o) => \E id \in FindBfdSession(ip) : o \in bfdsSess[id].owners
(* A session has only owners that want it, or that have given it up and    *)
(* the handler does not know yet, unless a request was withdrawn while it  *)
(* waited (DeleteBfdSession does not look at those) or a peer has two      *)
(* sessions.                                                               *)
NobodyUnasked ==
  bfdsEvents.past \cap {"waitingDeleted", "twice"} = {} =>
    \A id \in Ids : Live(id) => \A o \in bfdsSess[id].owners : o \in bfdsWant[bfdsSess[id].ip] \/ InHand(bfdsSess[id].ip, o)
(* The parts together: one session per peer, counted by its parameter     *)
(* set, for every owner that asked and for nobody else                     *)
(* (bfdSessionServer.go).                                                  *)
BfdServerSafe == BfdsTypeOK /\ OneSessionPerPeer /\ ParamCountsSessions /\ OwnersAreServed /\ NobodyUnasked
=============================================================================
