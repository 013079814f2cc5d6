--------------------------- MODULE BfdServerProofs ---------------------------
(***************************************************************************)
(* What the session manager promises, proved for any number of peers,      *)
(* owners, parameter sets and sessions.                                    *)
(***************************************************************************)
EXTENDS BfdServer, FiniteSetTheorems, TLAPS

(* The notes the parts of BfdServerSafe make exceptions for.               *)
Notes == {"paramDeleted", "secondWaits", "twice", "waitingDeleted"}
Goroutine == [at : {"idle", "send", "take", "next", "ask", "stuck"}, req : {NoReq} \cup Req, todo : SUBSET BfdPeers]
MoreTypes ==
  /\ bfdsNew \in Seq(Ids) /\ bfdsRetry \in SUBSET Ids /\ bfdsRoutes \in SUBSET BfdPeers
  /\ bfdsMain \in Goroutine /\ bfdsMgr \in Goroutine
  /\ bfdsEvents \in [left : Nat, past : SUBSET Notes]

(* A goroutine has a request in hand while it passes it on, takes it or    *)
(* waits for ribd, and only the main goroutine has a list to work through. *)
Busy(g) == g.at \in {"send", "take", "ask"}
GoroutinesSane ==
  /\ \A g \in {bfdsMain, bfdsMgr} : IF Busy(g) THEN g.req \in Req ELSE g.req = NoReq
  /\ bfdsMain.at \in {"idle", "send", "next", "ask", "stuck"}
  /\ bfdsMgr.at \in {"idle", "take", "ask", "stuck"}
  /\ bfdsMain.at \in {"idle", "send", "stuck"} => bfdsMain.todo = {}
  /\ bfdsMgr.todo = {}
  /\ bfdsMgr.at = "ask" => bfdsMgr.req.op = "create"

(* A request waits under its own address; the main goroutine, which alone  *)
(* takes one away, works through requests that wait.                       *)
PendingSane ==
  /\ \A ip \in BfdPeers : bfdsPending[ip] # NoReq => bfdsPending[ip].ip = ip /\ bfdsPending[ip].op = "create"
  /\ \A ip \in bfdsMain.todo : bfdsPending[ip] # NoReq
  /\ bfdsMain.at = "ask" => /\ bfdsPending[bfdsMain.req.ip] = bfdsMain.req
                            /\ bfdsMain.req.ip \notin bfdsMain.todo

(* No session has the name of a parameter set that is not there.           *)
NamesExist ==
  "paramDeleted" \notin bfdsEvents.past =>
    /\ bfdsParams[Default] # NoParam
    /\ \A id \in Ids : Live(id) => bfdsParams[bfdsSess[id].param] # NoParam

(* Who is on the way with what: g holds the request op of o for ip.        *)
Holds(g, at, op, ip, o) == g.at = at /\ g.req.op = op /\ g.req.ip = ip /\ g.req.owner = o
Sends(op, ip, o) == Holds(bfdsMain, "send", op, ip, o)
Takes(op, ip, o) == Holds(bfdsMgr, "take", op, ip, o)

(* Requests and wishes: the request on its way out is the owner's last     *)
(* word; the one the handler has may only be overtaken by that.            *)
RequestsAreWishes ==
  \A ip \in BfdPeers, o \in BfdOwners :
    /\ Sends("create", ip, o) => o \in bfdsWant[ip]
    /\ Sends("delete", ip, o) => o \notin bfdsWant[ip]
    /\ Takes("delete", ip, o) /\ o \in bfdsWant[ip] => Sends("create", ip, o)
    /\ Takes("create", ip, o) \/ Holds(bfdsMgr, "ask", "create", ip, o) => o \in bfdsWant[ip] \/ Sends("delete", ip, o)
(* One that waits is wanted, or the request that gives it up has not been  *)
(* worked on.                                                              *)
PendingIsWanted ==
  "waitingDeleted" \notin bfdsEvents.past =>
    \A ip \in BfdPeers :
      bfdsPending[ip] # NoReq =>
        LET o == bfdsPending[ip].owner IN o \in bfdsWant[ip] \/ Sends("delete", ip, o) \/ Takes("delete", ip, o)

IInv == /\ BfdServerSafe
        /\ MoreTypes /\ GoroutinesSane /\ PendingSane /\ NamesExist /\ RequestsAreWishes /\ PendingIsWanted

-----------------------------------------------------------------------------
(* The records that stand for "none" are none of the others.               *)
LEMMA NoneIsNone == NoReq \notin Req /\ NoSess \notin Sess /\ NoReq.op = "none"
<1>1. NoReq.op = "none"
  BY DEF NoReq
<1>2. \A r \in Req : r.op # "none"
  BY DEF Req
<1>3. \A s \in Sess : DOMAIN s = {"ip", "owners", "param", "run", "client"}
  BY DEF Sess
<1>4. DOMAIN NoSess = {"ip"}
  BY DEF NoSess
<1>5. NoSess \notin Sess
  <2>1. "run" \notin DOMAIN NoSess
    BY <1>4
  <2> QED  BY <1>3, <2>1
<1> QED  BY <1>1, <1>2, <1>5

(* The two states of a goroutine without work are states.                  *)
LEMMA RestIsGoroutine ==
  /\ AtRest \in Goroutine /\ AtRest.at = "idle" /\ AtRest.req = NoReq /\ AtRest.todo = {}
  /\ Stuck \in Goroutine /\ Stuck.at = "stuck" /\ Stuck.req = NoReq /\ Stuck.todo = {}
BY DEF AtRest, Stuck, Goroutine

LEMMA TailTyped ==
  ASSUME NEW S, NEW q \in Seq(S), q # <<>>
  PROVE  Head(q) \in S /\ Tail(q) \in Seq(S)
OBVIOUS

(* A session that is there is a record with all fields.                    *)
LEMMA LiveIsSess ==
  ASSUME BfdsTypeOK, NEW id \in Ids, Live(id)
  PROVE  bfdsSess[id] \in Sess
BY DEF BfdsTypeOK, Live

(* What a session that is created is.                                      *)
LEMMA NewSessionTyped ==
  ASSUME BfdsTypeOK, NEW id \in Ids, NEW r \in Req, NewNormalBfdSession(id, r), Default \in AllParams
  PROVE  /\ bfdsSess' \in [Ids -> {NoSess} \cup Sess]
         /\ bfdsByIp' \in [BfdPeers -> Ids \cup {0}]
         /\ bfdsParams' \in [AllParams -> Int]
         /\ bfdsNew \in Seq(Ids) => bfdsNew' \in Seq(Ids)
<1> DEFINE s == [ip |-> r.ip, owners |-> {r.owner}, param |-> ParamUsed(r.param), run |-> FALSE, client |-> "none"]
<1>1. ParamUsed(r.param) \in AllParams
  BY DEF ParamUsed, Req
<1>2. s \in Sess
  BY <1>1 DEF Sess, Req
<1>3. bfdsSess' = [bfdsSess EXCEPT ![id] = s]
  BY DEF NewNormalBfdSession
<1> HIDE DEF s
<1>4. bfdsSess' \in [Ids -> {NoSess} \cup Sess]
  BY <1>2, <1>3 DEF BfdsTypeOK
<1>5. bfdsByIp' \in [BfdPeers -> Ids \cup {0}]
  BY DEF NewNormalBfdSession, BfdsTypeOK, Req
<1>6. bfdsParams' \in [AllParams -> Int]
  BY <1>1 DEF NewNormalBfdSession, BfdsTypeOK, CountsSession
<1>7. bfdsNew \in Seq(Ids) => bfdsNew' \in Seq(Ids)
  BY DEF NewNormalBfdSession
<1> QED  BY <1>4, <1>5, <1>6, <1>7

-----------------------------------------------------------------------------
(* Types *)

LEMMA NoteTyped ==
  ASSUME MoreTypes, NEW what \in SUBSET Notes, Note(what)
  PROVE  /\ bfdsEvents' \in [left : Nat, past : SUBSET Notes]
         /\ bfdsEvents'.past = bfdsEvents.past \cup what
BY DEF MoreTypes, Note

LEMMA EventTyped ==
  ASSUME MoreTypes, NEW what \in SUBSET Notes, BfdsEvent(what)
  PROVE  /\ bfdsEvents' \in [left : Nat, past : SUBSET Notes]
         /\ bfdsEvents'.past = bfdsEvents.past \cup what
BY DEF MoreTypes, BfdsEvent

LEMMA FinishTyped ==
  ASSUME BfdsTypeOK, MoreTypes, NEW r \in Req, NEW done \in BOOLEAN, FinishCreate(r, done)
  PROVE  /\ bfdsSess' \in [Ids -> {NoSess} \cup Sess]
         /\ bfdsByIp' \in [BfdPeers -> Ids \cup {0}]
         /\ bfdsParams' \in [AllParams -> Int]
         /\ bfdsNew' \in Seq(Ids)
         /\ bfdsPending' \in [BfdPeers -> {NoReq} \cup Req]
         /\ bfdsEvents' \in [left : Nat, past : SUBSET Notes]
         /\ bfdsEvents.past \subseteq bfdsEvents'.past
<1>0. Default \in AllParams /\ r.ip \in BfdPeers
  BY DEF AllParams, Req
<1>1. CASE r.ip \notin bfdsRoutes
  <2>1. bfdsPending' \in [BfdPeers -> {NoReq} \cup Req]
    BY <1>1, <1>0 DEF FinishCreate, Waits, BfdsTypeOK
  <2>2. PICK what \in SUBSET Notes : Note(what)
    <3>1. CASE bfdsPending[r.ip] # NoReq /\ bfdsPending[r.ip] # r
      BY <1>1, <3>1 DEF FinishCreate, Notes
    <3>2. CASE ~(bfdsPending[r.ip] # NoReq /\ bfdsPending[r.ip] # r)
      BY <1>1, <3>2 DEF FinishCreate
    <3> QED  BY <3>1, <3>2
  <2>3. UNCHANGED <<bfdsSess, bfdsByIp, bfdsParams, bfdsNew>>
    BY <1>1 DEF FinishCreate
  <2> QED  BY <2>1, <2>2, <2>3, NoteTyped DEF BfdsTypeOK, MoreTypes
<1>2. CASE r.ip \in bfdsRoutes
  <2>1. PICK id \in {i \in Ids : ~Live(i)} : NewNormalBfdSession(id, r)
    BY <1>2 DEF FinishCreate
  <2>2. bfdsPending' \in [BfdPeers -> {NoReq} \cup Req]
    BY <1>2, <1>0 DEF FinishCreate, BfdsTypeOK
  <2>3. PICK what \in SUBSET Notes : Note(what)
    <3>1. CASE FindBfdSession(r.ip) # {}
      BY <1>2, <3>1 DEF FinishCreate, Notes
    <3>2. CASE FindBfdSession(r.ip) = {}
      BY <1>2, <3>2 DEF FinishCreate
    <3> QED  BY <3>1, <3>2
  <2> QED  BY <2>1, <2>2, <2>3, NoteTyped, NewSessionTyped, <1>0 DEF MoreTypes
<1> QED  BY <1>1, <1>2

Typed == BfdsTypeOK /\ MoreTypes /\ GoroutinesSane

LEMMA TypesInit == ASSUME BfdsConstants, BfdsInit PROVE Typed
<1>1. BfdsTypeOK
  <2>1. bfdsParams \in [AllParams -> Int]
    BY DEF BfdsInit, NoParam
  <2> QED  BY <2>1 DEF BfdsInit, BfdsTypeOK
<1>2. MoreTypes
  BY RestIsGoroutine DEF BfdsInit, MoreTypes, BfdsConstants, Notes
<1>3. GoroutinesSane
  BY RestIsGoroutine DEF BfdsInit, GoroutinesSane, Busy
<1> QED  BY <1>1, <1>2, <1>3 DEF Typed

(* The moves of the two goroutines. *)
LEMMA GoroutineMoves ==
  ASSUME NEW r \in {NoReq} \cup Req, NEW at \in {"send", "take", "ask", "next"}
  PROVE  LET g == [AtRest EXCEPT !.at = at, !.req = r] IN
         g \in Goroutine /\ g.at = at /\ g.req = r /\ g.todo = {}
BY DEF AtRest, Goroutine

LEMMA TypesStep == ASSUME Typed, PendingSane, BfdsNext PROVE Typed'
<1> USE DEF Typed
<1>d. Default \in AllParams
  BY DEF AllParams
<1>1. ASSUME NEW r \in Req, ProcessSessionConfig(r) PROVE Typed'
  <2>1. bfdsEvents' \in [left : Nat, past : SUBSET Notes]
    BY <1>1, EventTyped DEF ProcessSessionConfig
  <2>2. /\ bfdsMain' \in Goroutine /\ bfdsMain'.at = "send" /\ bfdsMain'.req = r /\ bfdsMain'.todo = {}
    BY <1>1, GoroutineMoves DEF ProcessSessionConfig
  <2>3. bfdsWant' \in [BfdPeers -> SUBSET BfdOwners]
    <3>0. r.ip \in BfdPeers /\ r.owner \in BfdOwners
      BY DEF Req
    <3>1. CASE r.op = "create"
      BY <1>1, <3>0, <3>1 DEF ProcessSessionConfig, BfdsTypeOK
    <3>2. CASE r.op = "delete"
      BY <1>1, <3>0, <3>2 DEF ProcessSessionConfig, BfdsTypeOK
    <3>3. CASE r.op # "create" /\ r.op # "delete"
      BY <1>1, <3>3 DEF ProcessSessionConfig, BfdsTypeOK
    <3> QED  BY <3>1, <3>2, <3>3
  <2>4. UNCHANGED <<bfdsTables, bfdsRetry, bfdsMgr, bfdsRoutes, bfdsDead>>
    BY <1>1 DEF ProcessSessionConfig
  <2>5. BfdsTypeOK'
    BY <2>3, <2>4 DEF BfdsTypeOK, bfdsTables
  <2>6. MoreTypes'
    BY <2>1, <2>2, <2>4 DEF MoreTypes, bfdsTables
  <2>7. GoroutinesSane'
    BY <2>2, <2>4 DEF GoroutinesSane, Busy
  <2> QED  BY <2>5, <2>6, <2>7
<1>2. ASSUME HandOver PROVE Typed'
  <2>1. bfdsMain.req \in Req
    BY <1>2 DEF HandOver, GoroutinesSane, Busy
  <2>2. /\ bfdsMgr' \in Goroutine /\ bfdsMgr'.at = "take" /\ bfdsMgr'.req = bfdsMain.req /\ bfdsMgr'.todo = {}
    BY <1>2, <2>1, GoroutineMoves DEF HandOver
  <2>3. bfdsMain' = AtRest /\ UNCHANGED <<bfdsTables, bfdsRetry, bfdsWant, bfdsRoutes, bfdsDead, bfdsEvents>>
    BY <1>2 DEF HandOver
  <2>4. BfdsTypeOK'
    BY <2>3 DEF BfdsTypeOK, bfdsTables
  <2>5. MoreTypes'
    BY <2>2, <2>3, RestIsGoroutine DEF MoreTypes, bfdsTables
  <2>6. GoroutinesSane'
    BY <2>1, <2>2, <2>3, RestIsGoroutine DEF GoroutinesSane, Busy
  <2> QED  BY <2>4, <2>5, <2>6
<1>3. ASSUME HandleNextHopChange PROVE Typed'
  <2> DEFINE waiting == {ip \in BfdPeers : bfdsPending[ip] # NoReq}
             g == [AtRest EXCEPT !.at = "next", !.todo = waiting]
  <2>1. g \in Goroutine /\ g.at = "next" /\ g.req = NoReq
    BY DEF AtRest, Goroutine
  <2>2. bfdsMain' = AtRest \/ bfdsMain' = g
    BY <1>3 DEF HandleNextHopChange
  <2>3. bfdsEvents' \in [left : Nat, past : SUBSET Notes]
    BY <1>3, EventTyped DEF HandleNextHopChange
  <2>4. bfdsRoutes' = BfdPeers /\ UNCHANGED <<bfdsTables, bfdsRetry, bfdsMgr, bfdsWant, bfdsDead>>
    BY <1>3 DEF HandleNextHopChange
  <2> HIDE DEF g
  <2>5. BfdsTypeOK'
    BY <2>4 DEF BfdsTypeOK, bfdsTables
  <2>6. MoreTypes'
    BY <2>1, <2>2, <2>3, <2>4, RestIsGoroutine DEF MoreTypes, bfdsTables
  <2>7. GoroutinesSane'
    BY <2>1, <2>2, <2>4, RestIsGoroutine DEF GoroutinesSane, Busy
  <2> QED  BY <2>5, <2>6, <2>7
<1>4. ASSUME RouteLost PROVE Typed'
  <2>1. bfdsEvents' \in [left : Nat, past : SUBSET Notes]
    BY <1>4, EventTyped DEF RouteLost
  <2>2. BfdsTypeOK' /\ GoroutinesSane'
    BY <1>4 DEF RouteLost, BfdsTypeOK, bfdsTables, GoroutinesSane, Busy
  <2>3. MoreTypes'
    BY <1>4, <2>1 DEF RouteLost, MoreTypes, bfdsTables
  <2> QED  BY <2>2, <2>3
<1>5. ASSUME NEW n \in BfdParams, NEW create \in BOOLEAN, ProcessSessionParam(n, create) PROVE Typed'
  <2>1. PICK what \in SUBSET Notes : BfdsEvent(what)
    BY <1>5 DEF ProcessSessionParam, Notes
  <2>2. bfdsEvents' \in [left : Nat, past : SUBSET Notes]
    BY <2>1, EventTyped
  <2>3. bfdsParams' \in [AllParams -> Int]
    <3>1. NoParam \in Int /\ 0 \in Int /\ n \in AllParams
      BY DEF NoParam, AllParams
    <3>2. PICK v \in {0, NoParam} : bfdsParams' = [bfdsParams EXCEPT ![n] = v]
      BY <1>5 DEF ProcessSessionParam
    <3> QED  BY <3>1, <3>2 DEF BfdsTypeOK
  <2>4. UNCHANGED <<bfdsSess, bfdsByIp, bfdsPending, bfdsNew, bfdsRetry, bfdsMain, bfdsMgr, bfdsWant, bfdsRoutes, bfdsDead>>
    BY <1>5 DEF ProcessSessionParam
  <2>5. BfdsTypeOK' /\ GoroutinesSane'
    BY <2>3, <2>4 DEF BfdsTypeOK, GoroutinesSane, Busy
  <2>6. MoreTypes'
    BY <2>2, <2>4 DEF MoreTypes
  <2> QED  BY <2>5, <2>6
<1>6. ASSUME MgrCreate PROVE Typed'
  <2> DEFINE r == bfdsMgr.req
  <2>0. r \in Req /\ r.ip \in BfdPeers /\ r.owner \in BfdOwners /\ r.op = "create"
    BY <1>6 DEF MgrCreate, GoroutinesSane, Busy, Req
  <2>1. UNCHANGED <<bfdsByIp, bfdsPending, bfdsParams, bfdsNew, bfdsRetry, bfdsMain, bfdsWant, bfdsRoutes, bfdsDead, bfdsEvents>>
    BY <1>6 DEF MgrCreate
  <2>2. ASSUME NEW id \in FindBfdSession(r.ip), bfdsSess' = Register(id, r.owner), bfdsMgr' = AtRest PROVE Typed'
    <3>1. bfdsSess[id] \in Sess /\ id \in Ids
      BY <2>2, LiveIsSess DEF FindBfdSession
    <3> DEFINE s == [bfdsSess[id] EXCEPT !.owners = @ \cup {r.owner}]
    <3>2. s \in Sess
      BY <3>1, <2>0 DEF Sess
    <3>3. bfdsSess' = [bfdsSess EXCEPT ![id] = s]
      BY <2>2 DEF Register
    <3> HIDE DEF s
    <3>4. BfdsTypeOK'
      BY <3>1, <3>2, <3>3, <2>1 DEF BfdsTypeOK
    <3>5. MoreTypes' /\ GoroutinesSane'
      BY <2>1, <2>2, RestIsGoroutine DEF MoreTypes, GoroutinesSane, Busy
    <3> QED  BY <3>4, <3>5
  <2>3. ASSUME bfdsMgr' = [bfdsMgr EXCEPT !.at = "ask"], UNCHANGED bfdsSess PROVE Typed'
    <3>1. bfdsMgr' \in Goroutine /\ bfdsMgr'.at = "ask" /\ bfdsMgr'.req = r /\ bfdsMgr'.todo = {}
      BY <2>3 DEF MoreTypes, GoroutinesSane, Goroutine
    <3>2. BfdsTypeOK' /\ MoreTypes'
      BY <2>1, <2>3, <3>1 DEF BfdsTypeOK, MoreTypes
    <3>3. GoroutinesSane'
      BY <2>0, <2>1, <3>1 DEF GoroutinesSane, Busy
    <3> QED  BY <3>2, <3>3
  <2> QED  BY <1>6, <2>2, <2>3 DEF MgrCreate
<1>7. ASSUME MgrAnswered PROVE Typed'
  <2>0. bfdsMgr.req \in Req
    BY <1>7 DEF MgrAnswered, GoroutinesSane, Busy
  <2>1. UNCHANGED <<bfdsRetry, bfdsMain, bfdsWant, bfdsRoutes, bfdsDead>>
    BY <1>7 DEF MgrAnswered
  <2>2. ASSUME bfdsMgr' = Stuck, UNCHANGED <<bfdsTables, bfdsEvents>> PROVE Typed'
    BY <2>1, <2>2, RestIsGoroutine DEF BfdsTypeOK, MoreTypes, GoroutinesSane, Busy, bfdsTables
  <2>3. ASSUME FinishCreate(bfdsMgr.req, FALSE), bfdsMgr' = AtRest PROVE Typed'
    <3>1. BfdsTypeOK'
      BY <2>0, <2>1, <2>3, FinishTyped DEF BfdsTypeOK
    <3>2. MoreTypes'
      BY <2>0, <2>1, <2>3, FinishTyped, RestIsGoroutine DEF MoreTypes
    <3>3. GoroutinesSane'
      BY <2>1, <2>3, RestIsGoroutine DEF GoroutinesSane, Busy
    <3> QED  BY <3>1, <3>2, <3>3
  <2> QED  BY <1>7, <2>2, <2>3 DEF MgrAnswered
<1>8. ASSUME MgrDelete PROVE Typed'
  <2> DEFINE r == bfdsMgr.req
  <2>0. r \in Req /\ r.ip \in BfdPeers
    BY <1>8 DEF MgrDelete, GoroutinesSane, Busy, Req
  <2>1. UNCHANGED <<bfdsPending, bfdsNew, bfdsRetry, bfdsMain, bfdsWant, bfdsRoutes>>
    BY <1>8 DEF MgrDelete
  <2>2. PICK what \in SUBSET Notes : Note(what)
    <3>1. CASE StillWaits(bfdsMgr.req)
      BY <1>8, <3>1 DEF MgrDelete, Notes
    <3>2. CASE ~StillWaits(bfdsMgr.req)
      BY <1>8, <3>2 DEF MgrDelete
    <3> QED  BY <3>1, <3>2
  <2>3. bfdsEvents' \in [left : Nat, past : SUBSET Notes]
    BY <2>2, NoteTyped
  <2>4. /\ bfdsMgr' \in {AtRest, Stuck, bfdsMgr} /\ bfdsDead' \in {"none", "param", "timer"}
        /\ bfdsSess' \in [Ids -> {NoSess} \cup Sess]
        /\ bfdsByIp' \in [BfdPeers -> Ids \cup {0}] /\ bfdsParams' \in [AllParams -> Int]
    <3>1. ASSUME NEW id \in FindBfdSession(r.ip), SessionDeleteHandler(id, r.owner) PROVE <2>4
      <4> DEFINE left == Remaining(bfdsSess[id], r.owner)
                 s == [bfdsSess[id] EXCEPT !.owners = left]
      <4>1. bfdsSess[id] \in Sess /\ id \in Ids
        BY <3>1, LiveIsSess DEF FindBfdSession
      <4>2. s \in Sess
        BY <4>1 DEF Sess, Remaining
      <4>3. [bfdsSess EXCEPT ![id].owners = left] = [bfdsSess EXCEPT ![id] = s]
        OBVIOUS
      <4>4. [bfdsSess EXCEPT ![id] = s] \in [Ids -> {NoSess} \cup Sess]
        <5> HIDE DEF s
        <5> QED  BY <4>1, <4>2 DEF BfdsTypeOK
      <4>5. [bfdsSess EXCEPT ![id] = NoSess] \in [Ids -> {NoSess} \cup Sess]
        BY <4>1 DEF BfdsTypeOK
      <4>6. ForgetIp(bfdsSess[id].ip) \in [BfdPeers -> Ids \cup {0}]
        BY DEF ForgetIp, BfdsTypeOK
      <4>7. [bfdsParams EXCEPT ![bfdsSess[id].param] = @ - 1] \in [AllParams -> Int]
        BY <4>1 DEF BfdsTypeOK, Sess
      <4>8. bfdsSess \in [Ids -> {NoSess} \cup Sess] /\ bfdsByIp \in [BfdPeers -> Ids \cup {0}]
            /\ bfdsParams \in [AllParams -> Int] /\ bfdsDead \in {"none", "param", "timer"}
        BY DEF BfdsTypeOK
      <4> HIDE DEF s, left
      <4>a. CASE left # {}
        BY <3>1, <4>a, <4>3, <4>4, <4>8 DEF SessionDeleteHandler, left
      <4>b. CASE left = {} /\ ~bfdsSess[id].run
        BY <3>1, <4>b, <4>3, <4>4, <4>8 DEF SessionDeleteHandler, left
      <4>c. CASE left = {} /\ bfdsSess[id].run /\ bfdsParams[bfdsSess[id].param] = NoParam
        BY <3>1, <4>c, <4>8 DEF SessionDeleteHandler, left
      <4>e. CASE left = {} /\ bfdsSess[id].run /\ bfdsParams[bfdsSess[id].param] # NoParam
        BY <3>1, <4>e, <4>5, <4>6, <4>7, <4>8 DEF SessionDeleteHandler, left
      <4> QED  BY <4>a, <4>b, <4>c, <4>e
    <3>2. ASSUME bfdsMgr' = AtRest, UNCHANGED <<bfdsSess, bfdsByIp, bfdsParams, bfdsDead>> PROVE <2>4
      BY <3>2 DEF BfdsTypeOK
    <3> QED  BY <1>8, <3>1, <3>2 DEF MgrDelete
  <2>5. BfdsTypeOK'
    BY <2>1, <2>4 DEF BfdsTypeOK
  <2>6. MoreTypes'
    BY <2>1, <2>3, <2>4, RestIsGoroutine DEF MoreTypes
  <2>7. GoroutinesSane'
    BY <2>1, <2>4, RestIsGoroutine DEF GoroutinesSane, Busy
  <2> QED  BY <2>5, <2>6, <2>7
<1>9. ASSUME MgrAdminUp PROVE Typed'
  <2>1. bfdsMgr' = AtRest /\ bfdsDead' \in {"none", "timer"} /\ UNCHANGED <<bfdsTables, bfdsRetry, bfdsMain, bfdsWant, bfdsRoutes, bfdsEvents>>
    BY <1>9 DEF MgrAdminUp
  <2> QED  BY <2>1, RestIsGoroutine DEF BfdsTypeOK, MoreTypes, GoroutinesSane, Busy, bfdsTables
<1>10. ASSUME MainCreate PROVE Typed'
  <2>1. PICK ip \in bfdsMain.todo :
          \/ \E id \in FindBfdSession(ip) :
               /\ bfdsSess' = Register(id, bfdsPending[ip].owner)
               /\ bfdsPending' = [bfdsPending EXCEPT ![ip] = NoReq] /\ bfdsMain' = [bfdsMain EXCEPT !.todo = @ \ {ip}]
          \/ /\ bfdsMain' = [[bfdsMain EXCEPT !.todo = @ \ {ip}] EXCEPT !.at = "ask", !.req = bfdsPending[ip]]
             /\ UNCHANGED <<bfdsSess, bfdsPending>>
    BY <1>10 DEF MainCreate
  <2>2. UNCHANGED <<bfdsByIp, bfdsParams, bfdsNew, bfdsRetry, bfdsMgr, bfdsWant, bfdsRoutes, bfdsDead, bfdsEvents>>
    BY <1>10 DEF MainCreate
  <2>3. /\ ip \in BfdPeers /\ bfdsPending[ip] \in Req /\ bfdsPending[ip].owner \in BfdOwners
        /\ bfdsMain.at = "next" /\ bfdsMain \in Goroutine
    <3>1. bfdsMain \in Goroutine /\ ip \in BfdPeers /\ bfdsMain.at = "next"
      BY <1>10 DEF MoreTypes, Goroutine, MainCreate
    <3>2. bfdsPending[ip] \in Req
      BY <3>1 DEF PendingSane, BfdsTypeOK
    <3> QED  BY <3>1, <3>2 DEF Req
  <2>4. ASSUME NEW id \in FindBfdSession(ip), bfdsSess' = Register(id, bfdsPending[ip].owner),
               bfdsPending' = [bfdsPending EXCEPT ![ip] = NoReq], bfdsMain' = [bfdsMain EXCEPT !.todo = @ \ {ip}]
        PROVE  Typed'
    <3>1. bfdsSess[id] \in Sess /\ id \in Ids
      BY <2>4, LiveIsSess DEF FindBfdSession
    <3> DEFINE s == [bfdsSess[id] EXCEPT !.owners = @ \cup {bfdsPending[ip].owner}]
    <3>2. s \in Sess
      BY <3>1, <2>3 DEF Sess
    <3>3. bfdsSess' = [bfdsSess EXCEPT ![id] = s]
      BY <2>4 DEF Register
    <3> HIDE DEF s
    <3>4. BfdsTypeOK'
      BY <3>1, <3>2, <3>3, <2>2, <2>3, <2>4 DEF BfdsTypeOK
    <3>5. bfdsMain' \in Goroutine /\ bfdsMain'.at = "next" /\ bfdsMain'.req = bfdsMain.req
      BY <2>3, <2>4 DEF Goroutine
    <3>6. MoreTypes'
      BY <2>2, <3>5 DEF MoreTypes
    <3>7. GoroutinesSane'
      BY <2>2, <2>3, <3>5 DEF GoroutinesSane, Busy
    <3> QED  BY <3>4, <3>6, <3>7
  <2>5. ASSUME bfdsMain' = [[bfdsMain EXCEPT !.todo = @ \ {ip}] EXCEPT !.at = "ask", !.req = bfdsPending[ip]],
               UNCHANGED <<bfdsSess, bfdsPending>>
        PROVE  Typed'
    <3>1. bfdsMain' \in Goroutine /\ bfdsMain'.at = "ask" /\ bfdsMain'.req = bfdsPending[ip]
      BY <2>3, <2>5 DEF Goroutine
    <3>2. BfdsTypeOK' /\ MoreTypes'
      BY <2>2, <2>5, <3>1 DEF BfdsTypeOK, MoreTypes
    <3>3. GoroutinesSane'
      BY <2>2, <2>3, <3>1 DEF GoroutinesSane, Busy
    <3> QED  BY <3>2, <3>3
  <2> QED  BY <2>1, <2>4, <2>5
<1>11. ASSUME MainAnswered PROVE Typed'
  <2>0. bfdsMain.req \in Req
    BY <1>11 DEF MainAnswered, GoroutinesSane, Busy
  <2>1. UNCHANGED <<bfdsRetry, bfdsMgr, bfdsWant, bfdsRoutes, bfdsDead>>
    BY <1>11 DEF MainAnswered
  <2>2. ASSUME bfdsMain' = Stuck, UNCHANGED <<bfdsTables, bfdsEvents>> PROVE Typed'
    BY <2>1, <2>2, RestIsGoroutine DEF BfdsTypeOK, MoreTypes, GoroutinesSane, Busy, bfdsTables
  <2>3. ASSUME FinishCreate(bfdsMain.req, TRUE), bfdsMain' = [bfdsMain EXCEPT !.at = "next", !.req = NoReq] PROVE Typed'
    <3>1. BfdsTypeOK'
      BY <2>0, <2>1, <2>3, FinishTyped DEF BfdsTypeOK
    <3>2. bfdsMain' \in Goroutine /\ bfdsMain'.at = "next" /\ bfdsMain'.req = NoReq
      BY <2>3 DEF MoreTypes, Goroutine
    <3>3. MoreTypes'
      BY <2>0, <2>1, <2>3, <3>2, FinishTyped DEF MoreTypes
    <3>4. GoroutinesSane'
      BY <2>1, <3>2 DEF GoroutinesSane, Busy
    <3> QED  BY <3>1, <3>3, <3>4
  <2> QED  BY <1>11, <2>2, <2>3 DEF MainAnswered
<1>12. ASSUME MainDone PROVE Typed'
  <2>1. bfdsMain' = AtRest /\ UNCHANGED <<bfdsTables, bfdsRetry, bfdsMgr, bfdsWant, bfdsRoutes, bfdsDead, bfdsEvents>>
    BY <1>12 DEF MainDone
  <2> QED  BY <2>1, RestIsGoroutine DEF BfdsTypeOK, MoreTypes, GoroutinesSane, Busy, bfdsTables
<1>13. ASSUME StartBfdSessionRxTx PROVE Typed'
  <2>1. \A id \in Ids : Live(id) => [bfdsSess[id] EXCEPT !.run = TRUE, !.client = "starting"] \in Sess
    BY LiveIsSess DEF Sess
  <2>2. bfdsSess' \in [Ids -> {NoSess} \cup Sess]
    BY <1>13, <2>1 DEF StartBfdSessionRxTx, BfdsTypeOK
  <2>3. bfdsNew' \in Seq(Ids)
    <3>1. bfdsNew \in Seq(Ids) /\ bfdsNew # <<>> /\ bfdsNew' = Tail(bfdsNew)
      BY <1>13 DEF StartBfdSessionRxTx, MoreTypes
    <3> QED  BY <3>1, TailTyped
  <2>4. UNCHANGED <<bfdsByIp, bfdsPending, bfdsParams, bfdsRetry, bfdsMain, bfdsMgr, bfdsWant, bfdsRoutes, bfdsDead, bfdsEvents>>
    BY <1>13 DEF StartBfdSessionRxTx
  <2> QED  BY <2>2, <2>3, <2>4 DEF BfdsTypeOK, MoreTypes, GoroutinesSane, Busy
<1>14. ASSUME NEW id \in Ids, NEW ok \in BOOLEAN, StartSessionClient(id, ok) PROVE Typed'
  <2> DEFINE s == [bfdsSess[id] EXCEPT !.client = IF ok THEN "active" ELSE "failed"]
  <2>1. s \in Sess
    BY <1>14, LiveIsSess DEF StartSessionClient, Sess
  <2>2. bfdsSess' = [bfdsSess EXCEPT ![id] = s]
    BY <1>14 DEF StartSessionClient
  <2> HIDE DEF s
  <2>3. bfdsSess' \in [Ids -> {NoSess} \cup Sess]
    BY <2>1, <2>2 DEF BfdsTypeOK
  <2>4. bfdsEvents' \in [left : Nat, past : SUBSET Notes]
    BY <1>14, EventTyped DEF StartSessionClient, MoreTypes
  <2>5. bfdsRetry' \in SUBSET Ids /\ UNCHANGED <<bfdsByIp, bfdsPending, bfdsParams, bfdsNew, bfdsMain, bfdsMgr, bfdsWant, bfdsRoutes, bfdsDead>>
    BY <1>14 DEF StartSessionClient, MoreTypes
  <2> QED  BY <2>3, <2>4, <2>5 DEF BfdsTypeOK, MoreTypes, GoroutinesSane, Busy
<1>15. ASSUME NEW id \in Ids, StartSessionRetryHandler(id) PROVE Typed'
  <2>1. Restarted(id) \in Sess
    BY <1>15, LiveIsSess DEF StartSessionRetryHandler, Sess, Restarted
  <2>2. bfdsSess' \in [Ids -> {NoSess} \cup Sess]
    BY <1>15, <2>1 DEF BfdsTypeOK, StartSessionRetryHandler
  <2>3. bfdsRetry' \in SUBSET Ids /\ UNCHANGED <<bfdsByIp, bfdsPending, bfdsParams, bfdsNew, bfdsMain, bfdsMgr, bfdsWant, bfdsRoutes, bfdsDead, bfdsEvents>>
    BY <1>15 DEF StartSessionRetryHandler, MoreTypes
  <2> QED  BY <2>2, <2>3 DEF BfdsTypeOK, MoreTypes, GoroutinesSane, Busy
<1> QED  BY <1>1, <1>2, <1>3, <1>4, <1>5, <1>6, <1>7, <1>8, <1>9, <1>10, <1>11, <1>12, <1>13, <1>14, <1>15 DEF BfdsNext

-----------------------------------------------------------------------------
(* Requests that wait *)

LEMMA PendingInit == ASSUME BfdsInit PROVE PendingSane
BY RestIsGoroutine DEF BfdsInit, PendingSane

(* What becomes of the waiting requests when ribd has answered.            *)
LEMMA FinishPending ==
  ASSUME Typed, PendingSane, NEW r \in Req, r.op = "create", NEW done \in BOOLEAN, FinishCreate(r, done)
  PROVE  /\ \A ip \in BfdPeers : ip # r.ip => bfdsPending'[ip] = bfdsPending[ip]
         /\ bfdsPending'[r.ip] \in {bfdsPending[r.ip], r, NoReq}
         /\ bfdsPending[r.ip] # NoReq /\ ~done => bfdsPending'[r.ip] = bfdsPending[r.ip]
<1>1. r.ip \in BfdPeers /\ bfdsPending \in [BfdPeers -> {NoReq} \cup Req]
  BY DEF Req, Typed, BfdsTypeOK
<1> QED  BY <1>1 DEF FinishCreate, Waits

LEMMA PendingStep == ASSUME Typed, PendingSane, BfdsNext PROVE PendingSane'
<1>0. bfdsMain \in Goroutine /\ bfdsMain.todo \in SUBSET BfdPeers
  BY DEF Typed, MoreTypes, Goroutine
<1>1. ASSUME UNCHANGED bfdsPending, bfdsMain'.at # "ask", bfdsMain'.todo = {} PROVE PendingSane'
  BY <1>1 DEF PendingSane
<1>2. ASSUME UNCHANGED <<bfdsPending, bfdsMain>> PROVE PendingSane'
  BY <1>2 DEF PendingSane
<1>3. ASSUME NEW r \in Req, ProcessSessionConfig(r) PROVE PendingSane'
  BY <1>1, <1>3, GoroutineMoves DEF ProcessSessionConfig, bfdsTables
<1>4. ASSUME HandOver PROVE PendingSane'
  BY <1>1, <1>4, RestIsGoroutine DEF HandOver, bfdsTables
<1>5. ASSUME HandleNextHopChange PROVE PendingSane'
  <2> DEFINE waiting == {ip \in BfdPeers : bfdsPending[ip] # NoReq}
             g == [AtRest EXCEPT !.at = "next", !.todo = waiting]
  <2>1. g.at = "next" /\ g.todo = waiting
    BY DEF AtRest
  <2>2. (bfdsMain' = AtRest \/ bfdsMain' = g) /\ UNCHANGED bfdsPending
    BY <1>5 DEF HandleNextHopChange, bfdsTables
  <2> HIDE DEF g
  <2> QED  BY <2>1, <2>2, RestIsGoroutine DEF PendingSane
<1>6. ASSUME RouteLost PROVE PendingSane'
  BY <1>2, <1>6 DEF RouteLost, bfdsTables
<1>7. ASSUME NEW n \in BfdParams, NEW create \in BOOLEAN, ProcessSessionParam(n, create) PROVE PendingSane'
  BY <1>2, <1>7 DEF ProcessSessionParam
<1>8. ASSUME MgrCreate \/ MgrDelete \/ MgrAdminUp PROVE PendingSane'
  BY <1>2, <1>8 DEF MgrCreate, MgrDelete, MgrAdminUp, bfdsTables
<1>9. ASSUME MgrAnswered PROVE PendingSane'
  <2> DEFINE r == bfdsMgr.req
  <2>0. r \in Req /\ r.ip \in BfdPeers /\ r.op = "create" /\ UNCHANGED bfdsMain
    BY <1>9 DEF MgrAnswered, Typed, GoroutinesSane, Busy, Req
  <2>1. CASE UNCHANGED bfdsTables
    BY <1>2, <2>0, <2>1 DEF bfdsTables
  <2>2. CASE FinishCreate(r, FALSE)
    <3>1. \A ip \in BfdPeers : bfdsPending'[ip] = bfdsPending[ip] \/ (ip = r.ip /\ bfdsPending[ip] = NoReq /\ bfdsPending'[ip] \in {r, NoReq})
      BY <2>0, <2>2, FinishPending
    <3>2. bfdsMain.at = "ask" => bfdsMain.req \in Req /\ bfdsMain.req.ip \in BfdPeers /\ bfdsMain.req # NoReq
      BY NoneIsNone DEF Typed, GoroutinesSane, Busy, Req
    <3>3. \A ip \in BfdPeers : bfdsPending'[ip] # NoReq => bfdsPending'[ip].ip = ip /\ bfdsPending'[ip].op = "create"
      BY <2>0, <3>1 DEF PendingSane
    <3>4. \A ip \in bfdsMain'.todo : bfdsPending'[ip] # NoReq
      BY <1>0, <2>0, <3>1 DEF PendingSane
    <3>5. bfdsMain'.at = "ask" => bfdsPending'[bfdsMain'.req.ip] = bfdsMain'.req /\ bfdsMain'.req.ip \notin bfdsMain'.todo
      BY <2>0, <3>1, <3>2 DEF PendingSane
    <3> QED  BY <3>3, <3>4, <3>5 DEF PendingSane
  <2> QED  BY <1>9, <2>1, <2>2 DEF MgrAnswered
<1>10. ASSUME MainCreate PROVE PendingSane'
  <2>1. PICK ip \in bfdsMain.todo :
          \/ /\ bfdsPending' = [bfdsPending EXCEPT ![ip] = NoReq] /\ bfdsMain' = [bfdsMain EXCEPT !.todo = @ \ {ip}]
          \/ /\ bfdsMain' = [[bfdsMain EXCEPT !.todo = @ \ {ip}] EXCEPT !.at = "ask", !.req = bfdsPending[ip]]
             /\ UNCHANGED bfdsPending
    BY <1>10 DEF MainCreate
  <2>2. ip \in BfdPeers /\ bfdsPending[ip].ip = ip /\ bfdsMain.at = "next"
    BY <1>0, <1>10 DEF PendingSane, MainCreate
  <2>3. CASE bfdsPending' = [bfdsPending EXCEPT ![ip] = NoReq] /\ bfdsMain' = [bfdsMain EXCEPT !.todo = @ \ {ip}]
    <3>1. bfdsMain'.at = "next" /\ bfdsMain'.todo = bfdsMain.todo \ {ip}
      BY <1>0, <2>2, <2>3 DEF Goroutine
    <3>2. \A x \in BfdPeers : bfdsPending'[x] = IF x = ip THEN NoReq ELSE bfdsPending[x]
      BY <2>2, <2>3 DEF Typed, BfdsTypeOK
    <3> QED  BY <1>0, <3>1, <3>2 DEF PendingSane
  <2>4. CASE bfdsMain' = [[bfdsMain EXCEPT !.todo = @ \ {ip}] EXCEPT !.at = "ask", !.req = bfdsPending[ip]] /\ UNCHANGED bfdsPending
    <3>1. bfdsMain'.at = "ask" /\ bfdsMain'.todo = bfdsMain.todo \ {ip} /\ bfdsMain'.req = bfdsPending[ip]
      BY <1>0, <2>2, <2>4 DEF Goroutine
    <3> QED  BY <2>2, <2>4, <3>1 DEF PendingSane
  <2> QED  BY <2>1, <2>3, <2>4
<1>11. ASSUME MainAnswered PROVE PendingSane'
  <2> DEFINE r == bfdsMain.req
  <2>0. /\ r \in Req /\ r.ip \in BfdPeers /\ bfdsPending[r.ip] = r /\ r # NoReq /\ r.op = "create"
        /\ r.ip \notin bfdsMain.todo
    <3>1. r \in Req /\ bfdsPending[r.ip] = r /\ r.ip \notin bfdsMain.todo
      BY <1>11 DEF MainAnswered, Typed, GoroutinesSane, Busy, PendingSane
    <3>2. r.ip \in BfdPeers /\ r # NoReq
      BY <3>1, NoneIsNone DEF Req
    <3> QED  BY <3>1, <3>2 DEF PendingSane
  <2>1. CASE bfdsMain' = Stuck /\ UNCHANGED bfdsTables
    BY <1>1, <2>1, RestIsGoroutine DEF bfdsTables
  <2>2. CASE FinishCreate(r, TRUE) /\ bfdsMain' = [bfdsMain EXCEPT !.at = "next", !.req = NoReq]
    <3>1. bfdsMain'.at = "next" /\ bfdsMain'.todo = bfdsMain.todo
      BY <1>0, <2>2 DEF Goroutine
    <3>2. \A ip \in BfdPeers : bfdsPending'[ip] = bfdsPending[ip] \/ (ip = r.ip /\ bfdsPending'[ip] \in {r, NoReq})
      BY <2>0, <2>2, FinishPending
    <3>3. \A ip \in BfdPeers : bfdsPending'[ip] # NoReq => bfdsPending'[ip].ip = ip /\ bfdsPending'[ip].op = "create"
      BY <2>0, <3>2 DEF PendingSane
    <3>4. \A ip \in bfdsMain'.todo : bfdsPending'[ip] # NoReq
      BY <1>0, <2>0, <3>1, <3>2 DEF PendingSane
    <3> QED  BY <3>1, <3>3, <3>4 DEF PendingSane
  <2> QED  BY <1>11, <2>1, <2>2 DEF MainAnswered
<1>12. ASSUME MainDone PROVE PendingSane'
  BY <1>1, <1>12, RestIsGoroutine DEF MainDone, bfdsTables
<1>13. ASSUME StartBfdSessionRxTx PROVE PendingSane'
  BY <1>2, <1>13 DEF StartBfdSessionRxTx
<1>14. ASSUME NEW id \in Ids, NEW ok \in BOOLEAN, StartSessionClient(id, ok) PROVE PendingSane'
  BY <1>2, <1>14 DEF StartSessionClient
<1>15. ASSUME NEW id \in Ids, StartSessionRetryHandler(id) PROVE PendingSane'
  BY <1>2, <1>15 DEF StartSessionRetryHandler
<1> QED
  BY <1>3, <1>4, <1>5, <1>6, <1>7, <1>8, <1>9, <1>10, <1>11, <1>12, <1>13, <1>14, <1>15 DEF BfdsNext

-----------------------------------------------------------------------------
(* The steps of the session table: sessions stay where they are, one is    *)
(* created, or one is removed.                                             *)

Stays(id) == Live(id)' = Live(id) /\ (Live(id) => bfdsSess'[id].ip = bfdsSess[id].ip /\ bfdsSess'[id].param = bfdsSess[id].param)
Created(id, r) ==
  /\ ~Live(id) /\ Live(id)'
  /\ bfdsSess'[id].ip = r.ip /\ bfdsSess'[id].owners = {r.owner} /\ bfdsSess'[id].param = ParamUsed(r.param)
  /\ \A i \in Ids : i # id => bfdsSess'[i] = bfdsSess[i]
Removed(id) ==
  /\ Live(id) /\ ~Live(id)'
  /\ \A i \in Ids : i # id => bfdsSess'[i] = bfdsSess[i]
NotesKept == bfdsEvents.past \subseteq bfdsEvents'.past

Keeping == (\A id \in Ids : Stays(id)) /\ UNCHANGED bfdsByIp
Creating(id, r) == Created(id, r) /\ bfdsByIp' = [bfdsByIp EXCEPT ![r.ip] = id] /\ bfdsParams' = CountsSession(r)
                   /\ (FindBfdSession(r.ip) # {} => "twice" \in bfdsEvents'.past)
Removing(id) == /\ Removed(id) /\ bfdsByIp' = ForgetIp(bfdsSess[id].ip)
                /\ bfdsParams[bfdsSess[id].param] # NoParam
                /\ bfdsParams' = [bfdsParams EXCEPT ![bfdsSess[id].param] = @ - 1]
Renaming == \E n \in BfdParams, create \in BOOLEAN : ProcessSessionParam(n, create)

(* An owner of one session changes, and nothing else of it.                *)
LEMMA OwnersChange ==
  ASSUME BfdsTypeOK, NEW id \in Ids, Live(id), NEW ow \in SUBSET BfdOwners,
         bfdsSess' = [bfdsSess EXCEPT ![id].owners = ow]
  PROVE  /\ bfdsSess'[id] \in Sess /\ Live(id)' /\ bfdsSess'[id].owners = ow /\ Stays(id)
         /\ \A i \in Ids : i # id => bfdsSess'[i] = bfdsSess[i]
         /\ \A i \in Ids : Stays(i)
<1> DEFINE s == [bfdsSess[id] EXCEPT !.owners = ow]
<1>1. bfdsSess[id] \in Sess
  BY LiveIsSess
<1>2. s \in Sess /\ s.ip = bfdsSess[id].ip /\ s.param = bfdsSess[id].param /\ s.owners = ow
  BY <1>1 DEF Sess
<1>3. bfdsSess' = [bfdsSess EXCEPT ![id] = s]
  OBVIOUS
<1> HIDE DEF s
<1>4. bfdsSess'[id] = s /\ \A i \in Ids : i # id => bfdsSess'[i] = bfdsSess[i]
  BY <1>3 DEF BfdsTypeOK
<1>5. Live(id)'
  BY <1>2, <1>4, NoneIsNone DEF Live
<1>6. \A i \in Ids : Stays(i)
  BY <1>2, <1>4, <1>5 DEF Stays, Live
<1> QED  BY <1>2, <1>4, <1>5, <1>6

LEMMA RegisterStep ==
  ASSUME Typed, NEW ip \in BfdPeers, NEW id \in FindBfdSession(ip), NEW o \in BfdOwners, bfdsSess' = Register(id, o)
  PROVE  /\ id \in Ids /\ Live(id) /\ bfdsSess[id].ip = ip
         /\ Live(id)' /\ bfdsSess'[id].owners = bfdsSess[id].owners \cup {o} /\ \A i \in Ids : Stays(i)
         /\ \A i \in Ids : i # id => bfdsSess'[i] = bfdsSess[i]
<1>1. id \in Ids /\ Live(id) /\ bfdsSess[id].ip = ip
  BY DEF FindBfdSession
<1> DEFINE ow == bfdsSess[id].owners \cup {o}
<1>2. ow \in SUBSET BfdOwners
  BY <1>1, LiveIsSess DEF Sess, Typed
<1>3. bfdsSess' = [bfdsSess EXCEPT ![id].owners = ow]
  BY DEF Register
<1> HIDE DEF ow
<1>4. /\ Live(id)' /\ bfdsSess'[id].owners = ow /\ \A i \in Ids : Stays(i)
      /\ \A i \in Ids : i # id => bfdsSess'[i] = bfdsSess[i]
  BY <1>1, <1>2, <1>3, OwnersChange DEF Typed
<1> QED  BY <1>1, <1>4 DEF ow

LEMMA CreateStep ==
  ASSUME Typed, NEW r \in Req, NEW done \in BOOLEAN, FinishCreate(r, done)
  PROVE  \/ r.ip \notin bfdsRoutes /\ UNCHANGED <<bfdsSess, bfdsByIp, bfdsParams>>
         \/ r.ip \in bfdsRoutes /\ \E id \in Ids : Creating(id, r)
<1>1. CASE r.ip \notin bfdsRoutes
  BY <1>1 DEF FinishCreate
<1>2. CASE r.ip \in bfdsRoutes
  <2>1. PICK id \in {i \in Ids : ~Live(i)} : NewNormalBfdSession(id, r)
    BY <1>2 DEF FinishCreate
  <2>2. FindBfdSession(r.ip) # {} => "twice" \in bfdsEvents'.past
    <3>1. SUFFICES ASSUME FindBfdSession(r.ip) # {} PROVE "twice" \in bfdsEvents'.past
      OBVIOUS
    <3>2. Note({"twice"}) /\ {"twice"} \in SUBSET Notes
      BY <1>2, <3>1 DEF FinishCreate, Notes
    <3> QED  BY <3>2, NoteTyped DEF Typed
  <2> DEFINE s == [ip |-> r.ip, owners |-> {r.owner}, param |-> ParamUsed(r.param), run |-> FALSE, client |-> "none"]
  <2>3. s \in Sess /\ s.ip = r.ip /\ s.owners = {r.owner} /\ s.param = ParamUsed(r.param)
    <3>1. ParamUsed(r.param) \in AllParams
      BY DEF ParamUsed, Req, AllParams
    <3> QED  BY <3>1 DEF Sess, Req
  <2>4. bfdsSess' = [bfdsSess EXCEPT ![id] = s]
    BY <2>1 DEF NewNormalBfdSession
  <2> HIDE DEF s
  <2>5. bfdsSess'[id] = s /\ \A i \in Ids : i # id => bfdsSess'[i] = bfdsSess[i]
    BY <2>1, <2>4 DEF Typed, BfdsTypeOK
  <2>6. ~Live(id) /\ Live(id)'
    BY <2>1, <2>3, <2>5, NoneIsNone DEF Live
  <2>7. Created(id, r)
    BY <2>3, <2>5, <2>6 DEF Created
  <2> QED  BY <1>2, <2>1, <2>2, <2>7 DEF Creating, NewNormalBfdSession
<1> QED  BY <1>1, <1>2

(* What SessionDeleteHandler does to the table.                            *)
LEMMA DeleteStep ==
  ASSUME Typed, NEW id \in Ids, Live(id), NEW o \in BfdOwners, SessionDeleteHandler(id, o)
  PROVE  \/ /\ Keeping /\ UNCHANGED <<bfdsParams, bfdsDead>> /\ bfdsMgr' \in {AtRest, Stuck}
            /\ Live(id)' /\ bfdsSess'[id].owners = bfdsSess[id].owners \ {o}
            /\ \A i \in Ids : i # id => bfdsSess'[i] = bfdsSess[i]
         \/ UNCHANGED <<bfdsSess, bfdsByIp, bfdsParams, bfdsMgr>>
         \/ Removing(id) /\ bfdsSess[id].owners \ {o} = {} /\ bfdsMgr' = AtRest
<1> DEFINE left == bfdsSess[id].owners \ {o}
<1>1. left = Remaining(bfdsSess[id], o)
  BY DEF Remaining
<1>2. left \in SUBSET BfdOwners
  BY LiveIsSess DEF Sess, Typed
<1> HIDE DEF left
<1>3. CASE left # {} \/ ~bfdsSess[id].run
  <2>1. /\ bfdsSess' = [bfdsSess EXCEPT ![id].owners = left] /\ UNCHANGED <<bfdsByIp, bfdsParams, bfdsDead>>
        /\ bfdsMgr' \in {AtRest, Stuck}
    BY <1>1, <1>3 DEF SessionDeleteHandler
  <2>2. /\ Live(id)' /\ bfdsSess'[id].owners = left /\ \A i \in Ids : Stays(i)
        /\ \A i \in Ids : i # id => bfdsSess'[i] = bfdsSess[i]
    BY <1>2, <2>1, OwnersChange DEF Typed
  <2> QED  BY <2>1, <2>2 DEF Keeping, left
<1>4. CASE left = {} /\ bfdsSess[id].run /\ bfdsParams[bfdsSess[id].param] = NoParam
  BY <1>1, <1>4 DEF SessionDeleteHandler
<1>5. CASE left = {} /\ bfdsSess[id].run /\ bfdsParams[bfdsSess[id].param] # NoParam
  <2>1. bfdsSess' = [bfdsSess EXCEPT ![id] = NoSess]
    BY <1>1, <1>5 DEF SessionDeleteHandler
  <2>2. Removed(id)
    BY <2>1 DEF Removed, Live, Typed, BfdsTypeOK
  <2>3. /\ bfdsByIp' = ForgetIp(bfdsSess[id].ip) /\ bfdsMgr' = AtRest
        /\ bfdsParams' = [bfdsParams EXCEPT ![bfdsSess[id].param] = @ - 1]
    BY <1>1, <1>5 DEF SessionDeleteHandler
  <2> QED  BY <1>5, <2>2, <2>3 DEF Removing, left
<1> QED  BY <1>3, <1>4, <1>5

(* The goroutines that start sessions do not change whose they are.        *)
SameSessions == \A id \in Ids : Stays(id) /\ (Live(id) => bfdsSess'[id].owners = bfdsSess[id].owners)
LEMMA StartStep ==
  ASSUME Typed, \/ StartBfdSessionRxTx
                \/ \E id \in Ids : StartSessionRetryHandler(id) \/ \E ok \in BOOLEAN : StartSessionClient(id, ok)
  PROVE  /\ SameSessions
         /\ UNCHANGED <<bfdsByIp, bfdsPending, bfdsParams, bfdsMain, bfdsMgr, bfdsWant>>
<1>0. \A id \in Ids : Live(id) => bfdsSess[id] \in Sess
  BY LiveIsSess DEF Typed
<1>1. ASSUME \A id \in Ids : \/ bfdsSess'[id] = bfdsSess[id]
                             \/ /\ Live(id) /\ bfdsSess'[id] \in Sess
                                /\ bfdsSess'[id].ip = bfdsSess[id].ip /\ bfdsSess'[id].param = bfdsSess[id].param
                                /\ bfdsSess'[id].owners = bfdsSess[id].owners
      PROVE  SameSessions
  BY <1>1, NoneIsNone DEF SameSessions, Stays, Live
<1>2. ASSUME StartBfdSessionRxTx PROVE SameSessions
  <2>1. ASSUME NEW id \in Ids
        PROVE  \/ bfdsSess'[id] = bfdsSess[id]
               \/ Live(id) /\ bfdsSess'[id] = [bfdsSess[id] EXCEPT !.run = TRUE, !.client = "starting"]
    BY <1>2 DEF StartBfdSessionRxTx
  <2>2. ASSUME NEW s \in Sess
        PROVE  LET t == [s EXCEPT !.run = TRUE, !.client = "starting"] IN
               t \in Sess /\ t.ip = s.ip /\ t.param = s.param /\ t.owners = s.owners
    BY DEF Sess
  <2> QED  BY <1>0, <1>1, <2>1, <2>2
<1>3. ASSUME NEW id \in Ids, NEW ok \in BOOLEAN, StartSessionClient(id, ok) PROVE SameSessions
  <2> DEFINE t == [bfdsSess[id] EXCEPT !.client = IF ok THEN "active" ELSE "failed"]
  <2>1. t \in Sess /\ t.ip = bfdsSess[id].ip /\ t.param = bfdsSess[id].param /\ t.owners = bfdsSess[id].owners /\ Live(id)
    BY <1>0, <1>3 DEF StartSessionClient, Sess
  <2>2. bfdsSess' = [bfdsSess EXCEPT ![id] = t]
    BY <1>3 DEF StartSessionClient
  <2> HIDE DEF t
  <2> QED  BY <1>1, <2>1, <2>2 DEF Typed, BfdsTypeOK
<1>4. ASSUME NEW id \in Ids, StartSessionRetryHandler(id) PROVE SameSessions
  <2> DEFINE t == Restarted(id)
  <2>1. t \in Sess /\ t.ip = bfdsSess[id].ip /\ t.param = bfdsSess[id].param /\ t.owners = bfdsSess[id].owners /\ Live(id)
    BY <1>0, <1>4 DEF StartSessionRetryHandler, Restarted, Sess
  <2>2. bfdsSess' = [bfdsSess EXCEPT ![id] = t]
    BY <1>4 DEF StartSessionRetryHandler
  <2> HIDE DEF t
  <2> QED  BY <1>1, <2>1, <2>2 DEF Typed, BfdsTypeOK
<1> QED  BY <1>2, <1>3, <1>4 DEF StartBfdSessionRxTx, StartSessionClient, StartSessionRetryHandler

TableUnchanged == UNCHANGED <<bfdsSess, bfdsByIp, bfdsParams>>
TableChange ==
  \/ Keeping /\ UNCHANGED bfdsParams
  \/ Keeping /\ Renaming
  \/ \E id \in Ids, r \in Req : Creating(id, r)
  \/ \E id \in Ids : Removing(id)

LEMMA TableStep == ASSUME Typed, PendingSane, BfdsNext PROVE TableChange /\ NotesKept
<1>1. ASSUME TableUnchanged PROVE TableChange
  BY <1>1 DEF TableUnchanged, TableChange, Keeping, Stays, Live
<1>2. ASSUME UNCHANGED bfdsEvents PROVE NotesKept
  BY <1>2 DEF NotesKept
<1>3. ASSUME NEW what \in SUBSET Notes, BfdsEvent(what) \/ Note(what) PROVE NotesKept
  BY <1>3, NoteTyped, EventTyped DEF NotesKept, Typed
<1>4. ASSUME NEW r \in Req, ProcessSessionConfig(r) PROVE TableChange /\ NotesKept
  BY <1>1, <1>3, <1>4 DEF ProcessSessionConfig, TableUnchanged, bfdsTables
<1>5. ASSUME HandOver \/ MainDone \/ MgrAdminUp PROVE TableChange /\ NotesKept
  BY <1>1, <1>2, <1>5 DEF HandOver, MainDone, MgrAdminUp, TableUnchanged, bfdsTables
<1>6. ASSUME HandleNextHopChange \/ RouteLost PROVE TableChange /\ NotesKept
  BY <1>1, <1>3, <1>6 DEF HandleNextHopChange, RouteLost, TableUnchanged, bfdsTables
<1>7. ASSUME NEW n \in BfdParams, NEW create \in BOOLEAN, ProcessSessionParam(n, create) PROVE TableChange /\ NotesKept
  <2>1. Renaming /\ Keeping
    BY <1>7 DEF Renaming, ProcessSessionParam, Keeping, Stays, Live
  <2>2. PICK what \in SUBSET Notes : BfdsEvent(what)
    BY <1>7 DEF ProcessSessionParam, Notes
  <2> QED  BY <1>3, <2>1, <2>2 DEF TableChange
<1>8. ASSUME MgrCreate PROVE TableChange /\ NotesKept
  <2>0. bfdsMgr.req.ip \in BfdPeers /\ bfdsMgr.req.owner \in BfdOwners
    BY <1>8 DEF MgrCreate, Typed, GoroutinesSane, Busy, Req
  <2>1. UNCHANGED <<bfdsByIp, bfdsParams, bfdsEvents>>
    BY <1>8 DEF MgrCreate
  <2>2. ASSUME NEW id \in FindBfdSession(bfdsMgr.req.ip), bfdsSess' = Register(id, bfdsMgr.req.owner) PROVE TableChange
    BY <2>0, <2>1, <2>2, RegisterStep DEF TableChange, Keeping
  <2> QED  BY <1>1, <1>2, <1>8, <2>1, <2>2 DEF MgrCreate, TableUnchanged
<1>9. ASSUME MgrAnswered PROVE TableChange /\ NotesKept
  <2>0. bfdsMgr.req \in Req
    BY <1>9 DEF MgrAnswered, Typed, GoroutinesSane, Busy
  <2>1. CASE UNCHANGED <<bfdsTables, bfdsEvents>>
    BY <1>1, <1>2, <2>1 DEF bfdsTables, TableUnchanged
  <2>2. CASE FinishCreate(bfdsMgr.req, FALSE)
    <3>1. NotesKept
      BY <2>0, <2>2, FinishTyped DEF NotesKept, Typed
    <3>2. TableUnchanged \/ \E id \in Ids : Creating(id, bfdsMgr.req)
      BY <2>0, <2>2, CreateStep DEF TableUnchanged
    <3> QED  BY <1>1, <2>0, <3>1, <3>2 DEF TableChange
  <2> QED  BY <1>9, <2>1, <2>2 DEF MgrAnswered
<1>10. ASSUME MgrDelete PROVE TableChange /\ NotesKept
  <2>0. bfdsMgr.req \in Req /\ bfdsMgr.req.owner \in BfdOwners
    BY <1>10 DEF MgrDelete, Typed, GoroutinesSane, Busy, Req
  <2>1. PICK what \in SUBSET Notes : Note(what)
    <3>1. CASE StillWaits(bfdsMgr.req)
      BY <1>10, <3>1 DEF MgrDelete, Notes
    <3>2. CASE ~StillWaits(bfdsMgr.req)
      BY <1>10, <3>2 DEF MgrDelete
    <3> QED  BY <3>1, <3>2
  <2>2. ASSUME NEW id \in FindBfdSession(bfdsMgr.req.ip), SessionDeleteHandler(id, bfdsMgr.req.owner) PROVE TableChange
    <3>1. id \in Ids /\ Live(id)
      BY DEF FindBfdSession
    <3> QED  BY <1>1, <2>0, <2>2, <3>1, DeleteStep DEF TableChange, TableUnchanged
  <2> QED  BY <1>1, <1>3, <1>10, <2>1, <2>2 DEF MgrDelete, TableUnchanged
<1>11. ASSUME MainCreate PROVE TableChange /\ NotesKept
  <2>1. UNCHANGED <<bfdsByIp, bfdsParams, bfdsEvents>>
    BY <1>11 DEF MainCreate
  <2>2. ASSUME NEW ip \in bfdsMain.todo, NEW id \in FindBfdSession(ip), bfdsSess' = Register(id, bfdsPending[ip].owner)
        PROVE  TableChange
    <3>1. ip \in BfdPeers
      BY DEF Typed, MoreTypes, Goroutine
    <3>2. bfdsPending[ip].owner \in BfdOwners
      BY <3>1 DEF PendingSane, Typed, BfdsTypeOK, Req
    <3> QED  BY <2>1, <2>2, <3>1, <3>2, RegisterStep DEF TableChange, Keeping
  <2> QED  BY <1>1, <1>2, <1>11, <2>1, <2>2 DEF MainCreate, TableUnchanged
<1>12. ASSUME MainAnswered PROVE TableChange /\ NotesKept
  <2>0. bfdsMain.req \in Req
    BY <1>12 DEF MainAnswered, Typed, GoroutinesSane, Busy
  <2>1. CASE UNCHANGED <<bfdsTables, bfdsEvents>>
    BY <1>1, <1>2, <2>1 DEF bfdsTables, TableUnchanged
  <2>2. CASE FinishCreate(bfdsMain.req, TRUE)
    <3>1. NotesKept
      BY <2>0, <2>2, FinishTyped DEF NotesKept, Typed
    <3>2. TableUnchanged \/ \E id \in Ids : Creating(id, bfdsMain.req)
      BY <2>0, <2>2, CreateStep DEF TableUnchanged
    <3> QED  BY <1>1, <2>0, <3>1, <3>2 DEF TableChange
  <2> QED  BY <1>12, <2>1, <2>2 DEF MainAnswered
<1>13. ASSUME \/ StartBfdSessionRxTx
              \/ \E id \in Ids : StartSessionRetryHandler(id) \/ \E ok \in BOOLEAN : StartSessionClient(id, ok)
       PROVE  TableChange /\ NotesKept
  <2>1. TableChange
    BY <1>13, StartStep DEF SameSessions, TableChange, Keeping
  <2>2. NotesKept
    <3>1. {} \in SUBSET Notes
      OBVIOUS
    <3>2. ASSUME StartBfdSessionRxTx \/ \E id \in Ids : StartSessionRetryHandler(id) PROVE NotesKept
      BY <1>2, <3>2 DEF StartBfdSessionRxTx, StartSessionRetryHandler
    <3>3. ASSUME NEW id \in Ids, NEW ok \in BOOLEAN, StartSessionClient(id, ok) PROVE NotesKept
      <4>1. UNCHANGED bfdsEvents \/ BfdsEvent({})
        BY <3>3 DEF StartSessionClient
      <4> QED  BY <1>2, <1>3, <3>1, <4>1
    <3> QED  BY <1>13, <3>2, <3>3
  <2> QED  BY <2>1, <2>2
<1> QED  BY <1>4, <1>5, <1>6, <1>7, <1>8, <1>9, <1>10, <1>11, <1>12, <1>13 DEF BfdsNext

(* One session per peer. *)
LEMMA OneStep == ASSUME Typed, OneSessionPerPeer, TableChange, NotesKept PROVE OneSessionPerPeer'
<1>1. SUFFICES ASSUME "twice" \notin bfdsEvents'.past
      PROVE  /\ \A a, b \in Ids : Live(a)' /\ Live(b)' /\ bfdsSess'[a].ip = bfdsSess'[b].ip => a = b
             /\ \A ip \in BfdPeers : FindBfdSession(ip)' = IF bfdsByIp'[ip] = 0 THEN {} ELSE {bfdsByIp'[ip]}
  BY DEF OneSessionPerPeer
<1>2. /\ \A a, b \in Ids : Live(a) /\ Live(b) /\ bfdsSess[a].ip = bfdsSess[b].ip => a = b
      /\ \A ip \in BfdPeers : FindBfdSession(ip) = IF bfdsByIp[ip] = 0 THEN {} ELSE {bfdsByIp[ip]}
  BY <1>1 DEF OneSessionPerPeer, NotesKept
<1>0. bfdsByIp \in [BfdPeers -> Ids \cup {0}]
  BY DEF Typed, BfdsTypeOK
<1>3. CASE Keeping
  BY <1>2, <1>3 DEF Keeping, Stays, FindBfdSession
<1>4. ASSUME NEW id \in Ids, NEW r \in Req, Creating(id, r)
      PROVE  /\ \A a, b \in Ids : Live(a)' /\ Live(b)' /\ bfdsSess'[a].ip = bfdsSess'[b].ip => a = b
             /\ \A ip \in BfdPeers : FindBfdSession(ip)' = IF bfdsByIp'[ip] = 0 THEN {} ELSE {bfdsByIp'[ip]}
  <2>1. /\ FindBfdSession(r.ip) = {} /\ r.ip \in BfdPeers /\ id # 0
        /\ \A ip \in BfdPeers : bfdsByIp'[ip] = IF ip = r.ip THEN id ELSE bfdsByIp[ip]
    BY <1>0, <1>1, <1>4 DEF Creating, Req, Ids
  <2>2. /\ ~Live(id) /\ Live(id)' /\ bfdsSess'[id].ip = r.ip
        /\ \A i \in Ids : i # id => bfdsSess'[i] = bfdsSess[i] /\ Live(i)' = Live(i)
    BY <1>4 DEF Creating, Created, Live
  <2>3. \A i \in Ids : Live(i) => bfdsSess[i].ip # r.ip
    BY <2>1 DEF FindBfdSession
  <2>4. \A a, b \in Ids : Live(a)' /\ Live(b)' /\ bfdsSess'[a].ip = bfdsSess'[b].ip => a = b
    BY <1>2, <2>2, <2>3
  <2>5. \A ip \in BfdPeers : FindBfdSession(ip)' = IF ip = r.ip THEN {id} ELSE FindBfdSession(ip)
    BY <2>2, <2>3 DEF FindBfdSession
  <2> QED  BY <1>2, <2>1, <2>4, <2>5
<1>5. ASSUME NEW id \in Ids, Removing(id)
      PROVE  /\ \A a, b \in Ids : Live(a)' /\ Live(b)' /\ bfdsSess'[a].ip = bfdsSess'[b].ip => a = b
             /\ \A ip \in BfdPeers : FindBfdSession(ip)' = IF bfdsByIp'[ip] = 0 THEN {} ELSE {bfdsByIp'[ip]}
  <2>1. /\ Live(id) /\ ~Live(id)' /\ bfdsByIp' = ForgetIp(bfdsSess[id].ip)
        /\ \A i \in Ids : i # id => bfdsSess'[i] = bfdsSess[i] /\ Live(i)' = Live(i)
    BY <1>5 DEF Removing, Removed, Live
  <2>2. \A ip \in BfdPeers : bfdsByIp'[ip] = IF ip = bfdsSess[id].ip THEN 0 ELSE bfdsByIp[ip]
    BY <1>0, <2>1 DEF ForgetIp
  <2>3. \A a, b \in Ids : Live(a)' /\ Live(b)' /\ bfdsSess'[a].ip = bfdsSess'[b].ip => a = b
    BY <1>2, <2>1
  <2>4. \A ip \in BfdPeers : FindBfdSession(ip)' = IF ip = bfdsSess[id].ip THEN {} ELSE FindBfdSession(ip)
    BY <1>2, <2>1 DEF FindBfdSession
  <2> QED  BY <1>2, <2>2, <2>3, <2>4
<1> QED  BY <1>3, <1>4, <1>5 DEF TableChange

(* The sessions of a parameter set are counted. *)
UsersOf(n) == {id \in Ids : Live(id) /\ bfdsSess[id].param = n}
LEMMA UsersFinite == ASSUME BfdsConstants PROVE \A S : S \subseteq Ids => IsFiniteSet(S) /\ Cardinality(S) \in Nat
<1>1. IsFiniteSet(Ids)
  BY FS_Interval DEF Ids, BfdsConstants
<1> QED  BY <1>1, FS_Subset, FS_CardinalityType

LEMMA CountStep ==
  ASSUME BfdsConstants, Typed, NamesExist, ParamCountsSessions, TableChange, NotesKept
  PROVE  NamesExist' /\ ParamCountsSessions'
<1>1. SUFFICES ASSUME "paramDeleted" \notin bfdsEvents'.past
      PROVE  /\ bfdsParams'[Default] # NoParam
             /\ \A id \in Ids : Live(id)' => bfdsParams'[bfdsSess'[id].param] # NoParam
             /\ \A n \in AllParams : bfdsParams'[n] # NoParam => bfdsParams'[n] = Cardinality(UsersOf(n)')
  BY DEF NamesExist, ParamCountsSessions, UsersOf
<1>2. /\ bfdsParams[Default] # NoParam
      /\ \A id \in Ids : Live(id) => bfdsParams[bfdsSess[id].param] # NoParam
      /\ \A n \in AllParams : bfdsParams[n] # NoParam => bfdsParams[n] = Cardinality(UsersOf(n))
  BY <1>1 DEF NamesExist, ParamCountsSessions, NotesKept, UsersOf
<1>3. /\ bfdsParams \in [AllParams -> Int] /\ NoParam \in Int /\ NoParam < 0 /\ Default \in AllParams
      /\ \A id \in Ids : Live(id) => bfdsSess[id].param \in AllParams
  <2>1. \A id \in Ids : Live(id) => bfdsSess[id].param \in AllParams
    BY LiveIsSess DEF Typed, Sess
  <2> QED  BY <2>1 DEF Typed, BfdsTypeOK, NoParam, AllParams
<1>4. \A n : /\ IsFiniteSet(UsersOf(n)) /\ Cardinality(UsersOf(n)) \in Nat
  BY UsersFinite DEF UsersOf
<1>5. CASE Keeping
  <2>1. /\ \A id \in Ids : Live(id)' = Live(id) /\ (Live(id) => bfdsSess'[id].param = bfdsSess[id].param)
        /\ \A n : UsersOf(n)' = UsersOf(n)
    BY <1>5 DEF Keeping, Stays, UsersOf
  <2>2. CASE UNCHANGED bfdsParams
    BY <1>2, <2>1, <2>2
  <2>3. CASE Renaming
    <3>1. PICK n \in BfdParams, create \in BOOLEAN : ProcessSessionParam(n, create)
      BY <2>3 DEF Renaming
    <3>2. create
      <4>1. SUFFICES ASSUME ~create PROVE FALSE
        OBVIOUS
      <4>2. BfdsEvent({"paramDeleted"}) /\ {"paramDeleted"} \in SUBSET Notes
        BY <3>1, <4>1 DEF ProcessSessionParam, Notes
      <4> QED  BY <1>1, <4>2, EventTyped DEF Typed
    <3>3. n \in AllParams /\ n # Default /\ bfdsParams[n] = NoParam /\ bfdsParams' = [bfdsParams EXCEPT ![n] = 0]
      BY <3>1, <3>2 DEF ProcessSessionParam, AllParams
    <3>4. \A m \in AllParams : bfdsParams'[m] = IF m = n THEN 0 ELSE bfdsParams[m]
      BY <1>3, <3>3
    <3>5. UsersOf(n) = {}
      BY <1>2, <3>3 DEF UsersOf
    <3>6. Cardinality(UsersOf(n)) = 0
      BY <3>5, FS_EmptySet
    <3> QED  BY <1>2, <1>3, <2>1, <3>3, <3>4, <3>6
  <2>4. ASSUME NEW id \in Ids PROVE (\A r \in Req : ~Creating(id, r)) /\ ~Removing(id)
    BY <1>5 DEF Keeping, Stays, Creating, Created, Removing, Removed
  <2> QED  BY <2>2, <2>3, <2>4 DEF TableChange
<1>6. ASSUME NEW id \in Ids, NEW r \in Req, Creating(id, r)
      PROVE  /\ bfdsParams'[Default] # NoParam
             /\ \A i \in Ids : Live(i)' => bfdsParams'[bfdsSess'[i].param] # NoParam
             /\ \A n \in AllParams : bfdsParams'[n] # NoParam => bfdsParams'[n] = Cardinality(UsersOf(n)')
  <2>1. PICK p \in AllParams : p = ParamUsed(r.param) /\ bfdsParams[p] # NoParam
    BY <1>2, <1>3 DEF ParamUsed, Req
  <2>2. /\ ~Live(id) /\ Live(id)' /\ bfdsSess'[id].param = p
        /\ \A i \in Ids : i # id => bfdsSess'[i] = bfdsSess[i] /\ Live(i)' = Live(i)
    BY <1>6, <2>1 DEF Creating, Created, Live
  <2>3. bfdsParams' = [bfdsParams EXCEPT ![p] = @ + 1]
    BY <1>6, <2>1 DEF Creating, CountsSession
  <2>4. \A n \in AllParams : bfdsParams'[n] = IF n = p THEN bfdsParams[p] + 1 ELSE bfdsParams[n]
    BY <1>3, <2>1, <2>3
  <2>5. /\ UsersOf(p)' = UsersOf(p) \cup {id} /\ id \notin UsersOf(p)
        /\ \A n : n # p => UsersOf(n)' = UsersOf(n)
    BY <2>2 DEF UsersOf
  <2>6. Cardinality(UsersOf(p)') = Cardinality(UsersOf(p)) + 1
    BY <1>4, <2>5, FS_AddElement
  <2>7. bfdsParams'[p] = Cardinality(UsersOf(p)') /\ bfdsParams'[p] # NoParam
    BY <1>2, <1>3, <1>4, <2>1, <2>4, <2>6
  <2>8. \A n \in AllParams : bfdsParams'[n] = NoParam => bfdsParams[n] = NoParam /\ n # p
    BY <2>4, <2>7
  <2>9. \A i \in Ids : Live(i)' => bfdsSess'[i].param \in AllParams /\ bfdsParams'[bfdsSess'[i].param] # NoParam
    BY <1>2, <1>3, <2>1, <2>2, <2>7, <2>8
  <2>10. \A n \in AllParams : bfdsParams'[n] # NoParam => bfdsParams'[n] = Cardinality(UsersOf(n)')
    BY <1>2, <2>4, <2>5, <2>7
  <2> QED  BY <1>2, <1>3, <2>8, <2>9, <2>10
<1>7. ASSUME NEW id \in Ids, Removing(id)
      PROVE  /\ bfdsParams'[Default] # NoParam
             /\ \A i \in Ids : Live(i)' => bfdsParams'[bfdsSess'[i].param] # NoParam
             /\ \A n \in AllParams : bfdsParams'[n] # NoParam => bfdsParams'[n] = Cardinality(UsersOf(n)')
  <2>1. PICK p \in AllParams : p = bfdsSess[id].param /\ bfdsParams[p] # NoParam
    BY <1>3, <1>7 DEF Removing, Removed
  <2>2. /\ Live(id) /\ ~Live(id)'
        /\ \A i \in Ids : i # id => bfdsSess'[i] = bfdsSess[i] /\ Live(i)' = Live(i)
    BY <1>7 DEF Removing, Removed, Live
  <2>3. bfdsParams' = [bfdsParams EXCEPT ![p] = @ - 1] /\ id \in UsersOf(p)
    BY <1>7, <2>1, <2>2 DEF Removing, UsersOf
  <2>5. /\ UsersOf(p)' = UsersOf(p) \ {id}
        /\ \A n : n # p => UsersOf(n)' = UsersOf(n)
    BY <2>1, <2>2 DEF UsersOf
  <2>4. \A n \in AllParams : bfdsParams'[n] = IF n = p THEN bfdsParams[p] - 1 ELSE bfdsParams[n]
    BY <1>3, <2>1, <2>3
  <2>6. Cardinality(UsersOf(p)') = Cardinality(UsersOf(p)) - 1 /\ Cardinality(UsersOf(p)') \in Nat
    <3>1. IsFiniteSet(UsersOf(p)') /\ Cardinality(UsersOf(p)') = Cardinality(UsersOf(p)) - 1
      BY <1>4, <2>3, <2>5, FS_RemoveElement
    <3> QED  BY <3>1, FS_CardinalityType
  <2>7. bfdsParams'[p] = Cardinality(UsersOf(p)') /\ bfdsParams'[p] # NoParam
    BY <1>2, <1>3, <1>4, <2>1, <2>4, <2>6
  <2>8. \A n \in AllParams : bfdsParams'[n] = NoParam => bfdsParams[n] = NoParam
    BY <2>4, <2>7
  <2>9. \A i \in Ids : Live(i)' => bfdsSess'[i].param \in AllParams /\ bfdsParams'[bfdsSess'[i].param] # NoParam
    BY <1>2, <1>3, <2>2, <2>8
  <2>10. \A n \in AllParams : bfdsParams'[n] # NoParam => bfdsParams'[n] = Cardinality(UsersOf(n)')
    BY <1>2, <2>4, <2>5, <2>7
  <2> QED  BY <1>2, <1>3, <2>8, <2>9, <2>10
<1> QED  BY <1>5, <1>6, <1>7 DEF TableChange

-----------------------------------------------------------------------------
(* Requests and wishes *)

(* The main goroutine passes nothing on, and the handler does not take     *)
(* another request.                                                        *)
Quiet ==
  /\ UNCHANGED bfdsWant
  /\ bfdsMain' = bfdsMain \/ (bfdsMain.at # "send" /\ bfdsMain'.at # "send")
  /\ \/ bfdsMgr' = bfdsMgr \/ bfdsMgr'.at \notin {"take", "ask"}
     \/ bfdsMgr.at = "take" /\ bfdsMgr'.at = "ask" /\ bfdsMgr'.req = bfdsMgr.req

LEMMA QuietSteps ==
  ASSUME Typed, BfdsNext, \A r \in Req : ~ProcessSessionConfig(r), ~HandOver
  PROVE  Quiet
<1>1. ASSUME HandleNextHopChange PROVE Quiet
  <2> DEFINE waiting == {ip \in BfdPeers : bfdsPending[ip] # NoReq}
             g == [AtRest EXCEPT !.at = "next", !.todo = waiting]
  <2>1. g.at = "next"
    BY DEF AtRest
  <2>2. bfdsMain' = AtRest \/ bfdsMain' = g
    BY <1>1 DEF HandleNextHopChange
  <2> HIDE DEF g
  <2> QED  BY <1>1, <2>1, <2>2, RestIsGoroutine DEF Quiet, HandleNextHopChange
<1>2. ASSUME RouteLost PROVE Quiet
  BY <1>2 DEF RouteLost, Quiet
<1>3. ASSUME NEW n \in BfdParams, NEW create \in BOOLEAN, ProcessSessionParam(n, create) PROVE Quiet
  BY <1>3 DEF ProcessSessionParam, Quiet
<1>4. ASSUME MgrCreate PROVE Quiet
  <2>1. bfdsMgr' = AtRest \/ bfdsMgr' = [bfdsMgr EXCEPT !.at = "ask"]
    BY <1>4 DEF MgrCreate
  <2>2. [bfdsMgr EXCEPT !.at = "ask"].at = "ask" /\ [bfdsMgr EXCEPT !.at = "ask"].req = bfdsMgr.req
    BY DEF Typed, MoreTypes, Goroutine
  <2>3. UNCHANGED <<bfdsMain, bfdsWant>> /\ bfdsMgr.at = "take"
    BY <1>4 DEF MgrCreate
  <2> QED  BY <2>1, <2>2, <2>3, RestIsGoroutine DEF Quiet
<1>5. ASSUME MgrAnswered PROVE Quiet
  <2>1. (bfdsMgr' = AtRest \/ bfdsMgr' = Stuck) /\ UNCHANGED <<bfdsMain, bfdsWant>>
    BY <1>5 DEF MgrAnswered
  <2> QED  BY <2>1, RestIsGoroutine DEF Quiet
<1>6. ASSUME MgrDelete PROVE Quiet
  <2>1. bfdsMgr' \in {AtRest, Stuck, bfdsMgr} /\ UNCHANGED <<bfdsMain, bfdsWant>>
    BY <1>6 DEF MgrDelete, SessionDeleteHandler
  <2> QED  BY <2>1, RestIsGoroutine DEF Quiet
<1>7. ASSUME MgrAdminUp PROVE Quiet
  BY <1>7, RestIsGoroutine DEF Quiet, MgrAdminUp
<1>8. ASSUME MainCreate PROVE Quiet
  <2>1. PICK ip \in bfdsMain.todo :
          \/ bfdsMain' = [bfdsMain EXCEPT !.todo = @ \ {ip}]
          \/ bfdsMain' = [[bfdsMain EXCEPT !.todo = @ \ {ip}] EXCEPT !.at = "ask", !.req = bfdsPending[ip]]
    BY <1>8 DEF MainCreate
  <2>2. bfdsMain.at = "next" /\ UNCHANGED <<bfdsMgr, bfdsWant>> /\ bfdsMain \in Goroutine
    BY <1>8 DEF MainCreate, Typed, MoreTypes
  <2>3. bfdsMain'.at \in {"next", "ask"}
    BY <2>1, <2>2 DEF Goroutine
  <2> QED  BY <2>2, <2>3 DEF Quiet
<1>9. ASSUME MainAnswered PROVE Quiet
  <2>1. bfdsMain' = Stuck \/ bfdsMain' = [bfdsMain EXCEPT !.at = "next", !.req = NoReq]
    BY <1>9 DEF MainAnswered
  <2>2. bfdsMain.at = "ask" /\ UNCHANGED <<bfdsMgr, bfdsWant>> /\ bfdsMain \in Goroutine
    BY <1>9 DEF MainAnswered, Typed, MoreTypes
  <2>3. bfdsMain'.at \in {"next", "stuck"}
    BY <2>1, <2>2, RestIsGoroutine DEF Goroutine
  <2> QED  BY <2>2, <2>3 DEF Quiet
<1>10. ASSUME MainDone PROVE Quiet
  BY <1>10, RestIsGoroutine DEF MainDone, Quiet
<1>11. ASSUME \/ StartBfdSessionRxTx
              \/ \E id \in Ids : StartSessionRetryHandler(id) \/ \E ok \in BOOLEAN : StartSessionClient(id, ok)
       PROVE  Quiet
  BY <1>11, StartStep DEF Quiet
<1> QED  BY <1>1, <1>2, <1>3, <1>4, <1>5, <1>6, <1>7, <1>8, <1>9, <1>10, <1>11 DEF BfdsNext

(* What becomes of wishes when a request comes in.                         *)
LEMMA WishStep ==
  ASSUME Typed, NEW r \in Req, ProcessSessionConfig(r)
  PROVE  /\ bfdsMain.at = "idle" /\ bfdsMain'.at = "send" /\ bfdsMain'.req = r /\ bfdsMgr' = bfdsMgr
         /\ r.ip \in BfdPeers /\ r.owner \in BfdOwners
         /\ \A ip \in BfdPeers, o \in BfdOwners :
              (o \in bfdsWant'[ip]) = IF ip = r.ip /\ o = r.owner /\ r.op \in {"create", "delete"}
                                      THEN r.op = "create" ELSE o \in bfdsWant[ip]
<1>1. bfdsMain.at = "idle" /\ bfdsMain'.at = "send" /\ bfdsMain'.req = r /\ bfdsMgr' = bfdsMgr
  BY GoroutineMoves DEF ProcessSessionConfig
<1>2. r.ip \in BfdPeers /\ r.owner \in BfdOwners /\ bfdsWant \in [BfdPeers -> SUBSET BfdOwners]
  BY DEF Req, Typed, BfdsTypeOK
<1>3. CASE r.op = "create"
  BY <1>1, <1>2, <1>3 DEF ProcessSessionConfig
<1>4. CASE r.op = "delete"
  BY <1>1, <1>2, <1>4 DEF ProcessSessionConfig
<1>5. CASE r.op \notin {"create", "delete"}
  <2>1. bfdsWant' = bfdsWant
    BY <1>5 DEF ProcessSessionConfig
  <2> QED  BY <1>1, <1>2, <1>5, <2>1
<1> QED  BY <1>3, <1>4, <1>5

LEMMA PassStep ==
  ASSUME Typed, HandOver
  PROVE  /\ bfdsMain.at = "send" /\ bfdsMgr.at = "idle" /\ bfdsMgr.req = NoReq
         /\ bfdsMain'.at = "idle" /\ bfdsMain'.req = NoReq
         /\ bfdsMgr'.at = "take" /\ bfdsMgr'.req = bfdsMain.req /\ bfdsMain.req \in Req
         /\ UNCHANGED <<bfdsWant, bfdsPending, bfdsSess, bfdsEvents>>
<1>1. bfdsMain.req \in Req /\ bfdsMgr.req = NoReq /\ bfdsMain.at = "send" /\ bfdsMgr.at = "idle"
  BY DEF HandOver, Typed, GoroutinesSane, Busy
<1>2. bfdsMgr'.at = "take" /\ bfdsMgr'.req = bfdsMain.req
  BY <1>1, GoroutineMoves DEF HandOver
<1> QED  BY <1>1, <1>2, RestIsGoroutine DEF HandOver, bfdsTables

LEMMA WishesStep == ASSUME Typed, RequestsAreWishes, BfdsNext PROVE RequestsAreWishes'
<1>1. ASSUME NEW r \in Req, ProcessSessionConfig(r) PROVE RequestsAreWishes'
  BY <1>1, WishStep DEF RequestsAreWishes, Sends, Takes, Holds
<1>2. ASSUME HandOver PROVE RequestsAreWishes'
  BY <1>2, PassStep DEF RequestsAreWishes, Sends, Takes, Holds
<1>3. ASSUME Quiet PROVE RequestsAreWishes'
  <2> SUFFICES ASSUME NEW ip \in BfdPeers, NEW o \in BfdOwners
               PROVE  /\ Sends("create", ip, o)' => o \in bfdsWant'[ip]
                      /\ Sends("delete", ip, o)' => o \notin bfdsWant'[ip]
                      /\ Takes("delete", ip, o)' /\ o \in bfdsWant'[ip] => Sends("create", ip, o)'
                      /\ Takes("create", ip, o)' \/ Holds(bfdsMgr, "ask", "create", ip, o)' => o \in bfdsWant'[ip] \/ Sends("delete", ip, o)'
    BY DEF RequestsAreWishes
  <2>1. \A op : Sends(op, ip, o)' = Sends(op, ip, o)
    BY <1>3 DEF Quiet, Sends, Holds
  <2>2. Takes("delete", ip, o)' => Takes("delete", ip, o)
    BY <1>3 DEF Quiet, Takes, Holds
  <2>3. Takes("create", ip, o)' \/ Holds(bfdsMgr, "ask", "create", ip, o)' => Takes("create", ip, o) \/ Holds(bfdsMgr, "ask", "create", ip, o)
    BY <1>3 DEF Quiet, Takes, Holds
  <2> QED  BY <1>3, <2>1, <2>2, <2>3 DEF Quiet, RequestsAreWishes
<1> QED  BY <1>1, <1>2, <1>3, QuietSteps

(* A delete that finds a request of the same owner waiting is noted.       *)
LEMMA DeleteNoted ==
  ASSUME Typed, MgrDelete
  PROVE  /\ bfdsMgr.req \in Req /\ bfdsMgr.req.op = "delete" /\ bfdsMgr.at = "take"
         /\ bfdsMgr.req.ip \in BfdPeers /\ bfdsMgr.req.owner \in BfdOwners
         /\ UNCHANGED <<bfdsPending, bfdsMain, bfdsWant>>
         /\ StillWaits(bfdsMgr.req) => "waitingDeleted" \in bfdsEvents'.past
<1>1. bfdsMgr.req \in Req /\ bfdsMgr.req.op = "delete" /\ bfdsMgr.at = "take"
  BY DEF MgrDelete, Typed, GoroutinesSane, Busy
<1>2. ASSUME StillWaits(bfdsMgr.req) PROVE "waitingDeleted" \in bfdsEvents'.past
  <2>1. Note({"waitingDeleted"}) /\ {"waitingDeleted"} \in SUBSET Notes
    BY <1>2 DEF MgrDelete, Notes
  <2> QED  BY <2>1, NoteTyped DEF Typed
<1> QED  BY <1>1, <1>2 DEF MgrDelete, Req

LEMMA WantedStep ==
  ASSUME Typed, PendingSane, RequestsAreWishes, PendingIsWanted, BfdsNext, NotesKept
  PROVE  PendingIsWanted'
<1>0. SUFFICES ASSUME "waitingDeleted" \notin bfdsEvents'.past, NEW ip \in BfdPeers, bfdsPending'[ip] # NoReq
      PROVE  \/ bfdsPending'[ip].owner \in bfdsWant'[ip]
             \/ Sends("delete", ip, bfdsPending[ip].owner)' \/ Takes("delete", ip, bfdsPending[ip].owner)'
  BY DEF PendingIsWanted
<1> DEFINE Goal == \/ bfdsPending'[ip].owner \in bfdsWant'[ip]
                   \/ Sends("delete", ip, bfdsPending[ip].owner)' \/ Takes("delete", ip, bfdsPending[ip].owner)'
<1>1. bfdsPending[ip] # NoReq =>
        \/ bfdsPending[ip].owner \in bfdsWant[ip]
        \/ Sends("delete", ip, bfdsPending[ip].owner) \/ Takes("delete", ip, bfdsPending[ip].owner)
  BY <1>0 DEF NotesKept, PendingIsWanted
<1>2. bfdsPending[ip] # NoReq => bfdsPending[ip].owner \in BfdOwners /\ bfdsPending[ip].ip = ip
  BY DEF PendingSane, Typed, BfdsTypeOK, Req
<1>3. ASSUME NEW r \in Req, ProcessSessionConfig(r) PROVE Goal
  <2>1. UNCHANGED bfdsPending
    BY <1>3 DEF ProcessSessionConfig, bfdsTables
  <2> QED  BY <1>0, <1>1, <1>2, <1>3, <2>1, WishStep DEF Sends, Takes, Holds, Req
<1>4. ASSUME HandOver PROVE Goal
  BY <1>0, <1>1, <1>4, PassStep DEF Sends, Takes, Holds
<1>5. ASSUME Quiet, bfdsPending'[ip] = bfdsPending[ip],
             bfdsMgr' = bfdsMgr \/ bfdsMgr.req = NoReq \/ bfdsMgr.req.op # "delete"
      PROVE  Goal
  BY <1>0, <1>1, <1>5 DEF Quiet, Sends, Takes, Holds, NoReq
<1>6. ASSUME Quiet, MgrDelete PROVE Goal
  <2>1. /\ UNCHANGED <<bfdsPending, bfdsMain, bfdsWant>> /\ ~StillWaits(bfdsMgr.req)
    BY <1>0, <1>6, DeleteNoted
  <2>2. ~Takes("delete", ip, bfdsPending[ip].owner)
    BY <1>0, <2>1 DEF StillWaits, Takes, Holds
  <2> QED  BY <1>0, <1>1, <2>1, <2>2 DEF Sends, Holds
<1>7. ASSUME Quiet, MgrCreate \/ MgrAdminUp PROVE Goal
  BY <1>5, <1>7 DEF MgrCreate, MgrAdminUp, bfdsTables
<1>8. ASSUME Quiet, MgrAnswered PROVE Goal
  <2> DEFINE r == bfdsMgr.req
  <2>0. r \in Req /\ r.ip \in BfdPeers /\ r.owner \in BfdOwners /\ r.op = "create" /\ bfdsMgr.at = "ask" /\ UNCHANGED <<bfdsMain, bfdsWant>>
    BY <1>8 DEF MgrAnswered, Typed, GoroutinesSane, Busy, Req
  <2>1. CASE bfdsPending'[ip] = bfdsPending[ip]
    BY <1>5, <1>8, <2>0, <2>1
  <2>2. CASE bfdsPending'[ip] # bfdsPending[ip]
    <3>1. FinishCreate(r, FALSE)
      BY <1>8, <2>2 DEF MgrAnswered, bfdsTables
    <3>2. ip = r.ip /\ bfdsPending'[ip] = r
      BY <1>0, <2>0, <2>2, <3>1, FinishPending
    <3>3. r.owner \in bfdsWant[ip] \/ Sends("delete", ip, r.owner)
      BY <2>0, <3>2 DEF RequestsAreWishes, Holds
    <3> QED  BY <2>0, <3>2, <3>3 DEF Sends, Holds
  <2> QED  BY <2>1, <2>2
<1>9. ASSUME Quiet, MainCreate PROVE Goal
  <2>1. PICK i \in bfdsMain.todo : bfdsPending' = [bfdsPending EXCEPT ![i] = NoReq] \/ UNCHANGED bfdsPending
    BY <1>9 DEF MainCreate
  <2>2. bfdsPending'[ip] = bfdsPending[ip] /\ UNCHANGED bfdsMgr
    BY <1>0, <1>9, <2>1 DEF Typed, BfdsTypeOK, MainCreate
  <2> QED  BY <1>5, <1>9, <2>2
<1>10. ASSUME Quiet, MainAnswered PROVE Goal
  <2> DEFINE r == bfdsMain.req
  <2>0. r \in Req /\ r.ip \in BfdPeers /\ r.op = "create" /\ bfdsPending[r.ip] = r /\ UNCHANGED bfdsMgr
    <3>1. r \in Req /\ bfdsPending[r.ip] = r /\ UNCHANGED bfdsMgr
      BY <1>10 DEF MainAnswered, Typed, GoroutinesSane, Busy, PendingSane
    <3>2. r.ip \in BfdPeers /\ r # NoReq
      BY <3>1, NoneIsNone DEF Req
    <3> QED  BY <3>1, <3>2 DEF PendingSane
  <2>1. bfdsPending'[ip] = bfdsPending[ip]
    <3>1. CASE UNCHANGED bfdsTables
      BY <3>1 DEF bfdsTables
    <3>2. CASE FinishCreate(r, TRUE)
      BY <1>0, <2>0, <3>2, FinishPending
    <3> QED  BY <1>10, <3>1, <3>2 DEF MainAnswered
  <2> QED  BY <1>5, <1>10, <2>0, <2>1
<1>11. ASSUME Quiet, HandleNextHopChange \/ RouteLost \/ MainDone PROVE Goal
  BY <1>5, <1>11 DEF HandleNextHopChange, RouteLost, MainDone, bfdsTables
<1>12. ASSUME Quiet, NEW n \in BfdParams, NEW create \in BOOLEAN, ProcessSessionParam(n, create) PROVE Goal
  BY <1>5, <1>12 DEF ProcessSessionParam
<1>13. ASSUME Quiet, \/ StartBfdSessionRxTx
                     \/ \E id \in Ids : StartSessionRetryHandler(id) \/ \E ok \in BOOLEAN : StartSessionClient(id, ok)
       PROVE  Goal
  BY <1>5, <1>13, StartStep
<1> HIDE DEF Goal
<1>14. Goal
  BY <1>3, <1>4, <1>6, <1>7, <1>8, <1>9, <1>10, <1>11, <1>12, <1>13, QuietSteps DEF BfdsNext
<1> QED  BY <1>14 DEF Goal

-----------------------------------------------------------------------------
(* Owners and sessions *)

Has(g, ip, o) == g.req # NoReq /\ g.req.op \in {"create", "delete"} /\ g.req.ip = ip /\ g.req.owner = o
Queued(ip, o) == bfdsPending[ip] # NoReq /\ bfdsPending[ip].owner = o
LEMMA InHandIs ==
  \A ip, o : /\ InHand(ip, o) = (Has(bfdsMain, ip, o) \/ Has(bfdsMgr, ip, o) \/ Queued(ip, o))
             /\ InHand(ip, o)' = (Has(bfdsMain', ip, o) \/ Has(bfdsMgr', ip, o) \/ Queued(ip, o)')
BY DEF InHand, Has, Queued

Serves(ip, o) == \E id \in Ids : Live(id) /\ bfdsSess[id].ip = ip /\ o \in bfdsSess[id].owners
Unchanged(id) == bfdsSess'[id] = bfdsSess[id]
Registered(id, ip, o) ==
  /\ Live(id) /\ bfdsSess[id].ip = ip /\ Live(id)' /\ bfdsSess'[id].ip = ip
  /\ bfdsSess'[id].owners = bfdsSess[id].owners \cup {o}
  /\ \A i \in Ids : i # id => Unchanged(i)
(* A request that has to wait is kept, unless another one waits already.   *)
Waiting(r) ==
  /\ UNCHANGED bfdsSess
  /\ \A ip \in BfdPeers : ip # r.ip => bfdsPending'[ip] = bfdsPending[ip]
  /\ bfdsPending'[r.ip] # NoReq /\ bfdsPending'[r.ip] = IF bfdsPending[r.ip] = NoReq THEN r ELSE bfdsPending[r.ip]
  /\ bfdsPending'[r.ip] # r => "secondWaits" \in bfdsEvents'.past

LEMMA FinishIs ==
  ASSUME Typed, NEW r \in Req, NEW done \in BOOLEAN, FinishCreate(r, done)
  PROVE  \/ Waiting(r)
         \/ /\ \E id \in Ids : Created(id, r)
            /\ bfdsPending' = IF done THEN [bfdsPending EXCEPT ![r.ip] = NoReq] ELSE bfdsPending
<1>0. r.ip \in BfdPeers /\ r # NoReq /\ bfdsPending \in [BfdPeers -> {NoReq} \cup Req]
  BY NoneIsNone DEF Req, Typed, BfdsTypeOK
<1>1. CASE r.ip \notin bfdsRoutes
  <2>1. UNCHANGED bfdsSess /\ bfdsPending' = Waits(r)
    BY <1>1 DEF FinishCreate
  <2>2. ASSUME bfdsPending'[r.ip] # r PROVE "secondWaits" \in bfdsEvents'.past
    <3>1. bfdsPending[r.ip] # NoReq /\ bfdsPending[r.ip] # r
      BY <1>0, <2>1, <2>2 DEF Waits
    <3>2. Note({"secondWaits"}) /\ {"secondWaits"} \in SUBSET Notes
      BY <1>1, <3>1 DEF FinishCreate, Notes
    <3> QED  BY <3>2, NoteTyped DEF Typed
  <2> QED  BY <1>0, <2>1, <2>2 DEF Waiting, Waits
<1>2. CASE r.ip \in bfdsRoutes
  <2>1. \E id \in Ids : Created(id, r)
    BY <1>2, CreateStep DEF Creating
  <2> QED  BY <1>2, <2>1 DEF FinishCreate
<1> QED  BY <1>1, <1>2

LEMMA MgrCreateIs ==
  ASSUME Typed, MgrCreate
  PROVE  LET r == bfdsMgr.req IN
         /\ r \in Req /\ r.op = "create" /\ r.ip \in BfdPeers /\ r.owner \in BfdOwners
         /\ bfdsMgr.at = "take" /\ UNCHANGED <<bfdsPending, bfdsMain, bfdsWant>>
         /\ \/ bfdsMgr'.req = NoReq /\ \E id \in Ids : Registered(id, r.ip, r.owner)
            \/ bfdsMgr'.req = r /\ UNCHANGED bfdsSess
<1> DEFINE r == bfdsMgr.req
<1>1. r \in Req /\ r.op = "create" /\ r.ip \in BfdPeers /\ r.owner \in BfdOwners
  BY DEF MgrCreate, Typed, GoroutinesSane, Busy, Req
<1>2. bfdsMgr.at = "take" /\ UNCHANGED <<bfdsPending, bfdsMain, bfdsWant>>
  BY DEF MgrCreate
<1>3. ASSUME NEW id \in FindBfdSession(r.ip), bfdsSess' = Register(id, r.owner) PROVE \E i \in Ids : Registered(i, r.ip, r.owner)
  BY <1>1, <1>3, RegisterStep DEF Registered, Unchanged, Stays
<1>4. [bfdsMgr EXCEPT !.at = "ask"].req = r
  BY DEF Typed, MoreTypes, Goroutine
<1> QED  BY <1>1, <1>2, <1>3, <1>4, RestIsGoroutine DEF MgrCreate

LEMMA MgrAnsweredIs ==
  ASSUME Typed, MgrAnswered
  PROVE  LET r == bfdsMgr.req IN
         /\ r \in Req /\ r.op = "create" /\ r.ip \in BfdPeers /\ r.owner \in BfdOwners
         /\ bfdsMgr.at = "ask" /\ bfdsMgr'.req = NoReq /\ UNCHANGED <<bfdsMain, bfdsWant>>
         /\ \/ bfdsMgr' = Stuck /\ UNCHANGED <<bfdsSess, bfdsPending>>
            \/ Waiting(r)
            \/ UNCHANGED bfdsPending /\ \E id \in Ids : Created(id, r)
<1> DEFINE r == bfdsMgr.req
<1>1. r \in Req /\ r.op = "create" /\ r.ip \in BfdPeers /\ r.owner \in BfdOwners
  BY DEF MgrAnswered, Typed, GoroutinesSane, Busy, Req
<1>2. bfdsMgr.at = "ask" /\ UNCHANGED <<bfdsMain, bfdsWant>> /\ (bfdsMgr' = Stuck \/ bfdsMgr' = AtRest)
  BY DEF MgrAnswered
<1>3. CASE bfdsMgr' = Stuck /\ UNCHANGED bfdsTables
  BY <1>1, <1>2, <1>3, RestIsGoroutine DEF bfdsTables
<1>4. CASE FinishCreate(r, FALSE)
  BY <1>1, <1>2, <1>4, FinishIs, RestIsGoroutine
<1> QED  BY <1>3, <1>4 DEF MgrAnswered

(* The main goroutine does for the request r that waits under ip ...       *)
LEMMA MainCreateIs ==
  ASSUME Typed, PendingSane, MainCreate
  PROVE  \E ip \in BfdPeers :
         LET r == bfdsPending[ip] IN
         /\ r \in Req /\ r # NoReq /\ r.op = "create" /\ r.ip = ip /\ r.owner \in BfdOwners
         /\ bfdsMain.req = NoReq /\ UNCHANGED <<bfdsMgr, bfdsWant>>
         /\ \/ /\ bfdsMain'.req = NoReq /\ bfdsPending' = [bfdsPending EXCEPT ![ip] = NoReq]
               /\ \E id \in Ids : Registered(id, ip, r.owner)
            \/ bfdsMain'.req = r /\ UNCHANGED <<bfdsSess, bfdsPending>>
<1>0. bfdsMain \in Goroutine /\ bfdsMain.at = "next" /\ bfdsMain.req = NoReq /\ UNCHANGED <<bfdsMgr, bfdsWant>>
  BY DEF MainCreate, Typed, MoreTypes, GoroutinesSane, Busy
<1>1. PICK ip \in bfdsMain.todo :
        \/ \E id \in FindBfdSession(ip) :
             /\ bfdsSess' = Register(id, bfdsPending[ip].owner)
             /\ bfdsPending' = [bfdsPending EXCEPT ![ip] = NoReq] /\ bfdsMain' = [bfdsMain EXCEPT !.todo = @ \ {ip}]
        \/ /\ bfdsMain' = [[bfdsMain EXCEPT !.todo = @ \ {ip}] EXCEPT !.at = "ask", !.req = bfdsPending[ip]]
           /\ UNCHANGED <<bfdsSess, bfdsPending>>
  BY DEF MainCreate
<1> DEFINE r == bfdsPending[ip]
<1>2. ip \in BfdPeers /\ r \in Req /\ r # NoReq /\ r.op = "create" /\ r.ip = ip /\ r.owner \in BfdOwners
  <2>1. ip \in BfdPeers /\ r # NoReq
    BY <1>0 DEF Goroutine, PendingSane
  <2>2. r \in Req
    BY <2>1 DEF Typed, BfdsTypeOK
  <2> QED  BY <2>1, <2>2 DEF PendingSane, Req
<1>3. ASSUME NEW id \in FindBfdSession(ip), bfdsSess' = Register(id, r.owner) PROVE \E i \in Ids : Registered(i, ip, r.owner)
  BY <1>2, <1>3, RegisterStep DEF Registered, Unchanged, Stays
<1>4. /\ [bfdsMain EXCEPT !.todo = @ \ {ip}].req = NoReq
      /\ [[bfdsMain EXCEPT !.todo = @ \ {ip}] EXCEPT !.at = "ask", !.req = r].req = r
  BY <1>0 DEF Goroutine
<1> HIDE DEF r
<1>5. \/ /\ bfdsMain'.req = NoReq /\ bfdsPending' = [bfdsPending EXCEPT ![ip] = NoReq]
         /\ \E id \in Ids : Registered(id, ip, r.owner)
      \/ bfdsMain'.req = r /\ UNCHANGED <<bfdsSess, bfdsPending>>
  BY <1>1, <1>3, <1>4 DEF r
<1> QED  BY <1>0, <1>2, <1>5 DEF r

LEMMA MainAnsweredIs ==
  ASSUME Typed, PendingSane, MainAnswered
  PROVE  LET r == bfdsMain.req IN
         /\ r \in Req /\ r.op = "create" /\ r.ip \in BfdPeers /\ r.owner \in BfdOwners
         /\ bfdsPending[r.ip] = r /\ r # NoReq /\ bfdsMain'.req = NoReq /\ UNCHANGED <<bfdsMgr, bfdsWant>>
         /\ \/ UNCHANGED <<bfdsSess, bfdsPending>>
            \/ Waiting(r)
            \/ bfdsPending' = [bfdsPending EXCEPT ![r.ip] = NoReq] /\ \E id \in Ids : Created(id, r)
<1> DEFINE r == bfdsMain.req
<1>1. r \in Req /\ bfdsPending[r.ip] = r /\ UNCHANGED <<bfdsMgr, bfdsWant>> /\ bfdsMain \in Goroutine
  BY DEF MainAnswered, Typed, MoreTypes, GoroutinesSane, Busy, PendingSane
<1>2. r.ip \in BfdPeers /\ r.owner \in BfdOwners /\ r # NoReq
  BY <1>1, NoneIsNone DEF Req
<1>3. r.op = "create"
  BY <1>1, <1>2 DEF PendingSane
<1>4. CASE bfdsMain' = Stuck /\ UNCHANGED bfdsTables
  BY <1>1, <1>2, <1>3, <1>4, RestIsGoroutine DEF bfdsTables
<1>5. CASE FinishCreate(r, TRUE) /\ bfdsMain' = [bfdsMain EXCEPT !.at = "next", !.req = NoReq]
  <2>1. bfdsMain'.req = NoReq
    BY <1>1, <1>5 DEF Goroutine
  <2> QED  BY <1>1, <1>2, <1>3, <1>5, <2>1, FinishIs
<1> QED  BY <1>4, <1>5 DEF MainAnswered

(* The steps that leave sessions, waiting requests and wishes alone.       *)
Passive ==
  /\ SameSessions /\ UNCHANGED <<bfdsPending, bfdsWant>>
  /\ bfdsMain'.req = bfdsMain.req
  /\ bfdsMgr' = bfdsMgr \/ (bfdsMgr.req.op = "up" /\ bfdsMgr'.req = NoReq)
LEMMA PassiveSteps ==
  ASSUME Typed, BfdsNext, \A r \in Req : ~ProcessSessionConfig(r), ~HandOver,
         ~MgrCreate, ~MgrAnswered, ~MgrDelete, ~MainCreate, ~MainAnswered
  PROVE  Passive
<1>1. ASSUME UNCHANGED bfdsSess PROVE SameSessions
  BY <1>1 DEF SameSessions, Stays, Live
<1>2. ASSUME HandleNextHopChange PROVE Passive
  <2> DEFINE waiting == {ip \in BfdPeers : bfdsPending[ip] # NoReq}
             g == [AtRest EXCEPT !.at = "next", !.todo = waiting]
  <2>1. g.req = NoReq
    BY DEF AtRest
  <2>2. bfdsMain' = AtRest \/ bfdsMain' = g
    BY <1>2 DEF HandleNextHopChange
  <2> HIDE DEF g
  <2>3. bfdsMain.req = NoReq
    BY <1>2 DEF HandleNextHopChange, Typed, GoroutinesSane, Busy
  <2> QED  BY <1>1, <1>2, <2>1, <2>2, <2>3, RestIsGoroutine DEF Passive, HandleNextHopChange, bfdsTables
<1>3. ASSUME RouteLost PROVE Passive
  BY <1>1, <1>3 DEF RouteLost, Passive, bfdsTables
<1>4. ASSUME NEW n \in BfdParams, NEW create \in BOOLEAN, ProcessSessionParam(n, create) PROVE Passive
  BY <1>1, <1>4 DEF ProcessSessionParam, Passive
<1>5. ASSUME MgrAdminUp PROVE Passive
  BY <1>1, <1>5, RestIsGoroutine DEF MgrAdminUp, Passive, bfdsTables
<1>6. ASSUME MainDone PROVE Passive
  <2>1. bfdsMain.req = NoReq
    BY <1>6 DEF MainDone, Typed, GoroutinesSane, Busy
  <2> QED  BY <1>1, <1>6, <2>1, RestIsGoroutine DEF MainDone, Passive, bfdsTables
<1>7. ASSUME \/ StartBfdSessionRxTx
             \/ \E id \in Ids : StartSessionRetryHandler(id) \/ \E ok \in BOOLEAN : StartSessionClient(id, ok)
      PROVE  Passive
  BY <1>7, StartStep DEF Passive
<1> QED  BY <1>2, <1>3, <1>4, <1>5, <1>6, <1>7 DEF BfdsNext

LEMMA MgrDeleteIs ==
  ASSUME Typed, MgrDelete
  PROVE  LET r == bfdsMgr.req IN
         \/ UNCHANGED <<bfdsSess, bfdsMgr>>
         \/ bfdsMgr'.req = NoReq /\ UNCHANGED bfdsSess /\ \A id \in Ids : Live(id) => bfdsSess[id].ip # r.ip
         \/ /\ bfdsMgr'.req = NoReq
            /\ \E id \in Ids :
                 /\ Live(id) /\ bfdsSess[id].ip = r.ip /\ \A i \in Ids : i # id => Unchanged(i)
                 /\ \/ Live(id)' /\ bfdsSess'[id].ip = r.ip /\ bfdsSess'[id].owners = bfdsSess[id].owners \ {r.owner}
                    \/ ~Live(id)' /\ bfdsSess[id].owners \ {r.owner} = {}
<1> DEFINE r == bfdsMgr.req
<1>1. r.owner \in BfdOwners
  BY DeleteNoted
<1>2. ASSUME NEW id \in FindBfdSession(r.ip), SessionDeleteHandler(id, r.owner)
      PROVE  \/ UNCHANGED <<bfdsSess, bfdsMgr>>
             \/ /\ bfdsMgr'.req = NoReq
                /\ Live(id) /\ bfdsSess[id].ip = r.ip /\ \A i \in Ids : i # id => Unchanged(i)
                /\ \/ Live(id)' /\ bfdsSess'[id].ip = r.ip /\ bfdsSess'[id].owners = bfdsSess[id].owners \ {r.owner}
                   \/ ~Live(id)' /\ bfdsSess[id].owners \ {r.owner} = {}
  <2>1. id \in Ids /\ Live(id) /\ bfdsSess[id].ip = r.ip
    BY DEF FindBfdSession
  <2> QED  BY <1>1, <1>2, <2>1, DeleteStep, RestIsGoroutine DEF Keeping, Stays, Removing, Removed, Unchanged
<1>3. CASE FindBfdSession(r.ip) = {} /\ bfdsMgr' = AtRest /\ UNCHANGED bfdsSess
  BY <1>3, RestIsGoroutine DEF FindBfdSession
<1>4. CASE \E id \in FindBfdSession(r.ip) : SessionDeleteHandler(id, r.owner)
  <2>1. FindBfdSession(r.ip) \subseteq Ids
    BY DEF FindBfdSession
  <2> QED  BY <1>2, <1>4, <2>1
<1> QED  BY <1>3, <1>4 DEF MgrDelete

(* Every owner that asked is served, or its request is under way.          *)
LEMMA ServedStep ==
  ASSUME Typed, PendingSane, RequestsAreWishes, OwnersAreServed, BfdsNext, NotesKept
  PROVE  OwnersAreServed'
<1>0. SUFFICES ASSUME "secondWaits" \notin bfdsEvents'.past, bfdsMgr' # Stuck,
                      NEW ip \in BfdPeers, NEW o \in BfdOwners, o \in bfdsWant'[ip], ~InHand(ip, o)'
               PROVE  Serves(ip, o)'
  BY DEF OwnersAreServed, Serves, FindBfdSession
<1>g. ~Has(bfdsMain', ip, o) /\ ~Has(bfdsMgr', ip, o) /\ ~Queued(ip, o)'
  BY <1>0, InHandIs
<1>1. ASSUME bfdsMgr # Stuck, o \in bfdsWant[ip] PROVE Serves(ip, o) \/ Has(bfdsMain, ip, o) \/ Has(bfdsMgr, ip, o) \/ Queued(ip, o)
  BY <1>0, <1>1, InHandIs DEF OwnersAreServed, NotesKept, Serves, FindBfdSession
<1>s. bfdsMgr = Stuck => bfdsMgr.at = "stuck" /\ bfdsMgr.req = NoReq
  BY RestIsGoroutine
<1>2. ASSUME Serves(ip, o), \A id \in Ids : Live(id) => Live(id)' /\ bfdsSess'[id].ip = bfdsSess[id].ip /\ bfdsSess[id].owners \subseteq bfdsSess'[id].owners
      PROVE  Serves(ip, o)'
  BY <1>2 DEF Serves
<1>3. ASSUME NEW r \in Req, ProcessSessionConfig(r) PROVE Serves(ip, o)'
  <2>1. /\ bfdsMain.at = "idle" /\ bfdsMain.req = NoReq /\ UNCHANGED <<bfdsSess, bfdsPending, bfdsMgr>>
        /\ r # NoReq
    BY <1>3, NoneIsNone DEF ProcessSessionConfig, bfdsTables, Typed, GoroutinesSane, Busy
  <2>2. o \in bfdsWant[ip]
    BY <1>0, <1>3, <1>g, <2>1, WishStep DEF Has
  <2>3. Serves(ip, o)
    BY <1>0, <1>1, <1>g, <2>1, <2>2 DEF Has, Queued
  <2> QED  BY <1>2, <2>1, <2>3 DEF Live
<1>4. ASSUME HandOver PROVE Serves(ip, o)'
  <2>1. Serves(ip, o)
    BY <1>0, <1>1, <1>4, <1>g, <1>s, PassStep DEF Has, Queued
  <2> QED  BY <1>2, <1>4, <2>1, PassStep DEF Live
<1>5. ASSUME MgrCreate PROVE Serves(ip, o)'
  <2> DEFINE r == bfdsMgr.req
  <2>1. /\ r \in Req /\ r.op = "create" /\ r.ip \in BfdPeers /\ r.owner \in BfdOwners
        /\ bfdsMgr.at = "take" /\ UNCHANGED <<bfdsPending, bfdsMain, bfdsWant>>
        /\ \/ bfdsMgr'.req = NoReq /\ \E id \in Ids : Registered(id, r.ip, r.owner)
           \/ bfdsMgr'.req = r /\ UNCHANGED bfdsSess
    BY <1>5, MgrCreateIs
  <2>2. Serves(ip, o) \/ Has(bfdsMgr, ip, o)
    BY <1>0, <1>1, <1>g, <1>s, <2>1 DEF Queued
  <2>3. CASE bfdsMgr'.req = r /\ UNCHANGED bfdsSess
    BY <1>2, <1>g, <2>2, <2>3 DEF Has, Live
  <2>4. ASSUME NEW id \in Ids, Registered(id, r.ip, r.owner) PROVE Serves(ip, o)'
    <3>1. CASE Serves(ip, o)
      BY <1>2, <2>4, <3>1 DEF Registered, Unchanged, Live
    <3>2. CASE Has(bfdsMgr, ip, o)
      BY <2>4, <3>2 DEF Registered, Serves, Has
    <3> QED  BY <2>2, <3>1, <3>2
  <2> QED  BY <2>1, <2>3, <2>4
<1>6. ASSUME MgrAnswered PROVE Serves(ip, o)'
  <2> DEFINE r == bfdsMgr.req
  <2>1. /\ r \in Req /\ r.op = "create" /\ r.ip \in BfdPeers /\ r.owner \in BfdOwners
        /\ bfdsMgr.at = "ask" /\ UNCHANGED <<bfdsMain, bfdsWant>>
        /\ Waiting(r) \/ (UNCHANGED bfdsPending /\ \E id \in Ids : Created(id, r))
    BY <1>0, <1>6, MgrAnsweredIs
  <2>2. Serves(ip, o) \/ Has(bfdsMgr, ip, o) \/ Queued(ip, o)
    BY <1>0, <1>1, <1>g, <1>s, <2>1
  <2>3. CASE Waiting(r)
    <3>1. bfdsPending'[r.ip] = r /\ r # NoReq /\ UNCHANGED bfdsSess
      BY <1>0, <2>1, <2>3, NoneIsNone DEF Waiting
    <3>2. ~Has(bfdsMgr, ip, o)
      BY <1>g, <3>1 DEF Has, Queued
    <3>3. ~Queued(ip, o)
      BY <1>g, <2>3, <3>1 DEF Waiting, Queued
    <3> QED  BY <1>2, <2>2, <3>1, <3>2, <3>3 DEF Live
  <2>4. ASSUME NEW id \in Ids, Created(id, r), UNCHANGED bfdsPending PROVE Serves(ip, o)'
    <3>0. ~Queued(ip, o)
      BY <1>g, <2>4 DEF Queued
    <3>1. CASE Serves(ip, o)
      BY <1>2, <2>4, <3>1 DEF Created, Live
    <3>2. CASE Has(bfdsMgr, ip, o)
      BY <2>4, <3>2 DEF Created, Serves, Has
    <3> QED  BY <2>2, <3>0, <3>1, <3>2
  <2> QED  BY <2>1, <2>3, <2>4
<1>7. ASSUME MgrDelete PROVE Serves(ip, o)'
  <2> DEFINE r == bfdsMgr.req
  <2>1. r \in Req /\ r.op = "delete" /\ bfdsMgr.at = "take" /\ UNCHANGED <<bfdsPending, bfdsMain, bfdsWant>> /\ r # NoReq
    BY <1>7, DeleteNoted, NoneIsNone
  <2>2. ~(r.ip = ip /\ r.owner = o)
    <3>1. SUFFICES ASSUME r.ip = ip, r.owner = o PROVE FALSE
      OBVIOUS
    <3>2. Sends("create", ip, o)
      BY <1>0, <2>1, <3>1 DEF RequestsAreWishes, Takes, Holds
    <3>3. Has(bfdsMain, ip, o)
      BY <3>2, NoneIsNone DEF Sends, Holds, Has, Typed, GoroutinesSane, Busy
    <3> QED  BY <1>g, <2>1, <3>3
  <2>3. Serves(ip, o)
    BY <1>0, <1>1, <1>g, <1>s, <2>1, <2>2 DEF Has, Queued
  <2>4. CASE UNCHANGED bfdsSess
    BY <1>2, <2>3, <2>4 DEF Live
  <2>5. ASSUME NEW id \in Ids, Live(id), bfdsSess[id].ip = r.ip, \A i \in Ids : i # id => Unchanged(i),
               \/ Live(id)' /\ bfdsSess'[id].ip = r.ip /\ bfdsSess'[id].owners = bfdsSess[id].owners \ {r.owner}
               \/ ~Live(id)' /\ bfdsSess[id].owners \ {r.owner} = {}
        PROVE  Serves(ip, o)'
    <3>1. PICK i \in Ids : Live(i) /\ bfdsSess[i].ip = ip /\ o \in bfdsSess[i].owners
      BY <2>3 DEF Serves
    <3>2. CASE i # id
      BY <2>5, <3>1, <3>2 DEF Serves, Unchanged, Live
    <3>3. CASE i = id
      BY <2>2, <2>5, <3>1, <3>3 DEF Serves
    <3> QED  BY <3>2, <3>3
  <2> QED  BY <1>7, <2>4, <2>5, MgrDeleteIs
<1>8. ASSUME MainCreate PROVE Serves(ip, o)'
  <2>1. PICK w \in BfdPeers :
         LET r == bfdsPending[w] IN
         /\ r \in Req /\ r # NoReq /\ r.op = "create" /\ r.ip = w /\ r.owner \in BfdOwners
         /\ bfdsMain.req = NoReq /\ UNCHANGED <<bfdsMgr, bfdsWant>>
         /\ \/ /\ bfdsMain'.req = NoReq /\ bfdsPending' = [bfdsPending EXCEPT ![w] = NoReq]
               /\ \E id \in Ids : Registered(id, w, r.owner)
            \/ bfdsMain'.req = r /\ UNCHANGED <<bfdsSess, bfdsPending>>
    BY <1>8, MainCreateIs
  <2>2. Serves(ip, o) \/ Queued(ip, o)
    BY <1>0, <1>1, <1>g, <2>1 DEF Has
  <2>3. CASE UNCHANGED <<bfdsSess, bfdsPending>>
    BY <1>2, <1>g, <2>2, <2>3 DEF Queued, Live
  <2>4. ASSUME NEW id \in Ids, Registered(id, w, bfdsPending[w].owner), bfdsPending' = [bfdsPending EXCEPT ![w] = NoReq]
        PROVE  Serves(ip, o)'
    <3>1. CASE Serves(ip, o)
      BY <1>2, <2>4, <3>1 DEF Registered, Unchanged, Live
    <3>2. CASE Queued(ip, o)
      <4>1. w = ip
        BY <1>g, <2>4, <3>2 DEF Queued, Typed, BfdsTypeOK
      <4> QED  BY <2>4, <3>2, <4>1 DEF Registered, Serves, Queued
    <3> QED  BY <2>2, <3>1, <3>2
  <2> QED  BY <2>1, <2>3, <2>4
<1>9. ASSUME MainAnswered PROVE Serves(ip, o)'
  <2> DEFINE r == bfdsMain.req
  <2>1. /\ r \in Req /\ r.op = "create" /\ r.ip \in BfdPeers /\ r.owner \in BfdOwners
        /\ bfdsPending[r.ip] = r /\ r # NoReq /\ bfdsMain'.req = NoReq /\ UNCHANGED <<bfdsMgr, bfdsWant>>
        /\ \/ UNCHANGED <<bfdsSess, bfdsPending>>
           \/ Waiting(r)
           \/ bfdsPending' = [bfdsPending EXCEPT ![r.ip] = NoReq] /\ \E id \in Ids : Created(id, r)
    BY <1>9, MainAnsweredIs
  <2>2. Serves(ip, o) \/ Queued(ip, o)
    BY <1>0, <1>1, <1>g, <2>1 DEF Has, Queued
  <2>3. CASE UNCHANGED bfdsSess /\ \A i \in BfdPeers : bfdsPending'[i] = bfdsPending[i]
    BY <1>2, <1>g, <2>2, <2>3 DEF Queued, Live
  <2>4. Waiting(r) => UNCHANGED bfdsSess /\ \A i \in BfdPeers : bfdsPending'[i] = bfdsPending[i]
    BY <2>1 DEF Waiting
  <2>5. ASSUME NEW id \in Ids, Created(id, r), bfdsPending' = [bfdsPending EXCEPT ![r.ip] = NoReq] PROVE Serves(ip, o)'
    <3>1. CASE Serves(ip, o)
      BY <1>2, <2>5, <3>1 DEF Created, Live
    <3>2. CASE Queued(ip, o)
      <4>1. r.ip = ip
        BY <1>g, <2>1, <2>5, <3>2 DEF Queued, Typed, BfdsTypeOK
      <4> QED  BY <2>1, <2>5, <3>2, <4>1 DEF Created, Serves, Queued
    <3> QED  BY <2>2, <3>1, <3>2
  <2> QED  BY <2>1, <2>3, <2>4, <2>5
<1>10. ASSUME Passive PROVE Serves(ip, o)'
  <2>1. bfdsMgr = Stuck => bfdsMgr' = Stuck
    BY <1>10, RestIsGoroutine, NoneIsNone DEF Passive
  <2> QED  BY <1>0, <1>1, <1>2, <1>10, <1>g, <2>1 DEF Passive, SameSessions, Stays, Has, Queued
<1> QED  BY <1>3, <1>4, <1>5, <1>6, <1>7, <1>8, <1>9, <1>10, PassiveSteps

(* Nobody has a session without having asked. *)
LEMMA UnaskedStep ==
  ASSUME Typed, PendingSane, RequestsAreWishes, PendingIsWanted, OneSessionPerPeer, NobodyUnasked, BfdsNext, NotesKept
  PROVE  NobodyUnasked'
<1>0. SUFFICES ASSUME bfdsEvents'.past \cap {"waitingDeleted", "twice"} = {},
                      NEW k \in Ids, NEW ip, ip = bfdsSess'[k].ip, Live(k)', NEW o \in bfdsSess'[k].owners
               PROVE  o \in bfdsWant'[ip] \/ Has(bfdsMain', ip, o) \/ Has(bfdsMgr', ip, o) \/ Queued(ip, o)'
  BY InHandIs DEF NobodyUnasked
<1> DEFINE Goal == o \in bfdsWant'[ip] \/ Has(bfdsMain', ip, o) \/ Has(bfdsMgr', ip, o) \/ Queued(ip, o)'
<1>n. bfdsEvents.past \cap {"waitingDeleted", "twice"} = {}
  BY <1>0 DEF NotesKept
<1>1. ASSUME Live(k), bfdsSess[k].ip = ip, o \in bfdsSess[k].owners
      PROVE  o \in bfdsWant[ip] \/ Has(bfdsMain, ip, o) \/ Has(bfdsMgr, ip, o) \/ Queued(ip, o)
  BY <1>1, <1>n, InHandIs DEF NobodyUnasked
<1>2. ASSUME UNCHANGED bfdsSess PROVE Live(k) /\ bfdsSess[k].ip = ip /\ o \in bfdsSess[k].owners
  BY <1>0, <1>2 DEF Live
<1>t. ASSUME Live(k), bfdsSess[k].ip = ip, o \in bfdsSess[k].owners PROVE ip \in BfdPeers /\ o \in BfdOwners
  <2>1. bfdsSess[k] \in Sess
    BY <1>t, LiveIsSess DEF Typed
  <2> QED  BY <1>t, <2>1 DEF Sess
<1>w. ASSUME NEW i \in BfdPeers, bfdsPending[i] # NoReq
      PROVE  \/ bfdsPending[i].owner \in bfdsWant[i]
             \/ Sends("delete", i, bfdsPending[i].owner) \/ Takes("delete", i, bfdsPending[i].owner)
  BY <1>n, <1>w DEF PendingIsWanted
<1>3. ASSUME NEW r \in Req, ProcessSessionConfig(r) PROVE Goal
  <2>1. /\ bfdsMain.req = NoReq /\ UNCHANGED <<bfdsSess, bfdsPending, bfdsMgr>> /\ r # NoReq
    BY <1>3, NoneIsNone DEF ProcessSessionConfig, bfdsTables, Typed, GoroutinesSane, Busy
  <2>2. ip \in BfdPeers /\ o \in BfdOwners
    BY <1>2, <1>t, <2>1
  <2>3. o \in bfdsWant[ip] \/ Has(bfdsMgr, ip, o) \/ Queued(ip, o)
    BY <1>1, <1>2, <2>1 DEF Has
  <2>4. CASE Has(bfdsMgr, ip, o) \/ Queued(ip, o)
    BY <2>1, <2>4 DEF Has, Queued
  <2>5. CASE o \in bfdsWant[ip]
    BY <1>3, <2>1, <2>2, <2>5, WishStep DEF Has
  <2> QED  BY <2>3, <2>4, <2>5
<1>4. ASSUME HandOver PROVE Goal
  BY <1>1, <1>2, <1>4, PassStep DEF Has, Queued
<1>5. ASSUME MgrCreate PROVE Goal
  <2> DEFINE r == bfdsMgr.req
  <2>1. /\ r \in Req /\ r.op = "create" /\ r.ip \in BfdPeers /\ r.owner \in BfdOwners
        /\ bfdsMgr.at = "take" /\ UNCHANGED <<bfdsPending, bfdsMain, bfdsWant>>
        /\ \/ bfdsMgr'.req = NoReq /\ \E id \in Ids : Registered(id, r.ip, r.owner)
           \/ bfdsMgr'.req = r /\ UNCHANGED bfdsSess
    BY <1>5, MgrCreateIs
  <2>2. r.owner \in bfdsWant[r.ip] \/ Has(bfdsMain, r.ip, r.owner)
    <3>1. r.owner \in bfdsWant[r.ip] \/ Sends("delete", r.ip, r.owner)
      BY <2>1 DEF RequestsAreWishes, Takes, Holds
    <3> QED  BY <3>1, NoneIsNone DEF Sends, Holds, Has, Typed, GoroutinesSane, Busy
  <2>3. CASE bfdsMgr'.req = r /\ UNCHANGED bfdsSess
    BY <1>1, <1>2, <2>1, <2>3 DEF Has, Queued
  <2>4. ASSUME NEW id \in Ids, Registered(id, r.ip, r.owner) PROVE Goal
    <3>1. CASE ip = r.ip /\ o = r.owner
      BY <2>1, <2>2, <3>1
    <3>2. CASE ~(ip = r.ip /\ o = r.owner)
      <4>1. Live(k) /\ bfdsSess[k].ip = ip /\ o \in bfdsSess[k].owners
        BY <1>0, <2>4, <3>2 DEF Registered, Unchanged, Live
      <4> QED  BY <1>1, <2>1, <3>2, <4>1 DEF Has, Queued
    <3> QED  BY <3>1, <3>2
  <2> QED  BY <2>1, <2>3, <2>4
<1>6. ASSUME MgrAnswered PROVE Goal
  <2> DEFINE r == bfdsMgr.req
  <2>1. /\ r \in Req /\ r.op = "create" /\ r.ip \in BfdPeers /\ r.owner \in BfdOwners
        /\ bfdsMgr.at = "ask" /\ UNCHANGED <<bfdsMain, bfdsWant>>
        /\ \/ UNCHANGED <<bfdsSess, bfdsPending>>
           \/ Waiting(r)
           \/ UNCHANGED bfdsPending /\ \E id \in Ids : Created(id, r)
    BY <1>6, MgrAnsweredIs
  <2>2. r.owner \in bfdsWant[r.ip] \/ Has(bfdsMain, r.ip, r.owner)
    <3>1. r.owner \in bfdsWant[r.ip] \/ Sends("delete", r.ip, r.owner)
      BY <2>1 DEF RequestsAreWishes, Holds
    <3> QED  BY <3>1, NoneIsNone DEF Sends, Holds, Has, Typed, GoroutinesSane, Busy
  <2>3. CASE ip = r.ip /\ o = r.owner
    BY <2>1, <2>2, <2>3
  <2>4. CASE ~(ip = r.ip /\ o = r.owner)
    <3>1. Live(k) /\ bfdsSess[k].ip = ip /\ o \in bfdsSess[k].owners
      BY <1>0, <1>2, <2>1, <2>4 DEF Waiting, Created, Live
    <3>2. ip \in BfdPeers /\ (o \in bfdsWant[ip] \/ Has(bfdsMain, ip, o) \/ Queued(ip, o))
      BY <1>1, <1>t, <2>4, <3>1 DEF Has
    <3>3. Queued(ip, o) => Queued(ip, o)'
      BY <2>1, <3>2 DEF Queued, Waiting
    <3> QED  BY <2>1, <3>2, <3>3
  <2> QED  BY <2>3, <2>4
<1>7. ASSUME MgrDelete PROVE Goal
  <2> DEFINE r == bfdsMgr.req
  <2>1. r \in Req /\ r.op = "delete" /\ UNCHANGED <<bfdsPending, bfdsMain, bfdsWant>>
    BY <1>7, DeleteNoted
  <2>2. CASE UNCHANGED <<bfdsSess, bfdsMgr>>
    BY <1>1, <1>2, <2>1, <2>2 DEF Has, Queued
  <2>3. ASSUME Live(k), bfdsSess[k].ip = ip, o \in bfdsSess[k].owners, ~(ip = r.ip /\ o = r.owner) PROVE Goal
    BY <1>1, <2>1, <2>3 DEF Has, Queued
  <2>4. CASE UNCHANGED bfdsSess /\ \A id \in Ids : Live(id) => bfdsSess[id].ip # r.ip
    BY <1>2, <2>3, <2>4
  <2>5. ASSUME NEW id \in Ids, Live(id), bfdsSess[id].ip = r.ip, \A i \in Ids : i # id => Unchanged(i),
               \/ Live(id)' /\ bfdsSess'[id].ip = r.ip /\ bfdsSess'[id].owners = bfdsSess[id].owners \ {r.owner}
               \/ ~Live(id)' /\ bfdsSess[id].owners \ {r.owner} = {}
        PROVE  Goal
    <3>1. CASE k = id
      <4>1. bfdsSess[k].ip = ip /\ o \in bfdsSess[k].owners /\ o # r.owner
        BY <1>0, <2>5, <3>1
      <4> QED  BY <2>3, <2>5, <3>1, <4>1
    <3>2. CASE k # id
      <4>1. Live(k) /\ bfdsSess[k].ip = ip /\ o \in bfdsSess[k].owners
        BY <1>0, <2>5, <3>2 DEF Unchanged, Live
      <4>2. ip # r.ip
        BY <1>n, <2>5, <3>2, <4>1 DEF OneSessionPerPeer
      <4> QED  BY <2>3, <4>1, <4>2
    <3> QED  BY <3>1, <3>2
  <2> QED  BY <1>7, <2>2, <2>4, <2>5, MgrDeleteIs
<1>8. ASSUME MainCreate PROVE Goal
  <2>1. PICK w \in BfdPeers :
         LET r == bfdsPending[w] IN
         /\ r \in Req /\ r # NoReq /\ r.op = "create" /\ r.ip = w /\ r.owner \in BfdOwners
         /\ bfdsMain.req = NoReq /\ UNCHANGED <<bfdsMgr, bfdsWant>>
         /\ \/ /\ bfdsMain'.req = NoReq /\ bfdsPending' = [bfdsPending EXCEPT ![w] = NoReq]
               /\ \E id \in Ids : Registered(id, w, r.owner)
            \/ bfdsMain'.req = r /\ UNCHANGED <<bfdsSess, bfdsPending>>
    BY <1>8, MainCreateIs
  <2>2. CASE UNCHANGED <<bfdsSess, bfdsPending>>
    BY <1>1, <1>2, <2>1, <2>2 DEF Has, Queued
  <2>3. ASSUME NEW id \in Ids, Registered(id, w, bfdsPending[w].owner), bfdsPending' = [bfdsPending EXCEPT ![w] = NoReq]
        PROVE  Goal
    <3>1. CASE ip = w /\ o = bfdsPending[w].owner
      <4>1. o \in bfdsWant[w] \/ Sends("delete", w, o) \/ Takes("delete", w, o)
        BY <1>w, <2>1, <3>1
      <4>2. ~Sends("delete", w, o)
        BY <1>8 DEF MainCreate, Sends, Holds
      <4>3. Takes("delete", w, o) => Has(bfdsMgr, w, o)
        BY NoneIsNone DEF Takes, Holds, Has, Typed, GoroutinesSane, Busy
      <4> QED  BY <2>1, <3>1, <4>1, <4>2, <4>3
    <3>2. CASE ~(ip = w /\ o = bfdsPending[w].owner)
      <4>1. Live(k) /\ bfdsSess[k].ip = ip /\ o \in bfdsSess[k].owners
        BY <1>0, <2>3, <3>2 DEF Registered, Unchanged, Live
      <4>2. ip \in BfdPeers /\ (o \in bfdsWant[ip] \/ Has(bfdsMgr, ip, o) \/ Queued(ip, o))
        BY <1>1, <1>t, <2>1, <4>1 DEF Has
      <4>3. Queued(ip, o) => Queued(ip, o)'
        BY <2>3, <3>2, <4>2 DEF Queued, Typed, BfdsTypeOK
      <4> QED  BY <2>1, <4>2, <4>3
    <3> QED  BY <3>1, <3>2
  <2> QED  BY <2>1, <2>2, <2>3
<1>9. ASSUME MainAnswered PROVE Goal
  <2> DEFINE r == bfdsMain.req
  <2>1. /\ r \in Req /\ r.op = "create" /\ r.ip \in BfdPeers /\ r.owner \in BfdOwners
        /\ bfdsPending[r.ip] = r /\ r # NoReq /\ bfdsMain'.req = NoReq /\ UNCHANGED <<bfdsMgr, bfdsWant>>
        /\ \/ UNCHANGED <<bfdsSess, bfdsPending>>
           \/ Waiting(r)
           \/ bfdsPending' = [bfdsPending EXCEPT ![r.ip] = NoReq] /\ \E id \in Ids : Created(id, r)
    BY <1>9, MainAnsweredIs
  <2>2. r.owner \in bfdsWant[r.ip] \/ Has(bfdsMgr, r.ip, r.owner)
    <3>1. r.owner \in bfdsWant[r.ip] \/ Sends("delete", r.ip, r.owner) \/ Takes("delete", r.ip, r.owner)
      BY <1>w, <2>1
    <3>2. ~Sends("delete", r.ip, r.owner)
      BY <2>1 DEF Sends, Holds
    <3>3. Takes("delete", r.ip, r.owner) => Has(bfdsMgr, r.ip, r.owner)
      BY NoneIsNone DEF Takes, Holds, Has, Typed, GoroutinesSane, Busy
    <3> QED  BY <3>1, <3>2, <3>3
  <2>3. CASE ip = r.ip /\ o = r.owner
    BY <2>1, <2>2, <2>3
  <2>4. CASE ~(ip = r.ip /\ o = r.owner)
    <3>1. Live(k) /\ bfdsSess[k].ip = ip /\ o \in bfdsSess[k].owners
      BY <1>0, <1>2, <2>1, <2>4 DEF Waiting, Created, Live
    <3>2. ip \in BfdPeers /\ (o \in bfdsWant[ip] \/ Has(bfdsMgr, ip, o) \/ Queued(ip, o))
      BY <1>1, <1>t, <2>4, <3>1 DEF Has
    <3>3. Queued(ip, o) => Queued(ip, o)'
      BY <2>1, <2>4, <3>2 DEF Queued, Waiting, Typed, BfdsTypeOK
    <3> QED  BY <2>1, <3>2, <3>3
  <2> QED  BY <2>3, <2>4
<1>10. ASSUME Passive PROVE Goal
  <2>1. Live(k) /\ bfdsSess[k].ip = ip /\ o \in bfdsSess[k].owners
    BY <1>0, <1>10 DEF Passive, SameSessions, Stays
  <2> QED  BY <1>1, <1>10, <2>1 DEF Passive, Has, Queued
<1> HIDE DEF Goal
<1>11. Goal
  BY <1>3, <1>4, <1>5, <1>6, <1>7, <1>8, <1>9, <1>10, PassiveSteps
<1> QED  BY <1>11 DEF Goal

-----------------------------------------------------------------------------
(* The theorem *)

LEMMA InitIInv == ASSUME BfdsConstants, BfdsInit PROVE IInv
<1>1. Typed /\ PendingSane
  BY TypesInit, PendingInit
<1>2. \A id \in Ids : ~Live(id)
  BY DEF BfdsInit, Live
<1>3. bfdsEvents.past = {} /\ bfdsMain.req = NoReq /\ bfdsMgr.req = NoReq /\ bfdsMain.at = "idle" /\ bfdsMgr.at = "idle"
  BY RestIsGoroutine DEF BfdsInit
<1>4. OneSessionPerPeer
  BY <1>2 DEF OneSessionPerPeer, FindBfdSession, BfdsInit
<1>5. NamesExist
  <2>1. Default \in AllParams /\ 0 # NoParam
    BY DEF AllParams, NoParam
  <2> QED  BY <1>2, <2>1 DEF NamesExist, BfdsInit
<1>6. ParamCountsSessions
  <2>1. \A n \in AllParams : {id \in Ids : Live(id) /\ bfdsSess[id].param = n} = {}
    BY <1>2
  <2>2. \A n \in AllParams : bfdsParams[n] # NoParam => bfdsParams[n] = 0
    BY DEF BfdsInit
  <2> QED  BY <2>1, <2>2, FS_EmptySet DEF ParamCountsSessions
<1>7. OwnersAreServed /\ NobodyUnasked
  BY <1>2 DEF OwnersAreServed, NobodyUnasked, BfdsInit
<1>8. RequestsAreWishes
  BY <1>3 DEF RequestsAreWishes, Sends, Takes, Holds
<1>9. PendingIsWanted
  BY DEF PendingIsWanted, BfdsInit
<1> QED  BY <1>1, <1>4, <1>5, <1>6, <1>7, <1>8, <1>9 DEF IInv, BfdServerSafe, Typed

LEMMA StepIInv == ASSUME BfdsConstants, IInv, BfdsNext PROVE IInv'
<1>1. Typed /\ PendingSane
  BY DEF IInv, BfdServerSafe, Typed
<1>2. Typed' /\ PendingSane' /\ TableChange /\ NotesKept
  BY <1>1, TypesStep, PendingStep, TableStep
<1>3. OneSessionPerPeer'
  BY <1>1, <1>2, OneStep DEF IInv, BfdServerSafe
<1>4. NamesExist' /\ ParamCountsSessions'
  BY <1>1, <1>2, CountStep DEF IInv, BfdServerSafe
<1>5. RequestsAreWishes' /\ PendingIsWanted'
  BY <1>1, <1>2, WishesStep, WantedStep DEF IInv
<1>6. OwnersAreServed' /\ NobodyUnasked'
  BY <1>1, <1>2, ServedStep, UnaskedStep DEF IInv, BfdServerSafe
<1> QED  BY <1>2, <1>3, <1>4, <1>5, <1>6 DEF IInv, BfdServerSafe, Typed

LEMMA IdleIInv == ASSUME IInv, UNCHANGED bfdsVars PROVE IInv'
<1>1. BfdServerSafe'
  BY DEF IInv, bfdsVars, BfdServerSafe, BfdsTypeOK, OneSessionPerPeer, ParamCountsSessions, OwnersAreServed,
         NobodyUnasked, InHand, FindBfdSession, Live
<1>2. MoreTypes' /\ GoroutinesSane' /\ PendingSane'
  BY DEF IInv, bfdsVars, MoreTypes, GoroutinesSane, Busy, PendingSane
<1>3. NamesExist' /\ RequestsAreWishes' /\ PendingIsWanted'
  BY DEF IInv, bfdsVars, NamesExist, RequestsAreWishes, PendingIsWanted, Sends, Takes, Holds, Live
<1> QED  BY <1>1, <1>2, <1>3 DEF IInv

(* IInv holds in every state of the session manager.                       *)
THEOREM InductiveInvariant == ASSUME BfdsConstants PROVE BfdsSpec => []IInv
<1>1. BfdsInit => IInv
  BY InitIInv
<1>2. IInv /\ [BfdsNext]_bfdsVars => IInv'
  BY StepIInv, IdleIInv
<1> QED  BY <1>1, <1>2, PTL DEF BfdsSpec

(* The session manager keeps one session per peer, counts the sessions of  *)
(* a parameter set, serves every owner that asked and nobody else, with    *)
(* the exceptions the parts of BfdServerSafe name: for any peers, owners,  *)
(* parameter sets and table size (bfdSessionServer.go).                    *)
THEOREM BfdServerIsSafe == ASSUME BfdsConstants PROVE BfdsSpec => []BfdServerSafe
<1>1. IInv => BfdServerSafe
  BY DEF IInv
<1> QED  BY <1>1, InductiveInvariant, PTL

=============================================================================
