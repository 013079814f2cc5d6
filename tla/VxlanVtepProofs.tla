--------------------------- MODULE VxlanVtepProofs ---------------------------
(***************************************************************************)
(* Proofs about the VXLAN tunnel end points, for any VXLANs, any finite    *)
(* set of VTEPs and any number of requests, packets and failed calls: the  *)
(* hardware has the VTEPs whose machines have come that far, the VLANs     *)
(* count them, and no VTEP waits for a VXLAN that exists.                  *)
(*                                                                         *)
(* The argument is about the queue of a machine: an event that lets it     *)
(* start over never stands behind one that leads on to the hardware, and   *)
(* one that detaches it never behind the one that says its VXLAN is there. *)
(***************************************************************************)
EXTENDS VxlanVtep, FiniteSetTheorems, SequenceTheorems, TLAPS

Has(q, e) == \E i \in DOMAIN q : q[i] = e

\* The events a machine sends itself after it has found its VXLAN and its
\* source interface, and the states it is in then.
Onward == {"NextHopInfoResolved", "NextHopInfoMacResolved", "FallThrough", "HwConfigComplete"}
HasOnward(q) == \E i \in DOMAIN q : q[i] \in Onward
Resolving == {"Interface", "NextHopInfo", "ResolveNextHopMac", "HwConfig", "Start"}

Ordered(q) ==
  \A i, j \in DOMAIN q : i < j =>
    /\ ~(q[i] = "SrcInterfaceResolved" /\ q[j] = "Detached")
    /\ ~(q[i] \in Onward /\ q[j] = "Begin")

\* The state a machine is in, or is about to store.
Current(m) == IF m.next = "idle" THEN m.state ELSE m.next
Begun(m) == Current(m) \in Resolving \/ HasOnward(m.queue)

\* What holds of a machine m of a VTEP with network vni, db being vxlanDB.
Sane(m, vni, db) ==
  /\ Ordered(m.queue)
  /\ ~Has(m.queue, "Disable")
  /\ Begun(m) => ~Has(m.queue, "Detached") /\ m.state # "Detached" /\ m.next # "Detached"
  /\ Current(m) \in Resolving \ {"Interface"} => ~Has(m.queue, "Begin")
  /\ Begun(m) \/ Has(m.queue, "SrcInterfaceResolved") => vni \in db
  /\ m.state \in {"HwConfig", "Start"} => m.next \in {"idle", "Start"}
  /\ m.next = "Start" => m.state = "HwConfig"

\* A machine whose VXLAN exists neither rests in Detached nor is on its way there.
Awake(m) ==
  /\ ~BecomesDetached(m)
  /\ m.state = "Detached" /\ m.next = "idle" => Has(m.queue, "Begin")

MachinesSane ==
  \A v \in Vteps : Exists(v) =>
    /\ Sane(vtepDb[v], VtepCfg[v].vni, vxlanDb)
    /\ "missed" \notin vxlanEvents.past /\ VtepCfg[v].vni \in vxlanDb => Awake(vtepDb[v])

NoneDeleted == Undisturbed => \A v \in Vteps : vtepDb[v] # NoVtep => ~vtepDb[v].deleted

HardwareHasVxlan == \A v \in vtepHw : VtepCfg[v].vni \in vxlanDb

VtepIInv ==
  /\ VxlanTypeOK
  /\ MachinesSane
  /\ NoneDeleted
  /\ HardwareHasVxlan
  /\ HardwareFollowsMachine
  /\ VlanCountsUsers

-----------------------------------------------------------------------------
(* Queues                                                                   *)

LEMMA TailFacts ==
  ASSUME NEW q \in Seq(Events), q # <<>>
  PROVE  /\ Head(q) \in Events /\ Tail(q) \in Seq(Events)
         /\ Has(q, Head(q))
         /\ \A e : Has(Tail(q), e) => Has(q, e)
         /\ \A e : Has(q, e) /\ e # Head(q) => Has(Tail(q), e)
         /\ HasOnward(Tail(q)) => HasOnward(q)
         /\ Head(q) \in Onward => HasOnward(q)
<1>1. /\ Head(q) \in Events /\ Tail(q) \in Seq(Events) /\ Len(q) \in Nat \ {0} /\ Len(Tail(q)) = Len(q) - 1
      /\ Head(q) = q[1]
      /\ \A i \in 1..Len(q) - 1 : Tail(q)[i] = q[i + 1]
  BY HeadTailProperties
<1>2. DOMAIN q = 1..Len(q) /\ DOMAIN Tail(q) = 1..(Len(q) - 1)
  BY <1>1
<1>3. Has(q, Head(q)) /\ (Head(q) \in Onward => HasOnward(q))
  BY <1>1, <1>2 DEF Has, HasOnward
<1>4. ASSUME NEW i \in DOMAIN Tail(q)
      PROVE  i + 1 \in DOMAIN q /\ Tail(q)[i] = q[i + 1]
  BY <1>1, <1>2
<1>5. ASSUME NEW i \in DOMAIN q, q[i] # Head(q)
      PROVE  i - 1 \in DOMAIN Tail(q) /\ Tail(q)[i - 1] = q[i]
  BY <1>1, <1>2, <1>5
<1>6. QED
  BY <1>1, <1>3, <1>4, <1>5 DEF Has, HasOnward

LEMMA TailOrdered ==
  ASSUME NEW q \in Seq(Events), q # <<>>, Ordered(q)
  PROVE  /\ Ordered(Tail(q))
         /\ Head(q) = "SrcInterfaceResolved" => ~Has(Tail(q), "Detached")
         /\ Head(q) \in Onward => ~Has(Tail(q), "Begin")
<1>1. /\ Len(q) \in Nat \ {0} /\ Len(Tail(q)) = Len(q) - 1 /\ Head(q) = q[1] /\ Tail(q) \in Seq(Events)
      /\ \A i \in 1..Len(q) - 1 : Tail(q)[i] = q[i + 1]
  BY HeadTailProperties
<1>2. DOMAIN q = 1..Len(q) /\ DOMAIN Tail(q) = 1..(Len(q) - 1)
  BY <1>1
<1>3. ASSUME NEW i \in DOMAIN Tail(q)
      PROVE  i + 1 \in DOMAIN q /\ Tail(q)[i] = q[i + 1] /\ 1 \in DOMAIN q /\ 1 < i + 1
  BY <1>1, <1>2
<1>4. ASSUME NEW i \in DOMAIN Tail(q), NEW j \in DOMAIN Tail(q), i < j
      PROVE  i + 1 < j + 1
  BY <1>2, <1>4
<1>5. Ordered(Tail(q))
  BY <1>3, <1>4 DEF Ordered
<1>6. QED
  BY <1>1, <1>3, <1>5 DEF Ordered, Has

LEMMA AppendFacts ==
  ASSUME NEW q \in Seq(Events), NEW x \in Events
  PROVE  /\ Append(q, x) \in Seq(Events)
         /\ \A e : Has(Append(q, x), e) <=> Has(q, e) \/ e = x
         /\ HasOnward(Append(q, x)) <=> HasOnward(q) \/ x \in Onward
         /\ Ordered(q) /\ (x = "Detached" => ~Has(q, "SrcInterfaceResolved")) /\ (x = "Begin" => ~HasOnward(q))
              => Ordered(Append(q, x))
<1> DEFINE a == Append(q, x)
<1>1. a \in Seq(Events) /\ Len(q) \in Nat /\ Len(a) = Len(q) + 1 /\ DOMAIN a = 1..(Len(q) + 1) /\ DOMAIN q = 1..Len(q)
  BY AppendProperties
<1>2. \A i \in 1..Len(q) : a[i] = q[i]
  BY AppendProperties
<1>3. a[Len(q) + 1] = x
  BY AppendProperties
<1> HIDE DEF a
<1>4. \A i \in DOMAIN a : i \in DOMAIN q \/ i = Len(q) + 1
  BY <1>1
<1>5. \A i \in DOMAIN q : i \in DOMAIN a /\ a[i] = q[i]
  BY <1>1, <1>2
<1>6. Len(q) + 1 \in DOMAIN a
  BY <1>1
<1>7. /\ \A e : Has(a, e) <=> Has(q, e) \/ e = x
      /\ HasOnward(a) <=> HasOnward(q) \/ x \in Onward
  BY <1>3, <1>4, <1>5, <1>6 DEF Has, HasOnward
<1>8. ASSUME Ordered(q), x = "Detached" => ~Has(q, "SrcInterfaceResolved"), x = "Begin" => ~HasOnward(q)
      PROVE  Ordered(a)
  <2>1. SUFFICES ASSUME NEW i \in DOMAIN a, NEW j \in DOMAIN a, i < j
                 PROVE  /\ ~(a[i] = "SrcInterfaceResolved" /\ a[j] = "Detached")
                        /\ ~(a[i] \in Onward /\ a[j] = "Begin")
    BY DEF Ordered
  <2>2. i \in DOMAIN q /\ a[i] = q[i]
    BY <1>1, <1>5, <2>1
  <2>3. CASE j \in DOMAIN q
    BY <1>5, <1>8, <2>1, <2>2, <2>3 DEF Ordered
  <2>4. CASE j = Len(q) + 1
    BY <1>3, <1>8, <2>2, <2>4 DEF Has, HasOnward
  <2>5. QED
    BY <1>4, <2>3, <2>4
<1>9. QED
  BY <1>1, <1>7, <1>8 DEF a

LEMMA EmptyFacts ==
  /\ Ordered(<<>>) /\ ~HasOnward(<<>>) /\ \A e : ~Has(<<>>, e)
  /\ <<>> \in Seq(Events)
BY DEF Ordered, Has, HasOnward

-----------------------------------------------------------------------------
(* Machines                                                                 *)

\* The event a handler may send for the state to that it enters.
Sends(to, x, vni, db) ==
  \/ to = "Init" /\ x = "Detached" /\ vni \notin db
  \/ to = "Init" /\ x = "SrcInterfaceResolved" /\ vni \in db
  \/ to = "Interface" /\ x = "NextHopInfoResolved"
  \/ to = "NextHopInfo" /\ x = "NextHopInfoMacResolved"
  \/ to = "HwConfig" /\ x = "HwConfigComplete"

\* The rules, with the state each of them starts from.
LEMMA Rules ==
  ASSUME NEW s, NEW e, e # "Disable", NEW to, to = VxlanVtepMachineFSMBuild(s, e), to # "none"
  PROVE  \/ e = "Begin" /\ to = "Init"
         \/ s = "Init" /\ e = "Detached" /\ to = "Detached"
         \/ s = "Init" /\ e = "SrcInterfaceResolved" /\ to = "Interface"
         \/ s = "Interface" /\ e = "NextHopInfoResolved" /\ to = "NextHopInfo"
         \/ s = "NextHopInfo" /\ e = "NextHopInfoMacResolved" /\ to = "ResolveNextHopMac"
         \/ s = "ResolveNextHopMac" /\ e = "FallThrough" /\ to = "HwConfig"
         \/ s = "HwConfig" /\ e = "HwConfigComplete" /\ to = "Start"
         \/ s \in {"Init", "NextHopInfo"} /\ e = "RetryTimerExpired" /\ to = s
BY DEF VxlanVtepMachineFSMBuild

\* A machine takes the event e, or finds its queue empty when the retry timer
\* expires: q is what is left in the queue.
TakenFrom(m, e, q) ==
  \/ m.queue # <<>> /\ e = Head(m.queue) /\ q = Tail(m.queue)
  \/ m.queue = <<>> /\ e = "RetryTimerExpired" /\ q = <<>>

LEMMA WhatIsLeft ==
  ASSUME NEW m \in Machine, NEW vni, NEW db, Sane(m, vni, db), m.next = "idle", NEW e, NEW q, TakenFrom(m, e, q)
  PROVE  /\ q \in Seq(Events) /\ Ordered(q) /\ e # "Disable"
         /\ \A x : Has(q, x) => Has(m.queue, x)
         /\ HasOnward(q) => HasOnward(m.queue)
         /\ \A x : Has(m.queue, x) /\ x # e => Has(q, x)
         /\ e = "SrcInterfaceResolved" => ~Has(q, "Detached") /\ Has(m.queue, e)
         /\ e = "Detached" => Has(m.queue, e)
         /\ e \in Onward => ~Has(q, "Begin") /\ HasOnward(m.queue)
<1>1. m.queue \in Seq(Events) /\ Ordered(m.queue) /\ ~Has(m.queue, "Disable")
  BY DEF Machine, Sane
<1>2. CASE m.queue # <<>> /\ e = Head(m.queue) /\ q = Tail(m.queue)
  BY <1>1, <1>2, TailFacts, TailOrdered
<1>3. CASE m.queue = <<>> /\ e = "RetryTimerExpired" /\ q = <<>>
  BY <1>3, EmptyFacts DEF Onward
<1>4. QED
  BY <1>2, <1>3 DEF TakenFrom

LEMMA EventDropped ==
  ASSUME NEW m \in Machine, NEW vni, NEW db, Sane(m, vni, db), m.next = "idle", NEW e, NEW q, TakenFrom(m, e, q),
         VxlanVtepMachineFSMBuild(m.state, e) = "none",
         NEW n, n.state = m.state, n.next = "idle", n.queue = q
  PROVE  Sane(n, vni, db) /\ (Awake(m) => Awake(n))
<1>1. /\ Ordered(q) /\ \A x : Has(q, x) => Has(m.queue, x)
      /\ HasOnward(q) => HasOnward(m.queue)
      /\ \A x : Has(m.queue, x) /\ x # e => Has(q, x)
  BY WhatIsLeft
<1>2. e # "Begin"
  BY DEF VxlanVtepMachineFSMBuild
<1>3. Current(n) = Current(m) /\ (Begun(n) => Begun(m))
  BY <1>1 DEF Current, Begun
<1>4. Sane(n, vni, db)
  BY <1>1, <1>3 DEF Sane
<1>5. BecomesDetached(n) => BecomesDetached(m)
  BY <1>1 DEF BecomesDetached, Has
<1>6. QED
  BY <1>1, <1>2, <1>4, <1>5 DEF Awake

LEMMA EventTaken ==
  ASSUME NEW m \in Machine, NEW vni, NEW db, Sane(m, vni, db), m.next = "idle", NEW e, NEW q, TakenFrom(m, e, q),
         NEW to, to = VxlanVtepMachineFSMBuild(m.state, e), to # "none",
         NEW n, n.state = m.state, n.next = to,
         n.queue = q \/ \E x \in Events : Sends(to, x, vni, db) /\ n.queue = Append(q, x)
  PROVE  /\ Sane(n, vni, db)
         /\ vni \in db /\ Awake(m) => Awake(n)
         /\ to = "HwConfig" => vni \in db /\ m.state = "ResolveNextHopMac"
<1>1. /\ q \in Seq(Events) /\ Ordered(q) /\ e # "Disable"
      /\ \A x : Has(q, x) => Has(m.queue, x)
      /\ HasOnward(q) => HasOnward(m.queue)
      /\ e = "SrcInterfaceResolved" => ~Has(q, "Detached") /\ Has(m.queue, e)
      /\ e = "Detached" => Has(m.queue, e)
      /\ e \in Onward => ~Has(q, "Begin") /\ HasOnward(m.queue)
  BY WhatIsLeft
<1>2. \/ e = "Begin" /\ to = "Init"
      \/ m.state = "Init" /\ e = "Detached" /\ to = "Detached"
      \/ m.state = "Init" /\ e = "SrcInterfaceResolved" /\ to = "Interface"
      \/ m.state = "Interface" /\ e = "NextHopInfoResolved" /\ to = "NextHopInfo"
      \/ m.state = "NextHopInfo" /\ e = "NextHopInfoMacResolved" /\ to = "ResolveNextHopMac"
      \/ m.state = "ResolveNextHopMac" /\ e = "FallThrough" /\ to = "HwConfig"
      \/ m.state = "HwConfig" /\ e = "HwConfigComplete" /\ to = "Start"
      \/ m.state \in {"Init", "NextHopInfo"} /\ e = "RetryTimerExpired" /\ to = m.state
  BY <1>1, Rules
<1>3. Current(m) = m.state /\ Current(n) = to
  BY <1>2 DEF Current
\* A machine that has begun, or begins now, was begun or has found its VXLAN.
<1>4. ASSUME to \in Resolving \/ HasOnward(q)
      PROVE  vni \in db /\ ~Has(q, "Detached") /\ m.state # "Detached" /\ to # "Detached"
  <2>1. CASE to = "Interface"
    BY <1>1, <1>2, <2>1 DEF Sane
  <2>2. CASE to # "Interface" /\ Begun(m)
    BY <1>1, <1>2, <2>2 DEF Sane
  <2>3. CASE to # "Interface" /\ ~Begun(m)
    BY <1>1, <1>2, <1>3, <1>4, <2>3 DEF Begun, Resolving
  <2>4. QED
    BY <2>1, <2>2, <2>3
<1>5. to \in Resolving \ {"Interface"} => ~Has(q, "Begin")
  BY <1>1, <1>2, <1>3 DEF Resolving, Onward, Sane
<1>6. (m.state \in {"HwConfig", "Start"} => to = "Start") /\ (to = "Start" => m.state = "HwConfig")
  <2>1. m.state \in {"HwConfig", "Start"} => e # "Begin"
    <3>1. ASSUME m.state \in {"HwConfig", "Start"} PROVE ~Has(m.queue, "Begin")
      BY <1>3, <3>1 DEF Sane, Resolving
    <3>2. e = "Begin" => Has(m.queue, "Begin")
      <4>1. m.queue \in Seq(Events)
        BY DEF Machine
      <4>2. QED
        BY <4>1, TailFacts DEF TakenFrom
    <3>3. QED
      BY <3>1, <3>2
  <2>2. QED
    BY <1>2, <2>1
<1>7. Has(q, "SrcInterfaceResolved") => vni \in db
  BY <1>1 DEF Sane
<1>8. ~Has(q, "Disable")
  BY <1>1 DEF Sane
<1>9. Sane(n, vni, db)
  <2>1. CASE n.queue = q
    <3>1. Begun(n) <=> to \in Resolving \/ HasOnward(q)
      BY <1>3, <2>1 DEF Begun
    <3>2. QED
      BY <1>1, <1>3, <1>4, <1>5, <1>6, <1>7, <1>8, <2>1, <3>1 DEF Sane
  <2>2. ASSUME NEW x \in Events, Sends(to, x, vni, db), n.queue = Append(q, x)
        PROVE  Sane(n, vni, db)
    <3>1. /\ \A y : Has(n.queue, y) <=> Has(q, y) \/ y = x
          /\ HasOnward(n.queue) <=> HasOnward(q) \/ x \in Onward
      BY <1>1, <2>2, AppendFacts
    <3>2. x # "Begin" /\ x # "Disable"
      BY <2>2 DEF Sends
    <3>3. x = "Detached" => vni \notin db
      BY <2>2 DEF Sends
    <3>4. Ordered(n.queue)
      BY <1>1, <1>7, <2>2, <3>2, <3>3, AppendFacts
    <3>5. x \in Onward => to \in Resolving
      BY <2>2 DEF Sends, Onward, Resolving
    <3>6. Begun(n) => to \in Resolving \/ HasOnward(q)
      BY <1>3, <3>1, <3>5 DEF Begun
    <3>7. x = "SrcInterfaceResolved" => vni \in db
      BY <2>2 DEF Sends
    <3>8. QED
      BY <1>3, <1>4, <1>5, <1>6, <1>7, <1>8, <3>1, <3>2, <3>3, <3>4, <3>6, <3>7 DEF Sane
  <2>3. QED
    BY <2>1, <2>2
<1>10. vni \in db /\ Awake(m) => Awake(n)
  <2>1. SUFFICES ASSUME vni \in db, Awake(m) PROVE Awake(n)
    OBVIOUS
  <2>2. ~Has(m.queue, "Detached")
    BY <2>1 DEF Awake, BecomesDetached, Has
  <2>3. ~Has(q, "Detached") /\ to # "Detached"
    BY <1>1, <1>2, <2>2
  <2>4. ~Has(n.queue, "Detached")
    <3>1. ASSUME NEW x \in Events, Sends(to, x, vni, db), n.queue = Append(q, x)
          PROVE  ~Has(n.queue, "Detached")
      <4>1. x # "Detached"
        BY <2>1, <3>1 DEF Sends
      <4>2. QED
        BY <1>1, <2>3, <3>1, <4>1, AppendFacts
    <3>2. QED
      BY <2>3, <3>1
  <2>5. n.next # "idle"
    BY <1>2
  <2>6. QED
    BY <2>3, <2>4, <2>5 DEF Awake, BecomesDetached, Has
<1>11. to = "HwConfig" => vni \in db /\ m.state = "ResolveNextHopMac"
  BY <1>2, <1>4 DEF Resolving
<1>12. QED
  BY <1>9, <1>10, <1>11

LEMMA StateStored ==
  ASSUME NEW m \in Machine, NEW vni, NEW db, Sane(m, vni, db), m.next # "idle",
         NEW n, n.state = m.next, n.next = "idle",
         \/ n.queue = m.queue
         \/ m.next = "ResolveNextHopMac" /\ n.queue = Append(m.queue, "FallThrough")
  PROVE  /\ Sane(n, vni, db)
         /\ Awake(m) => Awake(n)
         /\ n.state \in {"HwConfig", "Start"} <=> m.state \in {"HwConfig", "Start"} \/ m.next = "HwConfig"
<1>1. m.queue \in Seq(Events) /\ "FallThrough" \in Events
  BY DEF Machine, Events
<1>2. Current(n) = Current(m) /\ Current(m) = m.next
  BY DEF Current
<1>3. /\ Ordered(n.queue)
      /\ \A x : x # "FallThrough" => (Has(n.queue, x) <=> Has(m.queue, x))
      /\ HasOnward(n.queue) => Begun(m)
  <2>1. CASE n.queue = m.queue
    BY <2>1 DEF Sane, Begun
  <2>2. CASE m.next = "ResolveNextHopMac" /\ n.queue = Append(m.queue, "FallThrough")
    <3>1. Begun(m)
      BY <1>2, <2>2 DEF Begun, Resolving
    <3>2. Ordered(m.queue)
      BY DEF Sane
    <3>3. QED
      BY <1>1, <2>2, <3>1, <3>2, AppendFacts
  <2>3. QED
    BY <2>1, <2>2
<1>4. Begun(n) => Begun(m)
  BY <1>2, <1>3 DEF Begun
<1>5. Sane(n, vni, db)
  BY <1>2, <1>3, <1>4 DEF Sane
<1>6. Awake(m) => Awake(n)
  <2>1. BecomesDetached(m) <=> m.next = "Detached" \/ Has(m.queue, "Detached")
    BY DEF BecomesDetached, Has
  <2>2. BecomesDetached(n) <=> n.next = "Detached" \/ Has(n.queue, "Detached")
    BY DEF BecomesDetached, Has
  <2>3. QED
    BY <1>3, <2>1, <2>2 DEF Awake
<1>7. n.state \in {"HwConfig", "Start"} <=> m.state \in {"HwConfig", "Start"} \/ m.next = "HwConfig"
  BY DEF Sane
<1>8. QED
  BY <1>5, <1>6, <1>7

\* A VXLAN is created: a machine that waits in Detached begins again.
LEMMA MachineWoken ==
  ASSUME NEW m \in Machine, NEW vni, NEW db, Sane(m, vni, db), NEW c,
         NEW n, n.state = m.state, n.next = m.next,
         IF m.state = "Detached" THEN n.queue = Append(m.queue, "Begin") ELSE n.queue = m.queue
  PROVE  /\ Sane(n, vni, db \cup {c})
         /\ ~BecomesDetached(m) => Awake(n)
<1>1. m.queue \in Seq(Events) /\ "Begin" \in Events /\ "Begin" \notin Onward
  BY DEF Machine, Events, Onward
<1>2. Current(n) = Current(m)
  BY DEF Current
<1>3. m.state = "Detached" => ~Begun(m) /\ ~HasOnward(m.queue) /\ Current(m) \notin Resolving
  BY DEF Sane, Begun
<1>4. /\ Ordered(n.queue)
      /\ \A x : x # "Begin" => (Has(n.queue, x) <=> Has(m.queue, x))
      /\ HasOnward(n.queue) <=> HasOnward(m.queue)
      /\ m.state # "Detached" => (Has(n.queue, "Begin") <=> Has(m.queue, "Begin"))
      /\ m.state = "Detached" => Has(n.queue, "Begin")
  <2>1. CASE m.state = "Detached"
    <3>1. Ordered(m.queue) /\ n.queue = Append(m.queue, "Begin")
      BY <2>1 DEF Sane
    <3>2. /\ \A x : Has(n.queue, x) <=> Has(m.queue, x) \/ x = "Begin"
          /\ HasOnward(n.queue) <=> HasOnward(m.queue) \/ "Begin" \in Onward
      BY <1>1, <3>1, AppendFacts
    <3>3. Ordered(n.queue)
      BY <1>1, <1>3, <2>1, <3>1, AppendFacts
    <3>4. QED
      BY <1>1, <2>1, <3>2, <3>3
  <2>2. CASE m.state # "Detached"
    BY <2>2 DEF Sane
  <2>3. QED
    BY <2>1, <2>2
<1>5. Begun(n) <=> Begun(m)
  BY <1>2, <1>4 DEF Begun
<1>6. Sane(n, vni, db \cup {c})
  BY <1>2, <1>3, <1>4, <1>5 DEF Sane
<1>7. ~BecomesDetached(m) => Awake(n)
  <2>1. BecomesDetached(m) <=> m.next = "Detached" \/ Has(m.queue, "Detached")
    BY DEF BecomesDetached, Has
  <2>2. BecomesDetached(n) <=> n.next = "Detached" \/ Has(n.queue, "Detached")
    BY DEF BecomesDetached, Has
  <2>3. QED
    BY <1>4, <2>1, <2>2 DEF Awake
<1>8. QED
  BY <1>6, <1>7

-----------------------------------------------------------------------------
(* The tables                                                               *)

Counted(H, l, s) == {v \in H : VtepCfg[v].vlan = l /\ VtepCfg[v].src = s}

LEMMA NoVtepIsNoMachine == NoVtep \notin Machine
BY DEF NoVtep, Machine

\* One machine goes on: it is as sane as it was, and the others are not touched.
LEMMA MachineReplaced ==
  ASSUME VxlanTypeOK, MachinesSane, NoneDeleted, NEW v \in Vteps, NEW n \in Machine, ~n.deleted,
         vtepDb' = [vtepDb EXCEPT ![v] = n], vxlanDb' = vxlanDb, vxlanEvents.past \subseteq vxlanEvents'.past,
         Sane(n, VtepCfg[v].vni, vxlanDb),
         "missed" \notin vxlanEvents'.past /\ VtepCfg[v].vni \in vxlanDb => Awake(n)
  PROVE  /\ vtepDb' \in [Vteps -> {NoVtep} \cup Machine]
         /\ MachinesSane' /\ NoneDeleted'
         /\ vtepDb'[v] = n /\ Exists(v)'
         /\ \A w \in Vteps : w # v => vtepDb'[w] = vtepDb[w] /\ (InHardware(w)' <=> InHardware(w))
<1>1. vtepDb' \in [Vteps -> {NoVtep} \cup Machine] /\ vtepDb'[v] = n
  BY DEF VxlanTypeOK
<1>2. Exists(v)'
  BY <1>1, NoVtepIsNoMachine DEF Exists
<1>3. \A w \in Vteps : w # v => vtepDb'[w] = vtepDb[w]
  BY DEF VxlanTypeOK
<1>4. ASSUME NEW w \in Vteps, w # v
      PROVE  (Exists(w)' <=> Exists(w)) /\ (InHardware(w)' <=> InHardware(w))
  BY <1>3, <1>4 DEF Exists, InHardware
<1>5. ASSUME NEW w \in Vteps, Exists(w)'
      PROVE  /\ Sane(vtepDb'[w], VtepCfg[w].vni, vxlanDb')
             /\ "missed" \notin vxlanEvents'.past /\ VtepCfg[w].vni \in vxlanDb' => Awake(vtepDb'[w])
  <2>1. CASE w = v
    BY <1>1, <2>1
  <2>2. CASE w # v
    <3>1. /\ Sane(vtepDb[w], VtepCfg[w].vni, vxlanDb)
          /\ "missed" \notin vxlanEvents.past /\ VtepCfg[w].vni \in vxlanDb => Awake(vtepDb[w])
      BY <1>4, <1>5, <2>2 DEF MachinesSane
    <3>2. QED
      BY <1>3, <2>2, <3>1
  <2>3. QED
    BY <2>1, <2>2
<1>6. MachinesSane'
  BY <1>5 DEF MachinesSane, Sane, Awake, BecomesDetached, Current, Begun
<1>7. NoneDeleted'
  BY <1>1, <1>3 DEF NoneDeleted, Undisturbed
<1>8. QED
  BY <1>1, <1>2, <1>3, <1>4, <1>6, <1>7

\* Machine steps that do not touch the hardware.
LEMMA HardwareUntouched ==
  ASSUME VtepIInv, UNCHANGED <<vtepHw, vxlanVlans>>, vxlanDb \subseteq vxlanDb',
         vxlanEvents.past \subseteq vxlanEvents'.past,
         \A v \in Vteps : InHardware(v)' <=> InHardware(v)
  PROVE  HardwareHasVxlan' /\ HardwareFollowsMachine' /\ VlanCountsUsers'
<1>1. HardwareHasVxlan'
  BY DEF VtepIInv, HardwareHasVxlan
<1>2. Undisturbed' => Undisturbed
  BY DEF Undisturbed
<1>3. HardwareFollowsMachine'
  BY <1>2 DEF VtepIInv, HardwareFollowsMachine
<1>4. VlanCountsUsers'
  BY <1>2 DEF VtepIInv, VlanCountsUsers
<1>5. QED
  BY <1>1, <1>3, <1>4

\* A VTEP enters the hardware.
LEMMA HardwareAdded ==
  ASSUME VxlanConstants, VtepIInv, NEW v \in Vteps, HwCreateVtep(v), vxlanDb' = vxlanDb,
         vxlanEvents.past \subseteq vxlanEvents'.past, VtepCfg[v].vni \in vxlanDb,
         ~InHardware(v), InHardware(v)',
         \A w \in Vteps : w # v => (InHardware(w)' <=> InHardware(w))
  PROVE  /\ HardwareHasVxlan' /\ HardwareFollowsMachine' /\ VlanCountsUsers'
         /\ vtepHw' \subseteq Vteps /\ vxlanVlans' \in [Vlans -> [Srcs -> Nat]]
<1> DEFINE l0 == VtepCfg[v].vlan
           s0 == VtepCfg[v].src
<1>1. l0 \in Vlans /\ s0 \in Srcs
  BY DEF Vlans, Srcs
<1>2. vxlanVlans \in [Vlans -> [Srcs -> Nat]] /\ vtepHw \subseteq Vteps /\ vtepHw' = vtepHw \cup {v}
  BY DEF VtepIInv, VxlanTypeOK, HwCreateVtep
<1>3. vxlanVlans' = [vxlanVlans EXCEPT ![l0][s0] = @ + 1]
  BY DEF HwCreateVtep
<1>4. /\ vxlanVlans' \in [Vlans -> [Srcs -> Nat]]
      /\ vxlanVlans'[l0][s0] = vxlanVlans[l0][s0] + 1
      /\ \A l \in Vlans, s \in Srcs : l # l0 \/ s # s0 => vxlanVlans'[l][s] = vxlanVlans[l][s]
  BY <1>1, <1>2, <1>3
<1>5. HardwareHasVxlan'
  BY <1>2 DEF VtepIInv, HardwareHasVxlan
<1>6. Undisturbed' => Undisturbed
  BY DEF Undisturbed
<1>7. HardwareFollowsMachine'
  BY <1>2, <1>6 DEF VtepIInv, HardwareFollowsMachine
<1>8. ASSUME Undisturbed', NEW l \in Vlans, NEW s \in Srcs
      PROVE  vxlanVlans'[l][s] = Cardinality(Counted(vtepHw', l, s))
  <2>1. v \notin vtepHw
    BY <1>6, <1>8 DEF VtepIInv, HardwareFollowsMachine
  <2>2. vxlanVlans[l][s] = Cardinality(Counted(vtepHw, l, s))
    BY <1>6, <1>8 DEF VtepIInv, VlanCountsUsers, Counted
  <2>3. CASE l = l0 /\ s = s0
    <3>1. Counted(vtepHw', l, s) = Counted(vtepHw, l, s) \cup {v} /\ v \notin Counted(vtepHw, l, s)
      BY <1>2, <2>1, <2>3 DEF Counted
    <3>2. IsFiniteSet(Counted(vtepHw, l, s))
      <4>1. Counted(vtepHw, l, s) \subseteq Vteps
        BY <1>2 DEF Counted
      <4>2. QED
        BY <4>1, FS_Subset DEF VxlanConstants
    <3>3. Cardinality(Counted(vtepHw, l, s) \cup {v}) = Cardinality(Counted(vtepHw, l, s)) + 1
      BY <3>1, <3>2, FS_AddElement
    <3>4. QED
      BY <1>4, <2>2, <2>3, <3>1, <3>3
  <2>4. CASE l # l0 \/ s # s0
    <3>1. Counted(vtepHw', l, s) = Counted(vtepHw, l, s)
      BY <1>2, <2>4 DEF Counted
    <3>2. QED
      BY <1>4, <2>2, <2>4, <3>1
  <2>5. QED
    BY <2>3, <2>4
<1>9. VlanCountsUsers'
  BY <1>8 DEF VlanCountsUsers, Counted
<1>10. QED
  BY <1>2, <1>4, <1>5, <1>7, <1>9

\* The VLAN gives one reference back.
LEMMA VlanReleased ==
  ASSUME VxlanTypeOK, NEW v \in Vteps, HwDeleteVtep(v), NEW l0, NEW s0, l0 = VtepCfg[v].vlan, s0 = VtepCfg[v].src
  PROVE  /\ vtepHw' = vtepHw \ {v} /\ vtepHw' \subseteq Vteps
         /\ vxlanVlans' \in [Vlans -> [Srcs -> Nat]] /\ vxlanVlans[l0][s0] \in Nat
         /\ vxlanVlans[l0][s0] # 0 => vxlanVlans'[l0][s0] = vxlanVlans[l0][s0] - 1
         /\ \A l \in Vlans, s \in Srcs : l # l0 \/ s # s0 => vxlanVlans'[l][s] = vxlanVlans[l][s]
<1> DEFINE c == vxlanVlans[l0][s0]
           k == IF c = 0 THEN 0 ELSE c - 1
<1>1. l0 \in Vlans /\ s0 \in Srcs
  BY DEF Vlans, Srcs
<1>2. vxlanVlans \in [Vlans -> [Srcs -> Nat]] /\ vtepHw \subseteq Vteps /\ vtepHw' = vtepHw \ {v}
  BY DEF VxlanTypeOK, HwDeleteVtep
<1>3. vxlanVlans' = [vxlanVlans EXCEPT ![l0] = [vxlanVlans[l0] EXCEPT ![s0] = k]]
  BY DEF HwDeleteVtep
<1>4. c \in Nat
  BY <1>1, <1>2
<1>5. k \in Nat /\ (c # 0 => k = c - 1)
  BY <1>4
<1> HIDE DEF k
<1>6. /\ vxlanVlans' \in [Vlans -> [Srcs -> Nat]] /\ vxlanVlans'[l0][s0] = k
      /\ \A l \in Vlans, s \in Srcs : l # l0 \/ s # s0 => vxlanVlans'[l][s] = vxlanVlans[l][s]
  BY <1>1, <1>2, <1>3, <1>5
<1>7. QED
  BY <1>2, <1>4, <1>5, <1>6

\* A VTEP leaves the hardware.
LEMMA HardwareRemoved ==
  ASSUME VxlanConstants, VtepIInv, NEW v \in Vteps, HwDeleteVtep(v), vxlanDb' = vxlanDb,
         vxlanEvents.past \subseteq vxlanEvents'.past,
         InHardware(v), ~InHardware(v)',
         \A w \in Vteps : w # v => (InHardware(w)' <=> InHardware(w))
  PROVE  /\ HardwareHasVxlan' /\ HardwareFollowsMachine' /\ VlanCountsUsers'
         /\ vtepHw' \subseteq Vteps /\ vxlanVlans' \in [Vlans -> [Srcs -> Nat]]
<1> DEFINE l0 == VtepCfg[v].vlan
           s0 == VtepCfg[v].src
<1>1. l0 \in Vlans /\ s0 \in Srcs
  BY DEF Vlans, Srcs
<1>2. vtepHw \subseteq Vteps /\ VxlanTypeOK
  BY DEF VtepIInv, VxlanTypeOK
<1>3. vtepHw' = vtepHw \ {v} /\ vtepHw' \subseteq Vteps
  BY <1>2, VlanReleased
<1>4. /\ vxlanVlans' \in [Vlans -> [Srcs -> Nat]]
      /\ vxlanVlans[l0][s0] # 0 => vxlanVlans'[l0][s0] = vxlanVlans[l0][s0] - 1
      /\ \A l \in Vlans, s \in Srcs : l # l0 \/ s # s0 => vxlanVlans'[l][s] = vxlanVlans[l][s]
  BY <1>2, VlanReleased
<1>5. HardwareHasVxlan'
  BY <1>3 DEF VtepIInv, HardwareHasVxlan
<1>6. Undisturbed' => Undisturbed
  BY DEF Undisturbed
<1>7. HardwareFollowsMachine'
  BY <1>2, <1>3, <1>6 DEF VtepIInv, HardwareFollowsMachine
<1>8. ASSUME Undisturbed', NEW l \in Vlans, NEW s \in Srcs
      PROVE  vxlanVlans'[l][s] = Cardinality(Counted(vtepHw', l, s))
  <2>1. v \in vtepHw
    BY <1>6, <1>8 DEF VtepIInv, HardwareFollowsMachine
  <2>2. vxlanVlans[l][s] = Cardinality(Counted(vtepHw, l, s))
    BY <1>6, <1>8 DEF VtepIInv, VlanCountsUsers, Counted
  <2>3. CASE l = l0 /\ s = s0
    <3>1. Counted(vtepHw', l, s) = Counted(vtepHw, l, s) \ {v} /\ v \in Counted(vtepHw, l, s)
      BY <1>3, <2>1, <2>3 DEF Counted
    <3>2. IsFiniteSet(Counted(vtepHw, l, s))
      <4>1. Counted(vtepHw, l, s) \subseteq Vteps
        BY <1>2 DEF Counted
      <4>2. QED
        BY <4>1, FS_Subset DEF VxlanConstants
    <3>3. /\ IsFiniteSet(Counted(vtepHw, l, s) \ {v})
          /\ Cardinality(Counted(vtepHw, l, s) \ {v}) = Cardinality(Counted(vtepHw, l, s)) - 1
      BY <3>1, <3>2, FS_RemoveElement
    <3>4. Cardinality(Counted(vtepHw, l, s)) \in Nat /\ Cardinality(Counted(vtepHw, l, s) \ {v}) \in Nat
      BY <3>2, <3>3, FS_CardinalityType
    <3>5. vxlanVlans[l0][s0] # 0
      BY <2>2, <2>3, <3>3, <3>4
    <3>6. QED
      BY <1>4, <2>2, <2>3, <3>1, <3>3, <3>5
  <2>4. CASE l # l0 \/ s # s0
    <3>1. Counted(vtepHw', l, s) = Counted(vtepHw, l, s)
      BY <1>3, <2>4 DEF Counted
    <3>2. QED
      BY <1>4, <2>2, <2>4, <3>1
  <2>5. QED
    BY <2>3, <2>4
<1>9. VlanCountsUsers'
  BY <1>8 DEF VlanCountsUsers, Counted
<1>10. QED
  BY <1>3, <1>4, <1>5, <1>7, <1>9

-----------------------------------------------------------------------------
(* The actions                                                              *)

LEMMA VxlanInitInv == VxlanConstants /\ VxlanInit => VtepIInv
<1>1. SUFFICES ASSUME VxlanConstants, VxlanInit PROVE VtepIInv
  OBVIOUS
<1>2. VxlanTypeOK
  BY <1>1 DEF VxlanInit, VxlanTypeOK, NoPort
<1>3. \A v \in Vteps : ~Exists(v) /\ ~InHardware(v) /\ vtepDb[v] = NoVtep
  BY <1>1 DEF VxlanInit, Exists, InHardware
<1>4. MachinesSane /\ NoneDeleted /\ HardwareHasVxlan /\ HardwareFollowsMachine
  BY <1>1, <1>3 DEF VxlanInit, MachinesSane, NoneDeleted, HardwareHasVxlan, HardwareFollowsMachine
<1>5. VlanCountsUsers
  <2>1. SUFFICES ASSUME NEW l \in Vlans, NEW s \in Srcs
                 PROVE  vxlanVlans[l][s] = Cardinality({v \in vtepHw : VtepCfg[v].vlan = l /\ VtepCfg[v].src = s})
    BY DEF VlanCountsUsers
  <2>2. {v \in vtepHw : VtepCfg[v].vlan = l /\ VtepCfg[v].src = s} = {} /\ vxlanVlans[l][s] = 0
    BY <1>1 DEF VxlanInit
  <2>3. QED
    BY <2>2, FS_EmptySet
<1>6. QED
  BY <1>2, <1>4, <1>5 DEF VtepIInv

\* What a handler makes of its machine.
LEMMA HandlerRuns ==
  ASSUME NEW v \in Vteps, NEW m \in Machine, NEW to \in States, Enters(v, m, to)
  PROVE  /\ vxlanEvents.past \subseteq vxlanEvents'.past
         /\ \E n \in Machine :
              /\ vtepDb' = [vtepDb EXCEPT ![v] = n]
              /\ n.state = m.state /\ n.next = to /\ n.deleted = m.deleted
              /\ \/ n.queue = m.queue
                 \/ \E x \in Events : Sends(to, x, VtepCfg[v].vni, vxlanDb) /\ n.queue = Append(m.queue, x)
<1>1. vxlanEvents.past \subseteq vxlanEvents'.past
  BY DEF Enters, Asks, Happens
<1>2. PICK ok \in BOOLEAN :
         /\ to = "Init" /\ VtepCfg[v].vni \notin vxlanDb => ok
         /\ vtepDb' = [vtepDb EXCEPT ![v] =
              [CASE to = "Init" -> VxlanVtepInit(v, m, ok)
                 [] to = "Interface" -> VxlanVtepInterface(v, m, ok)
                 [] to = "NextHopInfo" -> VxlanVtepNextHopInfo(v, m, ok)
                 [] to = "HwConfig" -> VxlanVtepConfigHw(v, m)
                 [] to = "Start" -> VxlanVtepStartListener(v, m)
                 [] OTHER -> m
               EXCEPT !.next = to]]
  BY DEF Enters
<1> DEFINE h == CASE to = "Init" -> VxlanVtepInit(v, m, ok)
                  [] to = "Interface" -> VxlanVtepInterface(v, m, ok)
                  [] to = "NextHopInfo" -> VxlanVtepNextHopInfo(v, m, ok)
                  [] to = "HwConfig" -> VxlanVtepConfigHw(v, m)
                  [] to = "Start" -> VxlanVtepStartListener(v, m)
                  [] OTHER -> m
           n == [h EXCEPT !.next = to]
           Like(k) == /\ k \in Machine /\ k.state = m.state /\ k.deleted = m.deleted
                      /\ \/ k.queue = m.queue
                         \/ \E x \in Events : Sends(to, x, VtepCfg[v].vni, vxlanDb) /\ k.queue = Append(m.queue, x)
<1>3. ASSUME NEW k \in Machine, k.state = m.state, k.deleted = m.deleted, k.queue = m.queue,
             NEW x \in Events, Sends(to, x, VtepCfg[v].vni, vxlanDb)
      PROVE  Like(Send(k, x))
  <2>1. m.queue \in Seq(Events) /\ Append(m.queue, x) \in Seq(Events)
    BY AppendFacts DEF Machine
  <2>2. Send(k, x) = [k EXCEPT !.queue = Append(m.queue, x)]
    BY <1>3 DEF Send
  <2>3. Send(k, x) \in Machine /\ Send(k, x).queue = Append(m.queue, x)
        /\ Send(k, x).state = m.state /\ Send(k, x).deleted = m.deleted
    BY <1>3, <2>1, <2>2 DEF Machine
  <2>4. QED
    BY <1>3, <2>3
<1>4. Like(m)
  OBVIOUS
<1>5. Like(h)
  <2>1. CASE to = "Init"
    <3>1. h = VxlanVtepInit(v, m, ok)
      BY <2>1
    <3>2. CASE VtepCfg[v].vni \notin vxlanDb
      <4>1. "Detached" \in Events /\ Sends(to, "Detached", VtepCfg[v].vni, vxlanDb)
        BY <2>1, <3>2 DEF Sends, Events
      <4>2. Like(Send(m, "Detached"))
        BY <1>3, <4>1
      <4>3. QED
        BY <3>1, <3>2, <4>2 DEF VxlanVtepInit
    <3>3. CASE VtepCfg[v].vni \in vxlanDb
      <4>1. "SrcInterfaceResolved" \in Events /\ Sends(to, "SrcInterfaceResolved", VtepCfg[v].vni, vxlanDb)
        BY <2>1, <3>3 DEF Sends, Events
      <4>2. Like(Send(m, "SrcInterfaceResolved"))
        BY <1>3, <4>1
      <4>3. h = Send(m, "SrcInterfaceResolved") \/ h = m
        BY <3>1, <3>3 DEF VxlanVtepInit
      <4> HIDE DEF h, Like
      <4>4. QED
        BY <1>4, <4>2, <4>3
    <3>4. QED
      BY <3>2, <3>3
  <2>2. CASE to = "Interface"
    <3> DEFINE k == [m EXCEPT !.srcIp = TRUE]
    <3>1. k \in Machine /\ k.state = m.state /\ k.deleted = m.deleted /\ k.queue = m.queue
      BY DEF Machine
    <3>2. h = Send(k, "NextHopInfoResolved") \/ h = k
      BY <2>2 DEF VxlanVtepInterface
    <3>3. "NextHopInfoResolved" \in Events /\ Sends(to, "NextHopInfoResolved", VtepCfg[v].vni, vxlanDb)
      BY <2>2 DEF Sends, Events
    <3> HIDE DEF h, k
    <3>4. Like(Send(k, "NextHopInfoResolved"))
      BY <1>3, <3>1, <3>3
    <3>5. Like(k)
      BY <3>1
    <3> HIDE DEF Like
    <3>6. QED
      BY <3>2, <3>4, <3>5
  <2>3. CASE to = "NextHopInfo"
    <3>1. "NextHopInfoMacResolved" \in Events /\ Sends(to, "NextHopInfoMacResolved", VtepCfg[v].vni, vxlanDb)
      BY <2>3 DEF Sends, Events
    <3>2. Like(Send(m, "NextHopInfoMacResolved"))
      BY <1>3, <3>1
    <3>3. h = Send(m, "NextHopInfoMacResolved") \/ h = m
      BY <2>3 DEF VxlanVtepNextHopInfo
    <3> HIDE DEF h, Like
    <3>4. QED
      BY <1>4, <3>2, <3>3
  <2>4. CASE to = "HwConfig"
    <3> DEFINE k == Send(m, "HwConfigComplete")
    <3>1. "HwConfigComplete" \in Events /\ Sends(to, "HwConfigComplete", VtepCfg[v].vni, vxlanDb)
      BY <2>4 DEF Sends, Events
    <3>2. Like(k)
      BY <1>3, <3>1
    <3>3. h = [k EXCEPT !.timer = "stopped"]
      BY <2>4 DEF VxlanVtepConfigHw
    <3> HIDE DEF h, k
    <3>4. h \in Machine /\ h.state = k.state /\ h.deleted = k.deleted /\ h.queue = k.queue
      BY <3>2, <3>3 DEF Machine
    <3>5. QED
      BY <3>2, <3>4
  <2>5. CASE to = "Start"
    <3>1. h = [m EXCEPT !.handle = TRUE]
      BY <2>5 DEF VxlanVtepStartListener
    <3> HIDE DEF h
    <3>2. h \in Machine /\ h.state = m.state /\ h.deleted = m.deleted /\ h.queue = m.queue
      BY <3>1 DEF Machine
    <3>3. QED
      BY <3>2
  <2>6. CASE to \notin {"Init", "Interface", "NextHopInfo", "HwConfig", "Start"}
    <3>1. h = m
      BY <2>6
    <3> HIDE DEF h, Like
    <3>2. QED
      BY <1>4, <3>1
  <2>7. QED
    BY <2>1, <2>2, <2>3, <2>4, <2>5, <2>6
<1>6. vtepDb' = [vtepDb EXCEPT ![v] = n]
  BY <1>2
<1> HIDE DEF h
<1>7. n \in Machine /\ n.state = h.state /\ n.next = to /\ n.deleted = h.deleted /\ n.queue = h.queue
  BY <1>5 DEF Machine
<1> HIDE DEF n
<1>8. QED
  BY <1>1, <1>5, <1>6, <1>7

\* A machine takes an event, or its retry timer expires: m is the machine with
\* what is left in its queue.
LEMMA MachineTakes ==
  ASSUME VxlanConstants, VtepIInv, NEW v \in Vteps, Exists(v), vtepDb[v].next = "idle",
         NEW m \in Machine, m.state = vtepDb[v].state, m.next = "idle", ~m.deleted,
         NEW e, TakenFrom(vtepDb[v], e, m.queue), Takes(v, m, e)
  PROVE  VtepIInv'
<1> DEFINE o == vtepDb[v]
           vni == VtepCfg[v].vni
           to == VxlanVtepMachineFSMBuild(m.state, e)
<1>1. /\ o \in Machine /\ Sane(o, vni, vxlanDb)
      /\ "missed" \notin vxlanEvents.past /\ vni \in vxlanDb => Awake(o)
  BY DEF VtepIInv, VxlanTypeOK, MachinesSane, Exists
<1>2. VxlanTypeOK /\ MachinesSane /\ NoneDeleted
  BY DEF VtepIInv
<1>3. InHardware(v) <=> m.state \in {"HwConfig", "Start"}
  BY DEF InHardware
<1>4. CASE to = "none"
  <2>1. vtepDb' = [vtepDb EXCEPT ![v] = m] /\ UNCHANGED <<vxlanDb, vtepHw, vxlanVlans, vxlanPorts, vxlanCrash, vxlanEvents>>
    BY <1>4 DEF Takes
  <2>2. Sane(m, vni, vxlanDb) /\ (Awake(o) => Awake(m))
    BY <1>1, <1>4, EventDropped
  <2>3. vxlanEvents.past \subseteq vxlanEvents'.past /\ vxlanDb' = vxlanDb
    BY <2>1
  <2>4. "missed" \notin vxlanEvents'.past /\ vni \in vxlanDb => Awake(m)
    BY <1>1, <2>1, <2>2
  <2> HIDE DEF o, vni, to
  <2>5. /\ vtepDb' \in [Vteps -> {NoVtep} \cup Machine]
        /\ MachinesSane' /\ NoneDeleted'
        /\ vtepDb'[v] = m /\ Exists(v)'
        /\ \A w \in Vteps : w # v => (InHardware(w)' <=> InHardware(w))
    BY <1>2, <2>1, <2>2, <2>3, <2>4, MachineReplaced DEF vni
  <2>6. InHardware(v)' <=> InHardware(v)
    BY <1>3, <2>5 DEF InHardware
  <2>7. HardwareHasVxlan' /\ HardwareFollowsMachine' /\ VlanCountsUsers'
    <3>1. \A w \in Vteps : InHardware(w)' <=> InHardware(w)
      BY <2>5, <2>6
    <3>2. vxlanDb \subseteq vxlanDb' /\ UNCHANGED <<vtepHw, vxlanVlans>>
      BY <2>1
    <3>3. QED
      BY <2>3, <3>1, <3>2, HardwareUntouched
  <2>8. VxlanTypeOK'
    BY <1>2, <2>1, <2>5 DEF VxlanTypeOK
  <2>9. QED
    BY <2>5, <2>7, <2>8 DEF VtepIInv
<1>5. CASE to # "none"
  <2>1. Enters(v, m, to)
    BY <1>5 DEF Takes
  <2>2. to \in States
    <3>1. m.state \in States
      BY DEF Machine
    <3>2. QED
      BY <1>5, <3>1 DEF VxlanVtepMachineFSMBuild, States
  <2>3. vxlanEvents.past \subseteq vxlanEvents'.past
    BY <2>1, <2>2, HandlerRuns
  <2>4. PICK n \in Machine :
           /\ vtepDb' = [vtepDb EXCEPT ![v] = n]
           /\ n.state = m.state /\ n.next = to /\ n.deleted = m.deleted
           /\ \/ n.queue = m.queue
              \/ \E x \in Events : Sends(to, x, vni, vxlanDb) /\ n.queue = Append(m.queue, x)
    BY <2>1, <2>2, HandlerRuns
  <2>5. /\ Sane(n, vni, vxlanDb)
        /\ vni \in vxlanDb /\ Awake(o) => Awake(n)
        /\ to = "HwConfig" => vni \in vxlanDb /\ m.state = "ResolveNextHopMac"
    <3>1. to = VxlanVtepMachineFSMBuild(o.state, e) /\ n.state = o.state
      BY <2>4
    <3> HIDE DEF to, o, vni
    <3>2. o.next = "idle" /\ TakenFrom(o, e, m.queue) /\ m.state = o.state
      BY DEF o
    <3>3. QED
      BY <1>1, <1>5, <2>4, <3>1, <3>2, EventTaken
  <2>6. "missed" \notin vxlanEvents'.past /\ vni \in vxlanDb => Awake(n)
    BY <1>1, <2>3, <2>5
  <2>7. vxlanDb' = vxlanDb /\ vxlanCrash' = vxlanCrash /\ vxlanPorts' \in [Ports -> Int]
    <3>1. vxlanPorts \in [Ports -> Int]
      BY <1>2 DEF VxlanTypeOK
    <3>2. CreatePort(VtepCfg[v].port) \in [Ports -> Int]
      <4>1. VtepCfg[v].port \in Ports
        BY DEF Ports
      <4>2. QED
        BY <3>1, <4>1 DEF CreatePort
    <3>3. QED
      BY <2>1, <3>1, <3>2 DEF Enters
  <2> HIDE DEF o, vni
  <2>8. /\ vtepDb' \in [Vteps -> {NoVtep} \cup Machine]
        /\ MachinesSane' /\ NoneDeleted'
        /\ vtepDb'[v] = n /\ Exists(v)'
        /\ \A w \in Vteps : w # v => (InHardware(w)' <=> InHardware(w))
    <3>1. ~n.deleted /\ vtepDb' = [vtepDb EXCEPT ![v] = n]
      BY <2>4
    <3>2. QED
      BY <1>2, <2>3, <2>5, <2>6, <2>7, <3>1, MachineReplaced DEF vni
  <2>9. InHardware(v)' <=> m.state \in {"HwConfig", "Start"} \/ to = "HwConfig"
    BY <2>4, <2>8 DEF InHardware
  <2>10. CASE to = "HwConfig"
    <3>1. HwCreateVtep(v)
      BY <2>1, <2>10 DEF Enters
    <3>2. ~InHardware(v) /\ InHardware(v)' /\ VtepCfg[v].vni \in vxlanDb
      BY <1>3, <2>5, <2>9, <2>10 DEF vni
    <3>3. /\ HardwareHasVxlan' /\ HardwareFollowsMachine' /\ VlanCountsUsers'
          /\ vtepHw' \subseteq Vteps /\ vxlanVlans' \in [Vlans -> [Srcs -> Nat]]
      BY <2>3, <2>7, <2>8, <3>1, <3>2, HardwareAdded
    <3>4. VxlanTypeOK'
      BY <1>2, <2>7, <2>8, <3>3 DEF VxlanTypeOK
    <3>5. QED
      BY <2>8, <3>3, <3>4 DEF VtepIInv
  <2>11. CASE to # "HwConfig"
    <3>1. UNCHANGED <<vtepHw, vxlanVlans>> /\ vxlanDb \subseteq vxlanDb'
      BY <2>1, <2>7, <2>11 DEF Enters
    <3>2. \A w \in Vteps : InHardware(w)' <=> InHardware(w)
      BY <1>3, <2>8, <2>9, <2>11
    <3>3. HardwareHasVxlan' /\ HardwareFollowsMachine' /\ VlanCountsUsers'
      BY <2>3, <3>1, <3>2, HardwareUntouched
    <3>4. VxlanTypeOK'
      BY <1>2, <2>7, <2>8, <3>1 DEF VxlanTypeOK
    <3>5. QED
      BY <2>8, <3>3, <3>4 DEF VtepIInv
  <2>12. QED
    BY <2>10, <2>11
<1>6. QED
  BY <1>4, <1>5

LEMMA TakeEventInv ==
  ASSUME VxlanConstants, VtepIInv, NEW v \in Vteps, TakeEvent(v)
  PROVE  VtepIInv'
<1> DEFINE m == [vtepDb[v] EXCEPT !.queue = Tail(@)]
<1>1. Exists(v) /\ vtepDb[v].next = "idle" /\ vtepDb[v].queue # <<>> /\ vtepDb[v] \in Machine
  BY DEF TakeEvent, Runs, VtepIInv, VxlanTypeOK, Exists
<1>2. vtepDb[v].queue \in Seq(Events) /\ Tail(vtepDb[v].queue) \in Seq(Events)
  BY <1>1, TailFacts DEF Machine
<1>3. /\ m \in Machine /\ m.state = vtepDb[v].state /\ m.next = "idle" /\ ~m.deleted
      /\ m.queue = Tail(vtepDb[v].queue)
  BY <1>1, <1>2 DEF Machine, Exists
<1>4. Takes(v, m, Head(vtepDb[v].queue))
  BY DEF TakeEvent
<1> HIDE DEF m
<1>5. TakenFrom(vtepDb[v], Head(vtepDb[v].queue), m.queue)
  BY <1>1, <1>3 DEF TakenFrom
<1>6. QED
  BY <1>1, <1>3, <1>4, <1>5, MachineTakes

LEMMA RetryTimerInv ==
  ASSUME VxlanConstants, VtepIInv, NEW v \in Vteps, RetryTimerExpires(v)
  PROVE  VtepIInv'
<1>1. Exists(v) /\ vtepDb[v].next = "idle" /\ vtepDb[v].queue = <<>> /\ vtepDb[v] \in Machine
  BY DEF RetryTimerExpires, Runs, VtepIInv, VxlanTypeOK, Exists
<1>2. TakenFrom(vtepDb[v], "RetryTimerExpired", vtepDb[v].queue) /\ ~vtepDb[v].deleted
  BY <1>1 DEF TakenFrom, Exists
<1>3. Takes(v, vtepDb[v], "RetryTimerExpired")
  BY DEF RetryTimerExpires
<1>4. QED
  BY <1>1, <1>2, <1>3, MachineTakes

LEMMA StateStoredInv ==
  ASSUME VxlanConstants, VtepIInv, NEW v \in Vteps, ProcessPostStateProcessing(v)
  PROVE  VtepIInv'
<1> DEFINE o == vtepDb[v]
           vni == VtepCfg[v].vni
           s == [o EXCEPT !.state = o.next, !.next = "idle"]
           n == IF s.state = "ResolveNextHopMac" THEN Send(s, "FallThrough") ELSE s
<1>1. /\ o \in Machine /\ Sane(o, vni, vxlanDb) /\ o.next # "idle" /\ Exists(v) /\ ~o.deleted
      /\ "missed" \notin vxlanEvents.past /\ vni \in vxlanDb => Awake(o)
  BY DEF VtepIInv, VxlanTypeOK, MachinesSane, Exists, ProcessPostStateProcessing
<1>2. /\ vtepDb' = [vtepDb EXCEPT ![v] = n]
      /\ UNCHANGED <<vxlanDb, vtepHw, vxlanVlans, vxlanPorts, vxlanCrash, vxlanEvents>>
  BY DEF ProcessPostStateProcessing
<1>3. o.next \in States /\ o.queue \in Seq(Events)
  BY <1>1 DEF Machine
<1>4. s \in Machine /\ s.state = o.next /\ s.next = "idle" /\ s.queue = o.queue /\ ~s.deleted
  BY <1>1, <1>3 DEF Machine
<1> HIDE DEF s, o
<1>5. /\ Send(s, "FallThrough") \in Machine /\ Send(s, "FallThrough").state = o.next
      /\ Send(s, "FallThrough").next = "idle" /\ ~Send(s, "FallThrough").deleted
      /\ Send(s, "FallThrough").queue = Append(o.queue, "FallThrough")
  <2>1. "FallThrough" \in Events
    BY DEF Events
  <2>2. Append(o.queue, "FallThrough") \in Seq(Events)
    BY <1>3, <2>1, AppendFacts
  <2>3. QED
    BY <1>4, <2>2 DEF Send, Machine
<1>6. /\ n \in Machine /\ n.state = o.next /\ n.next = "idle" /\ ~n.deleted
      /\ \/ n.queue = o.queue
         \/ o.next = "ResolveNextHopMac" /\ n.queue = Append(o.queue, "FallThrough")
  <2>1. CASE s.state = "ResolveNextHopMac"
    <3>1. n = Send(s, "FallThrough")
      BY <2>1
    <3> HIDE DEF n
    <3>2. QED
      BY <1>4, <1>5, <2>1, <3>1
  <2>2. CASE s.state # "ResolveNextHopMac"
    BY <1>4, <2>2
  <2>3. QED
    BY <2>1, <2>2
<1> HIDE DEF n, vni
<1>7. /\ Sane(n, vni, vxlanDb) /\ (Awake(o) => Awake(n))
      /\ n.state \in {"HwConfig", "Start"} <=> o.state \in {"HwConfig", "Start"} \/ o.next = "HwConfig"
  BY <1>1, <1>6, StateStored
<1>8. vxlanEvents.past \subseteq vxlanEvents'.past /\ vxlanDb' = vxlanDb
      /\ ("missed" \notin vxlanEvents'.past /\ vni \in vxlanDb => Awake(n))
  BY <1>1, <1>2, <1>7
<1>9. /\ vtepDb' \in [Vteps -> {NoVtep} \cup Machine]
      /\ MachinesSane' /\ NoneDeleted'
      /\ vtepDb'[v] = n /\ Exists(v)'
      /\ \A w \in Vteps : w # v => (InHardware(w)' <=> InHardware(w))
  BY <1>2, <1>6, <1>7, <1>8, MachineReplaced DEF vni, VtepIInv
<1>10. InHardware(v)' <=> InHardware(v)
  BY <1>1, <1>6, <1>7, <1>9 DEF InHardware, o
<1>11. HardwareHasVxlan' /\ HardwareFollowsMachine' /\ VlanCountsUsers'
  <2>1. \A w \in Vteps : InHardware(w)' <=> InHardware(w)
    BY <1>9, <1>10
  <2>2. vxlanDb \subseteq vxlanDb' /\ UNCHANGED <<vtepHw, vxlanVlans>>
    BY <1>2
  <2>3. QED
    BY <1>8, <2>1, <2>2, HardwareUntouched
<1>12. VxlanTypeOK'
  BY <1>2, <1>9 DEF VxlanTypeOK, VtepIInv
<1>13. QED
  BY <1>9, <1>11, <1>12 DEF VtepIInv

\* Steps that leave all tables as they are.
LEMMA TablesUntouched ==
  ASSUME VtepIInv, UNCHANGED <<vxlanDb, vtepDb, vtepHw, vxlanVlans, vxlanPorts>>,
         vxlanEvents.past \subseteq vxlanEvents'.past, vxlanCrash' \in {"none", "stopped", "handle"}
  PROVE  VtepIInv'
<1>1. VxlanTypeOK'
  BY DEF VtepIInv, VxlanTypeOK
<1>2. \A v \in Vteps : (Exists(v)' <=> Exists(v)) /\ (InHardware(v)' <=> InHardware(v))
  BY DEF Exists, InHardware
<1>3. MachinesSane'
  BY <1>2 DEF VtepIInv, MachinesSane, Sane, Awake, BecomesDetached, Current, Begun
<1>4. NoneDeleted'
  BY DEF VtepIInv, NoneDeleted, Undisturbed
<1>5. HardwareHasVxlan' /\ HardwareFollowsMachine' /\ VlanCountsUsers'
  <2>1. vxlanDb \subseteq vxlanDb'
    OBVIOUS
  <2>2. QED
    BY <1>2, <2>1, HardwareUntouched
<1>6. QED
  BY <1>1, <1>3, <1>4, <1>5 DEF VtepIInv

LEMMA CreateVxlanInv ==
  ASSUME VtepIInv, NEW c \in Vnis, CreateVxLAN(c)
  PROVE  VtepIInv'
<1>1. /\ vxlanDb' = vxlanDb \cup {c} /\ vtepDb' = WakeDetached(c, vtepDb)
      /\ UNCHANGED <<vtepHw, vxlanVlans, vxlanPorts, vxlanCrash>>
      /\ vxlanEvents.past \subseteq vxlanEvents'.past
      /\ (\E v \in Vteps : Exists(v) /\ VtepCfg[v].vni = c /\ BecomesDetached(vtepDb[v])) => "missed" \in vxlanEvents'.past
  BY DEF CreateVxLAN, Happens
<1>2. ASSUME NEW v \in Vteps, ~Exists(v)
      PROVE  vtepDb'[v] = vtepDb[v] /\ ~Exists(v)' /\ ~InHardware(v)' /\ ~InHardware(v)
  <2>1. vtepDb'[v] = vtepDb[v]
    BY <1>1, <1>2 DEF WakeDetached, Exists
  <2>2. QED
    BY <1>2, <2>1 DEF Exists, InHardware
<1>3. ASSUME NEW v \in Vteps, Exists(v)
      PROVE  /\ vtepDb'[v] \in Machine
             /\ vtepDb'[v].state = vtepDb[v].state /\ vtepDb'[v].next = vtepDb[v].next /\ ~vtepDb'[v].deleted
             /\ IF vtepDb[v].state = "Detached" THEN vtepDb'[v].queue = Append(vtepDb[v].queue, "Begin")
                ELSE vtepDb'[v].queue = vtepDb[v].queue
  <2>1. vtepDb[v] \in Machine /\ ~vtepDb[v].deleted /\ vtepDb[v] # NoVtep
    BY <1>3 DEF VtepIInv, VxlanTypeOK, Exists
  <2>2. CASE vtepDb[v].state = "Detached"
    <3>1. vtepDb'[v] = [vtepDb[v] EXCEPT !.queue = Append(vtepDb[v].queue, "Begin")]
      BY <1>1, <2>1, <2>2 DEF WakeDetached, Send
    <3>2. vtepDb[v].queue \in Seq(Events) /\ "Begin" \in Events
      BY <2>1 DEF Machine, Events
    <3>3. Append(vtepDb[v].queue, "Begin") \in Seq(Events)
      BY <3>2, AppendFacts
    <3>4. QED
      BY <2>1, <2>2, <3>1, <3>3 DEF Machine
  <2>3. CASE vtepDb[v].state # "Detached"
    <3>1. vtepDb'[v] = vtepDb[v]
      BY <1>1, <2>1, <2>3 DEF WakeDetached
    <3>2. QED
      BY <2>1, <2>3, <3>1
  <2>4. QED
    BY <2>2, <2>3
<1>4. ASSUME NEW v \in Vteps, Exists(v)
      PROVE  InHardware(v)' <=> InHardware(v)
  <2>1. Exists(v)'
    BY <1>3, <1>4, NoVtepIsNoMachine DEF Exists
  <2>2. QED
    BY <1>3, <1>4, <2>1 DEF InHardware
<1>5. vtepDb' \in [Vteps -> {NoVtep} \cup Machine]
  <2>1. vtepDb' = [v \in Vteps |-> vtepDb'[v]]
    BY <1>1 DEF WakeDetached
  <2>2. \A v \in Vteps : vtepDb'[v] \in {NoVtep} \cup Machine
    BY <1>2, <1>3 DEF VtepIInv, VxlanTypeOK
  <2>3. QED
    BY <2>1, <2>2
<1>6. VxlanTypeOK'
  BY <1>1, <1>5 DEF VtepIInv, VxlanTypeOK
<1>7. ASSUME NEW v \in Vteps, Exists(v)
      PROVE  /\ Sane(vtepDb'[v], VtepCfg[v].vni, vxlanDb')
             /\ "missed" \notin vxlanEvents'.past /\ VtepCfg[v].vni \in vxlanDb' => Awake(vtepDb'[v])
  <2> DEFINE m == vtepDb[v]
             n == vtepDb'[v]
  <2>1. /\ m \in Machine /\ Sane(m, VtepCfg[v].vni, vxlanDb)
        /\ "missed" \notin vxlanEvents.past /\ VtepCfg[v].vni \in vxlanDb => Awake(m)
    BY <1>7 DEF VtepIInv, VxlanTypeOK, MachinesSane, Exists
  <2>2. /\ n.state = m.state /\ n.next = m.next
        /\ IF m.state = "Detached" THEN n.queue = Append(m.queue, "Begin") ELSE n.queue = m.queue
    BY <1>3, <1>7
  <2>3. "missed" \notin vxlanEvents'.past /\ VtepCfg[v].vni \in vxlanDb' => ~BecomesDetached(m)
    <3>1. VtepCfg[v].vni \in vxlanDb /\ "missed" \notin vxlanEvents'.past => ~BecomesDetached(m)
      BY <1>1, <2>1 DEF Awake
    <3>2. VtepCfg[v].vni = c /\ "missed" \notin vxlanEvents'.past => ~BecomesDetached(m)
      BY <1>1, <1>7
    <3>3. QED
      BY <1>1, <3>1, <3>2
  <2> HIDE DEF m, n
  <2>4. Sane(n, VtepCfg[v].vni, vxlanDb \cup {c}) /\ (~BecomesDetached(m) => Awake(n))
    BY <2>1, <2>2, MachineWoken
  <2>5. QED
    BY <1>1, <2>3, <2>4 DEF n
<1>8. MachinesSane'
  <2>1. \A v \in Vteps : Exists(v)' => Exists(v)
    BY <1>2
  <2>2. QED
    BY <1>7, <2>1 DEF MachinesSane, Sane, Awake, BecomesDetached, Current, Begun
<1>9. NoneDeleted'
  <2>1. Undisturbed' => Undisturbed
    BY <1>1 DEF Undisturbed
  <2>2. QED
    BY <1>2, <1>3, <2>1 DEF VtepIInv, NoneDeleted
<1>10. HardwareHasVxlan' /\ HardwareFollowsMachine' /\ VlanCountsUsers'
  <2>1. \A v \in Vteps : InHardware(v)' <=> InHardware(v)
    BY <1>2, <1>4
  <2>2. vxlanDb \subseteq vxlanDb' /\ UNCHANGED <<vtepHw, vxlanVlans>>
    BY <1>1
  <2>3. QED
    BY <1>1, <2>1, <2>2, HardwareUntouched
<1>11. QED
  BY <1>6, <1>8, <1>9, <1>10 DEF VtepIInv

LEMMA CreateVtepInv ==
  ASSUME VtepIInv, NEW v \in Vteps, CreateVtep(v)
  PROVE  VtepIInv'
<1> DEFINE n == NewVtepDbEntry
<1>1. /\ vtepDb[v] = NoVtep /\ vtepDb' = [vtepDb EXCEPT ![v] = n]
      /\ UNCHANGED <<vxlanDb, vtepHw, vxlanVlans, vxlanPorts, vxlanCrash>>
      /\ vxlanEvents.past \subseteq vxlanEvents'.past
  BY DEF CreateVtep, Happens
<1>2. /\ n \in Machine /\ n.state = "None" /\ n.next = "idle" /\ ~n.deleted /\ n.queue = <<"Begin">>
  <2>1. <<"Begin">> \in Seq(Events)
    BY DEF Events
  <2>2. QED
    BY <2>1 DEF NewVtepDbEntry, Machine, States
<1> HIDE DEF n
<1>3. /\ Ordered(n.queue) /\ ~HasOnward(n.queue)
      /\ \A x : Has(n.queue, x) <=> x = "Begin"
  <2>1. DOMAIN n.queue = {1} /\ n.queue[1] = "Begin"
    BY <1>2
  <2>2. QED
    BY <2>1 DEF Ordered, Has, HasOnward, Onward
<1>4. ~Begun(n) /\ Current(n) = "None"
  BY <1>2, <1>3 DEF Begun, Current, Resolving
<1>5. Sane(n, VtepCfg[v].vni, vxlanDb)
  BY <1>2, <1>3, <1>4 DEF Sane, Resolving
<1>6. Awake(n)
  BY <1>2, <1>3 DEF Awake, BecomesDetached, Has
<1>7. /\ vtepDb' \in [Vteps -> {NoVtep} \cup Machine]
      /\ MachinesSane' /\ NoneDeleted'
      /\ vtepDb'[v] = n /\ Exists(v)'
      /\ \A w \in Vteps : w # v => (InHardware(w)' <=> InHardware(w))
  BY <1>1, <1>2, <1>5, <1>6, MachineReplaced DEF VtepIInv
<1>8. ~InHardware(v) /\ ~InHardware(v)'
  BY <1>1, <1>2, <1>7 DEF InHardware, Exists
<1>9. HardwareHasVxlan' /\ HardwareFollowsMachine' /\ VlanCountsUsers'
  <2>1. \A w \in Vteps : InHardware(w)' <=> InHardware(w)
    BY <1>7, <1>8
  <2>2. vxlanDb \subseteq vxlanDb' /\ UNCHANGED <<vtepHw, vxlanVlans>>
    BY <1>1
  <2>3. QED
    BY <1>1, <2>1, <2>2, HardwareUntouched
<1>10. VxlanTypeOK'
  BY <1>1, <1>7 DEF VxlanTypeOK, VtepIInv
<1>11. QED
  BY <1>7, <1>9, <1>10 DEF VtepIInv

LEMMA DeleteVtepInv ==
  ASSUME VxlanConstants, VtepIInv, NEW v \in Vteps, DeleteVtep(v)
  PROVE  VtepIInv'
<1> DEFINE o == vtepDb[v]
           atWork == o.next # "idle" \/ o.queue # <<>>
           n == IF atWork THEN [o EXCEPT !.deleted = TRUE] ELSE NoVtep
<1>1. /\ Exists(v) /\ DeProvisionVtep(v) /\ vtepDb' = [vtepDb EXCEPT ![v] = n]
      /\ UNCHANGED <<vxlanDb, vxlanCrash>>
      /\ vxlanEvents.past \subseteq vxlanEvents'.past
      /\ atWork => "deletedAtWork" \in vxlanEvents'.past
  BY DEF DeleteVtep, Happens
<1>2. o \in Machine
  BY <1>1 DEF VtepIInv, VxlanTypeOK, Exists
<1>3. n \in {NoVtep} \cup Machine /\ (n # NoVtep => n.deleted)
  BY <1>2 DEF Machine
<1>4. /\ vtepDb' \in [Vteps -> {NoVtep} \cup Machine] /\ vtepDb'[v] = n
      /\ \A w \in Vteps : w # v => vtepDb'[w] = vtepDb[w]
  <2> HIDE DEF n
  <2>1. QED
    BY <1>1, <1>3 DEF VtepIInv, VxlanTypeOK
<1>5. ~Exists(v)' /\ ~InHardware(v)'
  <2> HIDE DEF n
  <2>1. QED
    BY <1>3, <1>4 DEF Exists, InHardware
<1>6. \A w \in Vteps : w # v => (Exists(w)' <=> Exists(w)) /\ (InHardware(w)' <=> InHardware(w))
  BY <1>4 DEF Exists, InHardware
<1>7. MachinesSane'
  <2>1. ASSUME NEW w \in Vteps, Exists(w)'
        PROVE  /\ Sane(vtepDb'[w], VtepCfg[w].vni, vxlanDb')
               /\ "missed" \notin vxlanEvents'.past /\ VtepCfg[w].vni \in vxlanDb' => Awake(vtepDb'[w])
    <3>1. w # v /\ Exists(w) /\ vtepDb'[w] = vtepDb[w]
      BY <1>4, <1>5, <1>6, <2>1
    <3>2. QED
      BY <1>1, <3>1 DEF VtepIInv, MachinesSane
  <2>2. QED
    BY <2>1 DEF MachinesSane, Sane, Awake, BecomesDetached, Current, Begun
<1>8. /\ vtepHw' \subseteq vtepHw /\ vtepHw' \subseteq Vteps
      /\ vxlanVlans' \in [Vlans -> [Srcs -> Nat]] /\ vxlanPorts' \in [Ports -> Int]
  <2>1. CASE o.state \in {"Start", "HwConfig"}
    <3>1. HwDeleteVtep(v) /\ vxlanPorts' = DeletePort(VtepCfg[v].port)
      BY <1>1, <2>1 DEF DeProvisionVtep
    <3>2. VtepCfg[v].port \in Ports /\ vxlanPorts \in [Ports -> Int]
      BY DEF Ports, VtepIInv, VxlanTypeOK
    <3>3. DeletePort(VtepCfg[v].port) \in [Ports -> Int]
      BY <3>2 DEF DeletePort, NoPort
    <3>4. vtepHw' = vtepHw \ {v} /\ vtepHw' \subseteq Vteps /\ vxlanVlans' \in [Vlans -> [Srcs -> Nat]]
      BY <3>1, VlanReleased DEF VtepIInv
    <3>5. QED
      BY <3>1, <3>3, <3>4
  <2>2. CASE o.state \notin {"Start", "HwConfig"}
    BY <1>1, <2>2 DEF DeProvisionVtep, VtepIInv, VxlanTypeOK
  <2>3. QED
    BY <2>1, <2>2
<1>9. VxlanTypeOK'
  BY <1>1, <1>4, <1>8 DEF VtepIInv, VxlanTypeOK
<1>10. HardwareHasVxlan'
  BY <1>1, <1>8 DEF VtepIInv, HardwareHasVxlan
<1>11. CASE atWork
  <2>1. ~Undisturbed'
    BY <1>1, <1>11 DEF Undisturbed
  <2>2. QED
    BY <1>7, <1>9, <1>10, <2>1 DEF VtepIInv, NoneDeleted, HardwareFollowsMachine, VlanCountsUsers
<1>12. CASE ~atWork
  <2>1. n = NoVtep /\ (InHardware(v) <=> o.state \in {"HwConfig", "Start"})
    BY <1>1, <1>12 DEF InHardware
  <2>2. NoneDeleted'
    <3> HIDE DEF n
    <3>1. Undisturbed' => Undisturbed
      BY <1>1 DEF Undisturbed
    <3>2. QED
      BY <1>4, <2>1, <3>1 DEF VtepIInv, NoneDeleted
  <2>3. HardwareFollowsMachine' /\ VlanCountsUsers'
    <3>1. CASE o.state \in {"Start", "HwConfig"}
      <4>1. HwDeleteVtep(v) /\ InHardware(v) /\ vxlanDb' = vxlanDb
        BY <1>1, <2>1, <3>1 DEF DeProvisionVtep
      <4>2. QED
        BY <1>1, <1>5, <1>6, <4>1, HardwareRemoved
    <3>2. CASE o.state \notin {"Start", "HwConfig"}
      <4>1. UNCHANGED <<vtepHw, vxlanVlans>> /\ vxlanDb \subseteq vxlanDb'
        BY <1>1, <3>2 DEF DeProvisionVtep
      <4>2. \A w \in Vteps : InHardware(w)' <=> InHardware(w)
        BY <1>5, <1>6, <2>1, <3>2
      <4>3. QED
        BY <1>1, <4>1, <4>2, HardwareUntouched
    <3>3. QED
      BY <3>1, <3>2
  <2>4. QED
    BY <1>7, <1>9, <1>10, <2>2, <2>3 DEF VtepIInv
<1>13. QED
  BY <1>11, <1>12

LEMMA VxlanNextInv ==
  ASSUME VxlanConstants, VtepIInv, [VxlanNext]_vxlanVars
  PROVE  VtepIInv'
<1>1. ASSUME UNCHANGED vxlanVars
      PROVE  VtepIInv'
  <2>1. /\ UNCHANGED <<vxlanDb, vtepDb, vtepHw, vxlanVlans, vxlanPorts>>
        /\ vxlanEvents.past \subseteq vxlanEvents'.past /\ vxlanCrash' \in {"none", "stopped", "handle"}
    BY <1>1 DEF vxlanVars, VtepIInv, VxlanTypeOK
  <2>2. QED
    BY <2>1, TablesUntouched
<1>2. ASSUME NEW v \in Vteps, StoppedMachinePanics(v) \/ DecapAndDispatchPkt(v)
      PROVE  VtepIInv'
  <2>1. /\ UNCHANGED <<vxlanDb, vtepDb, vtepHw, vxlanVlans, vxlanPorts>>
        /\ vxlanEvents.past \subseteq vxlanEvents'.past /\ vxlanCrash' \in {"none", "stopped", "handle"}
    BY <1>2 DEF StoppedMachinePanics, DecapAndDispatchPkt, Happens
  <2>2. QED
    BY <2>1, TablesUntouched
<1>3. ASSUME NEW c \in Vnis, DeleteVxLAN(c)
      PROVE  VtepIInv'
  <2>1. vxlanDb' = vxlanDb
    BY <1>3 DEF DeleteVxLAN
  <2>2. /\ UNCHANGED <<vtepDb, vtepHw, vxlanVlans, vxlanPorts>>
        /\ vxlanEvents.past \subseteq vxlanEvents'.past /\ vxlanCrash' \in {"none", "stopped", "handle"}
    BY <1>3 DEF DeleteVxLAN, Happens
  <2>3. QED
    BY <2>1, <2>2, TablesUntouched
<1>4. ASSUME ProcessRibdNotification
      PROVE  VtepIInv'
  <2>1. /\ UNCHANGED <<vxlanDb, vtepDb, vtepHw, vxlanVlans, vxlanPorts>>
        /\ vxlanEvents.past \subseteq vxlanEvents'.past /\ vxlanCrash' \in {"none", "stopped", "handle"}
    BY <1>4 DEF ProcessRibdNotification, Happens
  <2>2. QED
    BY <2>1, TablesUntouched
<1>5. QED
  BY <1>1, <1>2, <1>3, <1>4, TakeEventInv, RetryTimerInv, StateStoredInv, CreateVtepInv, DeleteVtepInv, CreateVxlanInv
  DEF VxlanNext, MachineNext

-----------------------------------------------------------------------------
(* The inductive invariant holds in every state of every behaviour of the   *)
(* VTEP machines, the configuration and the packets.                        *)
THEOREM InductiveInvariant ==
  ASSUME VxlanConstants
  PROVE  VxlanSpec => []VtepIInv
<1>1. VxlanInit => VtepIInv
  BY VxlanInitInv
<1>2. VtepIInv /\ [VxlanNext]_vxlanVars => VtepIInv'
  BY VxlanNextInv
<1>3. QED
  BY <1>1, <1>2, PTL DEF VxlanSpec

(* Whatever the interleaving of the machines with the configuration, and    *)
(* whichever client fails: asicd has exactly the VTEPs whose machines have  *)
(* passed hardware configuration and the VLANs count them, unless one was   *)
(* deleted while its machine was at work; no VTEP is in hardware without    *)
(* its VXLAN, and none rests in Detached while its VXLAN exists, unless     *)
(* that was created while the machine was on its way there.                 *)
THEOREM VtepIsSafe ==
  ASSUME VxlanConstants
  PROVE  VxlanSpec => []VtepSafe
<1>1. ASSUME VtepIInv PROVE VtepSafe
  <2>1. ASSUME "missed" \notin vxlanEvents.past, NEW v \in Vteps, Exists(v), vtepDb[v].state = "Detached",
               vtepDb[v].next = "idle", vtepDb[v].queue = <<>>
        PROVE  VtepCfg[v].vni \notin vxlanDb
    <3>1. ~Awake(vtepDb[v])
      BY <2>1, EmptyFacts DEF Awake
    <3>2. QED
      BY <1>1, <2>1, <3>1 DEF VtepIInv, MachinesSane
  <2>2. DetachedOnlyWithoutVxlan
    BY <1>1, <2>1 DEF VtepIInv, HardwareHasVxlan, DetachedOnlyWithoutVxlan
  <2>3. QED
    BY <1>1, <2>2 DEF VtepIInv, VtepSafe
<1>2. VtepIInv => VtepSafe
  BY <1>1
<1>3. QED
  BY <1>2, InductiveInvariant, PTL


=============================================================================
