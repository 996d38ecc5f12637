---------------------------- MODULE RouteProofs ----------------------------
(***************************************************************************)
(* Theorems about route (src/router/router.go), for any number of servers, *)
(* distances, limits and concurrent calls, on a pool that administrators   *)
(* leave alone.                                                            *)
(***************************************************************************)
EXTENDS QueueProofs, MCRoute, WellFoundedInduction

(* Server i of frame f was passed over for cause by a call whose context   *)
(* is done or not.                                                         *)
Cause(f, done, i) == ~HasRoom(f.infos[i]) \/ done

(* A call at point l has passed over every server closer than its group    *)
(* for cause and, between two attempts, the members it no longer offers.   *)
Tried(l, f, done) ==
  /\ l \in {"inspect", "load"} => f.level = NoGroup /\ f.cands = {}
  /\ l \in {"try", "inc", "check"} =>
       \A i \in DOMAIN f.infos : f.infos[i].distance < f.level => Cause(f, done, i)
  /\ l = "try" =>
       \A i \in DOMAIN f.infos :
         f.infos[i].distance = f.level => i \in f.cands \/ Cause(f, done, i)

(* The calls of the handlers, and Worker's call for the item it is at.     *)
CallsTried ==
  /\ \A r \in Requests : Tried(pc[r], frame[r], ctxDone[r])
  /\ pc[Worker] \in RoutePoints => Tried(pc[Worker], frame[Worker], ctxDone[Item])

RouteInv == LedgerInv /\ CallsTried

-----------------------------------------------------------------------------
(* The groups.                                                             *)

LEMMA DistanceType == \A d \in Distances : d \in Nat /\ d > 0
BY PoolAssumption

LEMMA ClosestExists ==
  ASSUME NEW S, S \subseteq Nat, S # {}
  PROVE  \E d \in S : \A e \in S : e >= d
<1>1. PICK d \in S : \A e \in S : <<e, d>> \notin OpToRel(<, Nat)
  BY NatLessThanWellFounded, WFMin
<1>2. \A e \in S : ~(e < d)
  BY <1>1 DEF OpToRel
<1> QED  BY <1>2

(* When no group is left every server inspected is at most at the distance *)
(* of the group tried last.                                                *)
LEMMA NoneRemains ==
  ASSUME NEW f \in Frame, ~RemainsGroup(f), NEW i \in DOMAIN f.infos
  PROVE  f.infos[i].distance <= f.level
<1> SUFFICES ASSUME ~(f.infos[i].distance <= f.level)
             PROVE  FALSE
  OBVIOUS
<1> DEFINE S == {f.infos[j].distance : j \in {k \in DOMAIN f.infos : f.infos[k].distance > f.level}}
<1>1. f.infos \in Seq(Info) /\ f.level \in 0..11
  BY DEF Frame
<1>2. \A j \in DOMAIN f.infos : f.infos[j] \in Info
  BY <1>1
<1>3. \A j \in DOMAIN f.infos : f.infos[j].distance \in Distances
  BY <1>2 DEF Info
<1>4. S \subseteq Nat /\ S \subseteq Distances
  BY <1>3, DistanceType
<1>5. f.infos[i].distance \in S
  <2>1. f.infos[i].distance > f.level
    BY <1>1, <1>3, DistanceType
  <2> QED  BY <2>1
<1>6. PICK d \in S : \A e \in S : e >= d
  BY <1>4, <1>5, ClosestExists
<1>7. PICK k \in DOMAIN f.infos : d = f.infos[k].distance /\ d > f.level
  OBVIOUS
<1>8. IsNextGroup(f.infos, f.level, d)
  BY <1>6, <1>7 DEF IsNextGroup, Group
<1> QED  BY <1>4, <1>8 DEF RemainsGroup

-----------------------------------------------------------------------------
(* The steps of route.                                                     *)

(* Elsewhere a call has nothing to answer for.                             *)
LEMMA TriedElsewhere ==
  ASSUME NEW l, l \notin {"inspect", "load", "try", "inc", "check"}, NEW f, NEW done
  PROVE  Tried(l, f, done)
BY DEF Tried

(* The snapshot begins: no group was tried, so no server is closer.        *)
LEMMA TriedAtStart ==
  ASSUME NEW l \in {"inspect", "load", "try"}, NEW f \in Frame, f.level = NoGroup,
         f.cands = {}, NEW done
  PROVE  Tried(l, f, done)
<1>1. f.infos \in Seq(Info)
  BY DEF Frame
<1>2. \A i \in DOMAIN f.infos : f.infos[i] \in Info
  BY <1>1
<1>3. \A i \in DOMAIN f.infos : f.infos[i].distance \in Nat /\ f.infos[i].distance > 0
  BY <1>2, DistanceType DEF Info
<1> QED  BY <1>3 DEF Tried, NoGroup

LEMMA SnapshotTried ==
  ASSUME TypeInv, TypeInv', NEW p \in Procs, NEW r, NEW done, Tried(pc[p], frame[p], done),
         RouteBegin(p, r) \/ Inspect(p) \/ LoadInflight(p)
  PROVE  Tried(pc'[p], frame'[p], done)
<1>0. /\ frame \in [Procs -> Frame] /\ frame'[p] \in Frame
      /\ pc \in [Procs -> RoutePoints \cup HandlerPoints \cup WorkerPoints]
  BY DEF TypeInv, TypeOK
<1>1. CASE RouteBegin(p, r)
  <2>1. CASE RouteFails(p)
    <3>1. pc'[p] \in {"failed", "done"}
      BY <1>0, <2>1 DEF RouteFails, Goto
    <3> QED  BY <3>1, TriedElsewhere
  <2>2. CASE SetFrame(p, NewFrame(strategy, serving[ModelOf[r]])) /\ Goto(p, "inspect")
    <3>1. /\ pc'[p] = "inspect"
          /\ frame'[p].level = NoGroup /\ frame'[p].cands = {}
      BY <1>0, <2>2 DEF SetFrame, Goto, NewFrame
    <3> QED  BY <1>0, <3>1, TriedAtStart
  <2> QED  BY <1>1, <2>1, <2>2 DEF RouteBegin
<1>2. CASE Inspect(p) \/ LoadInflight(p)
  <2>1. pc[p] \in {"inspect", "load"} /\ pc'[p] \in {"inspect", "load", "try"}
    BY <1>0, <1>2 DEF Inspect, LoadInflight, NextServer, Goto
  <2>2. frame[p].level = NoGroup /\ frame[p].cands = {}
    BY <2>1 DEF Tried
  <2>3. frame'[p].level = frame[p].level /\ frame'[p].cands = frame[p].cands
    BY <1>0, <1>2 DEF Inspect, LoadInflight, SetFrame, Frame
  <2> QED  BY <1>0, <2>1, <2>2, <2>3, TriedAtStart
<1> QED  BY <1>1, <1>2

(* The next group is tried: what is closer was tried with the groups       *)
(* before, and the members left out have no room.                          *)
LEMMA PickGroupTried ==
  ASSUME TypeInv, NEW p \in Procs, NEW r, NEW done, Tried(pc[p], frame[p], done),
         PickGroup(p, r)
  PROVE  Tried(pc'[p], frame'[p], done)
<1> DEFINE f == frame[p]
           g == frame'[p]
<1>1. PICK d \in Distances : IsNextGroup(f.infos, f.level, d) /\ StartGroup(p, r, d)
  BY DEF PickGroup
<1>2. f \in Frame /\ frame \in [Procs -> Frame] /\ f.infos \in Seq(Info) /\ f.level \in 0..11
  BY DEF TypeInv, TypeOK, Frame
<1>3. pc'[p] = "try" /\ pc[p] = "try" /\ f.cands = {}
  BY DEF PickGroup
<1>4. /\ g.infos = f.infos /\ g.level = d
      /\ g.cands = {i \in Group(f.infos, d) : HasRoom(f.infos[i])}
  BY <1>1, <1>2 DEF StartGroup, SetFrame, Frame
<1>6. \A i \in DOMAIN f.infos : f.infos[i] \in Info
  BY <1>2
<1>7. \A i \in DOMAIN f.infos : f.infos[i].distance \in Nat
  BY <1>6, DistanceType DEF Info
<1>8. ASSUME NEW i \in DOMAIN f.infos, f.infos[i].distance < d
      PROVE  Cause(f, done, i)
  <2>1. f.infos[i].distance < f.level \/ f.infos[i].distance = f.level
    BY <1>1, <1>2, <1>7, <1>8, DistanceType DEF IsNextGroup
  <2> QED  BY <1>3, <2>1 DEF Tried
<1>9. \A i \in DOMAIN f.infos : f.infos[i].distance = d => i \in g.cands \/ Cause(f, done, i)
  BY <1>4 DEF Group, Cause
<1> HIDE DEF f, g
<1> QED  BY <1>3, <1>4, <1>8, <1>9 DEF Tried, Cause, g

(* An attempt begins, ends without a slot, or ends the call.               *)
LEMMA AcquireTried ==
  ASSUME TypeInv, OneClient, NEW p \in Procs, NEW r, Tried(pc[p], frame[p], ctxDone[r]),
         AcquireLookup(p) \/ AcquireAdd(p) \/ AcquireCheck(p, r)
  PROVE  Tried(pc'[p], frame'[p], ctxDone[r])
<1> DEFINE f == frame[p]
           g == frame'[p]
<1>0. /\ frame \in [Procs -> Frame] /\ f \in Frame
      /\ pc \in [Procs -> RoutePoints \cup HandlerPoints \cup WorkerPoints]
      /\ f.cands \subseteq DOMAIN f.infos /\ f.infos \in Seq(Info)
  BY DEF TypeInv, TypeOK, Points, FrameOK, Frame
<1>1. CASE AcquireLookup(p)
  <2>1. PICK i \in f.cands :
          /\ SetFrame(p, [f EXCEPT !.cands = @ \ {i}])
          /\ \/ clients[f.infos[i].url] = 0
             \/ Goto(p, "inc")
    BY <1>1 DEF AcquireLookup
  <2>2. f.infos[i] \in Info
    BY <1>0
  <2>3. Goto(p, "inc")
    BY <2>1, <2>2 DEF Info, OneClient
  <2>4. pc[p] = "try" /\ pc'[p] = "inc" /\ g.infos = f.infos /\ g.level = f.level
    BY <1>0, <1>1, <2>1, <2>3 DEF AcquireLookup, Goto, SetFrame, Frame
  <2> HIDE DEF f, g
  <2> QED  BY <2>4 DEF Tried, Cause, f, g
<1>2. CASE AcquireAdd(p)
  <2>1. pc[p] = "inc" /\ pc'[p] = "check" /\ g = f
    BY <1>0, <1>2 DEF AcquireAdd, Goto
  <2> QED  BY <2>1 DEF Tried
<1>3. CASE AcquireCheck(p, r)
  <2>1. CASE ctxDone[r] /\ Goto(p, "try") /\ UNCHANGED frame
    <3>1. pc'[p] = "try"
      BY <1>0, <2>1 DEF Goto
    <3> QED  BY <2>1, <3>1 DEF Tried, Cause
  <2>2. CASE Goto(p, IF p = Worker THEN "deliver" ELSE "proxy")
    <3>1. pc'[p] \in {"deliver", "proxy"}
      BY <1>0, <2>2 DEF Goto
    <3> QED  BY <3>1, TriedElsewhere
  <2> QED  BY <1>3, <2>1, <2>2 DEF AcquireCheck
<1> QED  BY <1>1, <1>2, <1>3

(* No group is left and every member was tried: all are passed over.       *)
LEMMA AllPassedOver ==
  ASSUME NEW f \in Frame, NEW done, Tried("try", f, done), f.cands = {}, ~RemainsGroup(f),
         NEW i \in DOMAIN f.infos
  PROVE  Cause(f, done, i)
<1>1. f.infos \in Seq(Info) /\ f.level \in 0..11
  BY DEF Frame
<1>2. f.infos[i] \in Info
  BY <1>1
<1>3. f.infos[i].distance \in Nat
  BY <1>2, DistanceType DEF Info
<1>4. f.infos[i].distance <= f.level
  BY NoneRemains
<1>5. f.infos[i].distance < f.level \/ f.infos[i].distance = f.level
  BY <1>1, <1>3, <1>4
<1> QED  BY <1>5 DEF Tried

LEMMA FallbackTried ==
  ASSUME TypeInv, NEW p \in Procs, NEW done, Tried(pc[p], frame[p], done), Fallback(p)
  PROVE  Tried(pc'[p], frame'[p], done)
<1> DEFINE f == frame[p]
           g == frame'[p]
<1>0. /\ frame \in [Procs -> Frame] /\ f \in Frame
      /\ pc \in [Procs -> RoutePoints \cup HandlerPoints \cup WorkerPoints]
      /\ f.infos \in Seq(Info)
  BY DEF TypeInv, TypeOK, Frame
<1>1. pc[p] = "try" /\ f.cands = {} /\ ~RemainsGroup(f)
  BY DEF Fallback
<1>2. \A i \in DOMAIN f.infos : Cause(f, done, i)
  BY <1>0, <1>1, AllPassedOver
<1>3. CASE \E i \in DOMAIN f.infos : SetFrame(p, [f EXCEPT !.level = AnyGroup, !.cands = {i}])
  <2>1. g.infos = f.infos
    BY <1>0, <1>3 DEF SetFrame, Frame
  <2> HIDE DEF f, g
  <2>2. \A i \in DOMAIN g.infos : Cause(g, done, i)
    BY <1>2, <2>1 DEF Cause
  <2>3. pc'[p] \notin {"inspect", "load"}
    <3>1. pc'[p] \in {"try", "ensure", "failed", "done"}
      BY <1>0, <1>1 DEF Fallback, RouteFails, Goto
    <3> QED  BY <3>1
  <2> QED  BY <2>2, <2>3 DEF Tried, g
<1>4. CASE Goto(p, "ensure") \/ RouteFails(p)
  <2>1. pc'[p] \in {"ensure", "failed", "done"}
    BY <1>0, <1>4 DEF RouteFails, Goto
  <2> QED  BY <2>1, TriedElsewhere
<1> QED  BY <1>3, <1>4 DEF Fallback

LEMMA RouteTried ==
  ASSUME TypeInv, TypeInv', OneClient, NEW p \in Procs, NEW r,
         Tried(pc[p], frame[p], ctxDone[r]), RouteStep(p, r)
  PROVE  /\ Tried(pc'[p], frame'[p], ctxDone[r])
         /\ \A q \in Procs \ {p} : pc'[q] = pc[q] /\ frame'[q] = frame[q]
         /\ UNCHANGED ctxDone
<1>1. Tried(pc'[p], frame'[p], ctxDone[r])
  BY SnapshotTried, PickGroupTried, AcquireTried, FallbackTried DEF RouteStep
<1>2. UNCHANGED ctxDone
  BY DEF RouteStep, RouteBegin, Inspect, LoadInflight, PickGroup, AcquireLookup, AcquireAdd,
     AcquireCheck, Fallback
<1>3. UNCHANGED frame \/ \E h : SetFrame(p, h)
  BY DEF RouteStep, RouteBegin, Inspect, LoadInflight, PickGroup, StartGroup, AcquireLookup,
     AcquireAdd, AcquireCheck, Fallback, RouteFails
<1>4. \A q \in Procs \ {p} : frame'[q] = frame[q]
  BY <1>3 DEF SetFrame, TypeInv, TypeOK
<1> QED  BY <1>1, <1>2, <1>4, RouteMoves

-----------------------------------------------------------------------------
(* The other steps.                                                        *)

(* A context that is done stays done, so what was passed over stays so.    *)
LEMMA TriedMonotone ==
  ASSUME NEW l, NEW f, NEW done, NEW later, Tried(l, f, done), done => later
  PROVE  Tried(l, f, later)
BY DEF Tried, Cause

(* A step outside route: a process that is in the middle of a call stays   *)
(* where it is.                                                            *)
LEMMA QuietTried ==
  ASSUME RouteInv, UNCHANGED frame,
         \A r \in Requests : ctxDone[r] => ctxDone'[r],
         \A p \in Procs : \/ pc'[p] = pc[p]
                          \/ pc'[p] \notin {"inspect", "load", "try", "inc", "check"},
         pc[Worker] \in RoutePoints => UNCHANGED <<queue, cursor>>
  PROVE  CallsTried'
<1>1. ASSUME NEW r \in Requests
      PROVE  Tried(pc'[r], frame'[r], ctxDone'[r])
  <2>1. Tried(pc[r], frame[r], ctxDone'[r])
    BY TriedMonotone DEF RouteInv, CallsTried
  <2> QED  BY <2>1, TriedElsewhere DEF Procs
<1>2. ASSUME pc'[Worker] \in RoutePoints
      PROVE  Tried(pc'[Worker], frame'[Worker], ctxDone'[Item'])
  <2>1. CASE pc'[Worker] \notin {"inspect", "load", "try", "inc", "check"}
    BY <2>1, TriedElsewhere
  <2>2. CASE pc'[Worker] = pc[Worker]
    <3>1. queue \in Seq(Requests) /\ cursor \in DOMAIN queue /\ Item' = Item
      BY <1>2, <2>2 DEF RouteInv, LedgerInv, TypeInv, TypeOK, Points, Item
    <3>2. Item \in Requests
      BY <3>1 DEF Item
    <3>3. Tried(pc[Worker], frame[Worker], ctxDone[Item])
      BY <1>2, <2>2 DEF RouteInv, CallsTried
    <3>4. Tried(pc[Worker], frame[Worker], ctxDone'[Item])
      BY <3>2, <3>3, TriedMonotone
    <3> QED  BY <2>2, <3>1, <3>4
  <2> QED  BY <2>1, <2>2 DEF Procs
<1> QED  BY <1>1, <1>2 DEF CallsTried

LEMMA HandlerRouteTried ==
  ASSUME RouteInv, TypeInv', NEW r \in Requests, RouteStep(r, r), UNCHANGED queueVars
  PROVE  CallsTried'
<1>1. r \in Procs /\ r # Worker /\ Worker \in Procs /\ Requests \subseteq Procs
  BY RouterAssumption DEF Procs
<1>2. /\ Tried(pc'[r], frame'[r], ctxDone[r]) /\ UNCHANGED ctxDone
      /\ \A q \in Procs \ {r} : pc'[q] = pc[q] /\ frame'[q] = frame[q]
  BY <1>1, RouteTried DEF RouteInv, LedgerInv, CallsTried
<1>3. \A s \in Requests : Tried(pc'[s], frame'[s], ctxDone'[s])
  BY <1>1, <1>2 DEF RouteInv, CallsTried
<1>4. pc'[Worker] = pc[Worker] /\ frame'[Worker] = frame[Worker] /\ Item' = Item
  BY <1>1, <1>2 DEF queueVars, Item
<1> QED  BY <1>2, <1>3, <1>4 DEF RouteInv, CallsTried

LEMMA WorkerRouteTried ==
  ASSUME RouteInv, TypeInv', pc[Worker] \in RoutePoints, RouteStep(Worker, Item),
         UNCHANGED queueVars
  PROVE  CallsTried'
<1>1. Worker \in Procs /\ \A s \in Requests : s \in Procs \ {Worker}
  BY RouterAssumption DEF Procs
<1>2. /\ Tried(pc'[Worker], frame'[Worker], ctxDone[Item]) /\ UNCHANGED ctxDone
      /\ \A q \in Procs \ {Worker} : pc'[q] = pc[q] /\ frame'[q] = frame[q]
  BY <1>1, RouteTried DEF RouteInv, LedgerInv, CallsTried
<1>3. Item' = Item
  BY DEF queueVars, Item
<1>4. \A s \in Requests : Tried(pc'[s], frame'[s], ctxDone'[s])
  BY <1>1, <1>2 DEF RouteInv, CallsTried
<1> QED  BY <1>2, <1>3, <1>4 DEF CallsTried

(* The other steps of a handler.                                           *)
LEMMA HandlerTried ==
  ASSUME RouteInv, TypeInv', NEW r \in Requests, HandlerStep(r)
  PROVE  CallsTried'
<1>1. CASE RouteStep(r, r) /\ UNCHANGED queueVars
  BY <1>1, HandlerRouteTried
<1>2. CASE EnsureStarted(r)
  <2>1. /\ UNCHANGED <<frame, ctxDone>> /\ pc[Worker] \notin RoutePoints
        /\ \A p \in Procs : pc'[p] = pc[p] \/ pc'[p] \in {"append", "select"}
    BY <1>2, RouterAssumption DEF EnsureStarted, MuFree, WorkerIdle, RoutePoints, Procs,
       RouteInv, LedgerInv, TypeInv, TypeOK
  <2> QED  BY <2>1, QuietTried
<1>3. ASSUME NEW l, Goto(r, l), UNCHANGED <<frame, ctxDone, cursor>>,
             UNCHANGED queue \/ MuFree,
             l \notin {"inspect", "load", "try", "inc", "check"}
      PROVE  CallsTried'
  <2>1. \A p \in Procs : pc'[p] = (IF p = r THEN l ELSE pc[p])
    BY <1>3 DEF Goto, RouteInv, LedgerInv, TypeInv, TypeOK
  <2>2. pc[Worker] \in RoutePoints => UNCHANGED <<queue, cursor>>
    BY <1>3 DEF MuFree, WorkerIdle, RoutePoints
  <2> QED  BY <1>3, <2>1, <2>2, QuietTried
<1>4. CASE Arrive(r) \/ RejectBody(r) \/ ProxyLookup(r) \/ UpstreamEnds(r)
  BY <1>3, <1>4 DEF Arrive, RejectBody, ProxyLookup, UpstreamEnds, queueVars
<1>5. CASE AppendItem(r) \/ Notify(r) \/ CancelWait(r) \/ RemoveItem(r)
  BY <1>3, <1>5 DEF AppendItem, Notify, CancelWait, RemoveItem, queueVars
<1>6. CASE TakeAnswer(r) \/ CancelTake(r)
  BY <1>3, <1>6 DEF TakeAnswer, CancelTake
<1>7. CASE ReleaseLookup(r) \/ ReleaseDec(r)
  BY <1>3, <1>7 DEF ReleaseLookup, ReleaseDec, queueVars
<1> QED  BY <1>1, <1>2, <1>4, <1>5, <1>6, <1>7 DEF HandlerStep

LEMMA WorkerTried ==
  ASSUME RouteInv, TypeInv', WorkerStep
  PROVE  CallsTried'
<1>1. CASE pc[Worker] \in RoutePoints /\ RouteStep(Worker, Item) /\ UNCHANGED queueVars
  BY <1>1, WorkerRouteTried
<1>2. CASE \/ BeginPass(TRUE) \/ BeginPass(FALSE) \/ EmptyPass \/ ScanItem \/ Deliver
           \/ KeepItem \/ EndPass
  <2>1. /\ pc[Worker] \in {"select", "scan", "deliver", "failed"}
        /\ UNCHANGED <<frame, ctxDone>>
        /\ UNCHANGED pc \/ \E l \in {"scan", "route", "select"} : Goto(Worker, l)
    BY <1>2 DEF BeginPass, EmptyPass, ScanItem, Deliver, KeepItem, EndPass, routerVars
  <2>2. \A p \in Procs : pc'[p] = pc[p] \/ pc'[p] \in {"scan", "route", "select"}
    BY <2>1 DEF Goto, RouteInv, LedgerInv, TypeInv, TypeOK
  <2> QED  BY <2>1, <2>2, QuietTried DEF RoutePoints
<1> QED  BY <1>1, <1>2 DEF WorkerStep

LEMMA OutsideTried ==
  ASSUME RouteInv, EnvStep \/ ShutdownStep \/ UNCHANGED vars
  PROVE  CallsTried'
<1>1. CASE EnvStep
  <2>1. UNCHANGED <<frame, pc, queue, cursor>>
    BY <1>1 DEF EnvStep, ClientLeaves, Expire, SetStrategy, Rediscover, routerVars, queueVars
  <2>2. \A r \in Requests : ctxDone[r] => ctxDone'[r]
    BY <1>1 DEF EnvStep, ClientLeaves, Expire, SetStrategy, Rediscover, routerVars,
       RouteInv, LedgerInv, TypeInv, TypeOK
  <2> QED  BY <2>1, <2>2, QuietTried
<1>2. CASE Drain
  <2>1. UNCHANGED <<frame, pc, ctxDone>> /\ pc[Worker] \notin RoutePoints
    BY <1>2 DEF Drain, routerVars, MuFree, WorkerIdle, RoutePoints
  <2> QED  BY <2>1, QuietTried
<1>3. CASE Stop
  <2>1. /\ UNCHANGED <<frame, ctxDone, queue, cursor>>
        /\ \A p \in Procs : pc'[p] = pc[p] \/ pc'[p] = "stopped"
    BY <1>3 DEF Stop, Goto, RouteInv, LedgerInv, TypeInv, TypeOK
  <2> QED  BY <2>1, QuietTried
<1>4. CASE UNCHANGED vars
  <2>1. UNCHANGED <<frame, pc, ctxDone, queue, cursor>>
    BY <1>4 DEF vars, routerVars, queueVars
  <2> QED  BY <2>1, QuietTried
<1> QED  BY <1>1, <1>2, <1>3, <1>4 DEF ShutdownStep

-----------------------------------------------------------------------------
(* The theorems.                                                           *)

LEMMA InitRoute == Init => RouteInv
<1> SUFFICES ASSUME Init PROVE RouteInv
  OBVIOUS
<1>1. CallsTried
  BY RouterAssumption, TriedElsewhere DEF Init, RouterInit, CallsTried, Procs, RoutePoints
<1> QED  BY <1>1, InitLedger DEF RouteInv

LEMMA StepRoute ==
  ASSUME RouteInv, [Next]_vars
  PROVE  RouteInv'
<1>1. LedgerInv'
  BY StepLedger DEF RouteInv
<1>2. TypeInv'
  BY <1>1 DEF LedgerInv
<1>3. CallsTried'
  BY <1>2, HandlerTried, WorkerTried, OutsideTried DEF Next, Serve
<1> QED  BY <1>1, <1>3 DEF RouteInv

(* What the invariant says of the calls as Dispatch names them.            *)
LEMMA CallTried ==
  ASSUME RouteInv, NEW c \in Calls, pc[c[1]] \in RoutePoints
  PROVE  /\ Tried(pc[c[1]], frame[c[1]], ctxDone[c[2]])
         /\ frame[c[1]] \in Frame
<1>1. CASE c \in {<<r, r>> : r \in Requests}
  <2>1. PICK r \in Requests : c = <<r, r>>
    BY <1>1
  <2>2. c[1] = r /\ c[2] = r
    BY <2>1
  <2> QED  BY <2>2 DEF RouteInv, CallsTried, LedgerInv, TypeInv, TypeOK, Procs
<1>2. CASE c \in {<<Worker, r>> : r \in {queue[i] : i \in DOMAIN queue \cap {cursor}}}
  <2>1. c = <<Worker, Item>>
    BY <1>2 DEF Item
  <2>2. c[1] = Worker /\ c[2] = Item
    BY <2>1
  <2> QED  BY <2>2 DEF RouteInv, CallsTried, LedgerInv, TypeInv, TypeOK, Procs
<1> QED  BY <1>1, <1>2 DEF Calls

(* route goes through the distances in order: it tries a slot at one only  *)
(* after it passed over every closer server it inspected, because the      *)
(* server was full or the call's own context had ended.                    *)
THEOREM ClosestServerFirst == Spec => []ClosestFirst
<1>1. RouteInv /\ [Next]_vars => RouteInv'
  BY StepRoute
<1>2. ASSUME RouteInv PROVE ClosestFirst
  <2> SUFFICES ASSUME NEW c \in Calls, pc[c[1]] \in {"inc", "check"},
                      NEW i \in DOMAIN frame[c[1]].infos,
                      frame[c[1]].infos[i].distance < frame[c[1]].level
               PROVE  PassedOver(c[1], c[2], i)
    BY DEF ClosestFirst
  <2>1. Tried(pc[c[1]], frame[c[1]], ctxDone[c[2]])
    BY <1>2, CallTried DEF RoutePoints
  <2> QED  BY <2>1 DEF Tried, Cause, PassedOver
<1> QED  BY <1>1, <1>2, InitRoute, PTL DEF Spec

(* route answers with an error, queues the request or makes a best-effort  *)
(* attempt only after it passed over every server it inspected for cause:  *)
(* a server seen with room is never left out.                              *)
THEOREM FallbackForCause == Spec => []FallbackOnlyWhenFull
<1>1. RouteInv /\ [Next]_vars => RouteInv'
  BY StepRoute
<1>2. ASSUME RouteInv PROVE FallbackOnlyWhenFull
  <2> SUFFICES ASSUME NEW c \in Calls, pc[c[1]] = "try", frame[c[1]].cands = {},
                      ~RemainsGroup(frame[c[1]]), NEW i \in DOMAIN frame[c[1]].infos
               PROVE  PassedOver(c[1], c[2], i)
    BY DEF FallbackOnlyWhenFull
  <2>1. Tried("try", frame[c[1]], ctxDone[c[2]]) /\ frame[c[1]] \in Frame
    BY <1>2, CallTried DEF RoutePoints
  <2>2. Cause(frame[c[1]], ctxDone[c[2]], i)
    BY <2>1, AllPassedOver
  <2> QED  BY <2>2 DEF Cause, PassedOver
<1> QED  BY <1>1, <1>2, InitRoute, PTL DEF Spec

-----------------------------------------------------------------------------
(* The round robin.                                                        *)

(* Position k comes after position j and before x, going round.            *)
Between(j, x, k) == IF j < x THEN j < k /\ k < x ELSE k > j \/ k < x

(* The draws from a to before b are of every position.                     *)
Covers(at, n, a, b) == \A k \in 0..(n - 1) : \E h \in a..(b - 1) : at[h] = k

(* The positions drawn so far of a group of n, when x is rrIndex: every    *)
(* position passed since one was drawn has been drawn since, and no        *)
(* position is drawn again before all have been.                           *)
Rotation(at, n, x) ==
  /\ at \in Seq(0..(n - 1))
  /\ at # <<>>
  /\ x = at[Len(at)] + 1
  /\ \A a \in 1..Len(at), k \in 0..(n - 1) :
       Between(at[a], x, k) => \E h \in (a + 1)..Len(at) : at[h] = k
  /\ \A a, b \in 1..Len(at) : a < b /\ at[a] = at[b] => Covers(at, n, a, b)

LEMMA RotationStarts ==
  ASSUME NEW n \in Nat \ {0}, NEW k \in 0..(n - 1)
  PROVE  Rotation(<<k>>, n, k + 1)
<1>1. Len(<<k>>) = 1 /\ <<k>>[1] = k /\ <<k>> \in Seq(0..(n - 1)) /\ <<k>> # <<>>
  OBVIOUS
<1>2. \A j \in 0..(n - 1) : ~Between(k, k + 1, j)
  BY DEF Between
<1> QED  BY <1>1, <1>2 DEF Rotation

LEMMA RotationGoes ==
  ASSUME NEW n \in Nat \ {0}, NEW at, NEW x, Rotation(at, n, x)
  PROVE  /\ x % n \in 0..(n - 1)
         /\ Rotation(Append(at, x % n), n, (x % n) + 1)
<1> DEFINE y == x % n
           to == Append(at, y)
           L == Len(at)
<1>1. at \in Seq(0..(n - 1)) /\ L \in Nat \ {0} /\ at[L] \in 0..(n - 1) /\ x = at[L] + 1
  BY DEF Rotation
<1>2. x \in 1..n
  BY <1>1
<1>3. y = IF x = n THEN 0 ELSE x
  <2>1. CASE x = n
    BY <2>1
  <2>2. CASE x # n
    BY <1>2, <2>2
  <2> QED  BY <2>1, <2>2
<1>4. y \in 0..(n - 1)
  BY <1>2, <1>3
<1> HIDE DEF y
<1>5. /\ to \in Seq(0..(n - 1)) /\ to # <<>> /\ Len(to) = L + 1 /\ to[L + 1] = y
      /\ \A a \in 1..L : to[a] = at[a] /\ at[a] \in 0..(n - 1)
  BY <1>1, <1>4
<1> HIDE DEF to, L
<1>6. ASSUME NEW a \in 1..(L + 1), NEW k \in 0..(n - 1), Between(to[a], y + 1, k)
      PROVE  \E h \in (a + 1)..(L + 1) : to[h] = k
  <2>1. CASE a = L + 1
    BY <1>4, <1>5, <1>6, <2>1 DEF Between
  <2>2. CASE a \in 1..L /\ k = y
    <3>1. L + 1 \in (a + 1)..(L + 1)
      BY <1>1, <2>2
    <3> QED  BY <1>5, <2>2, <3>1
  <2>3. CASE a \in 1..L /\ k # y
    <3>1. Between(at[a], y + 1, k) /\ at[a] \in 0..(n - 1)
      BY <1>5, <1>6, <2>3
    <3>2. Between(at[a], x, k)
      BY <1>2, <1>3, <2>3, <3>1 DEF Between
    <3>3. PICK h \in (a + 1)..L : at[h] = k
      BY <2>3, <3>2 DEF Rotation, L
    <3>4. h \in (a + 1)..(L + 1) /\ h \in 1..L
      BY <1>1, <2>3, <3>3
    <3> QED  BY <1>5, <3>3, <3>4
  <2> QED  BY <1>1, <2>1, <2>2, <2>3
<1>7. ASSUME NEW a \in 1..(L + 1), NEW b \in 1..(L + 1), a < b, to[a] = to[b],
             NEW k \in 0..(n - 1)
      PROVE  \E h \in a..(b - 1) : to[h] = k
  <2>a. a \in 1..L
    BY <1>1, <1>7
  <2>0. a \in 1..L /\ to[a] = at[a]
    BY <1>5, <2>a
  <2>1. CASE b \in 1..L
    <3>1. at[a] = at[b]
      BY <1>5, <1>7, <2>0, <2>1
    <3>2. PICK h \in a..(b - 1) : at[h] = k
      BY <1>7, <2>0, <2>1, <3>1 DEF Rotation, Covers, L
    <3>3. h \in 1..L
      BY <1>1, <2>0, <2>1, <3>2
    <3> QED  BY <1>5, <3>2, <3>3
  <2>2. CASE b = L + 1 /\ k = y
    <3>1. a \in a..(b - 1)
      BY <1>1, <2>0, <2>2
    <3> QED  BY <1>5, <1>7, <2>2, <3>1
  <2>3. CASE b = L + 1 /\ k # y
    <3>1. at[a] = y
      BY <1>5, <1>7, <2>0, <2>3
    <3>2. Between(y, x, k)
      BY <1>2, <1>3, <1>4, <2>3 DEF Between
    <3>3. PICK h \in (a + 1)..L : at[h] = k
      BY <2>0, <3>1, <3>2 DEF Rotation, L
    <3>4. h \in a..(b - 1) /\ h \in 1..L
      BY <1>1, <2>0, <2>3, <3>3
    <3> QED  BY <1>5, <3>3, <3>4
  <2> QED  BY <1>1, <2>1, <2>2, <2>3
<1>8. y + 1 = to[Len(to)] + 1
  BY <1>5
<1>9. Rotation(to, n, y + 1)
  BY <1>5, <1>6, <1>7, <1>8 DEF Rotation, Covers
<1> QED  BY <1>4, <1>9 DEF y, to

(* The starts S drawn from the group R are the members at the positions    *)
(* that went round, and rrIndex is x.                                      *)
InRotation(R, S, x) ==
  \E n \in Nat \ {0}, at \in Seq(Nat) :
    /\ DOMAIN R = 0..(n - 1)
    /\ Rotation(at, n, x)
    /\ S = [a \in 1..Len(at) |-> R[at[a]]]

TurnsInv ==
  /\ TypeInv
  /\ ring = [m \in Models |-> ring[m]]
  /\ starts = [m \in Models |-> starts[m]]
  /\ \A m \in Models : starts[m] = <<>> \/ InRotation(ring[m], starts[m], rrIndex[m])

(* The property, of one model's history.                                   *)
MembersInTurn(R, S) ==
  (\A j, k \in DOMAIN R : R[j] = R[k] => j = k) =>
    \A a, b \in DOMAIN S : a < b /\ S[a] = S[b] =>
      \A k \in DOMAIN R : \E h \in a..(b - 1) : S[h] = R[k]

LEMMA RotationInTurn ==
  ASSUME NEW R, NEW S, NEW x, InRotation(R, S, x)
  PROVE  MembersInTurn(R, S)
<1>1. PICK n \in Nat \ {0}, at \in Seq(Nat) :
        /\ DOMAIN R = 0..(n - 1)
        /\ Rotation(at, n, x)
        /\ S = [a \in 1..Len(at) |-> R[at[a]]]
  BY DEF InRotation
<1>2. at \in Seq(0..(n - 1)) /\ Len(at) \in Nat /\ \A a \in 1..Len(at) : at[a] \in 0..(n - 1)
  BY <1>1 DEF Rotation
<1>3. DOMAIN S = 1..Len(at) /\ \A a \in 1..Len(at) : S[a] = R[at[a]]
  BY <1>1
<1> SUFFICES ASSUME \A j, k \in DOMAIN R : R[j] = R[k] => j = k,
                    NEW a \in DOMAIN S, NEW b \in DOMAIN S, a < b, S[a] = S[b],
                    NEW k \in DOMAIN R
             PROVE  \E h \in a..(b - 1) : S[h] = R[k]
  BY DEF MembersInTurn
<1>4. at[a] = at[b]
  BY <1>1, <1>2, <1>3
<1>a. a \in 1..Len(at) /\ b \in 1..Len(at) /\ k \in 0..(n - 1)
  BY <1>1, <1>3
<1>5. PICK h \in a..(b - 1) : at[h] = k
  <2>1. a < b /\ at[a] = at[b]
    BY <1>4
  <2>2. Covers(at, n, a, b)
    BY <1>1, <1>a, <2>1 DEF Rotation
  <2> QED  BY <1>a, <2>2 DEF Covers
<1>6. h \in 1..Len(at)
  BY <1>2, <1>3
<1> QED  BY <1>3, <1>5, <1>6

(* A start drawn from another group, and one drawn from the same.          *)
LEMMA FirstStart ==
  ASSUME NEW R, NEW n \in Nat \ {0}, DOMAIN R = 0..(n - 1), NEW k \in 0..(n - 1)
  PROVE  InRotation(R, <<R[k]>>, k + 1)
<1> DEFINE at == <<k>>
<1>1. at \in Seq(Nat) /\ Len(at) = 1 /\ at[1] = k
  OBVIOUS
<1>2. Rotation(at, n, k + 1)
  BY RotationStarts
<1> HIDE DEF at
<1>3. <<R[k]>> = [a \in 1..Len(at) |-> R[at[a]]]
  BY <1>1
<1> QED  BY <1>1, <1>2, <1>3 DEF InRotation

LEMMA NextStart ==
  ASSUME NEW R, NEW S, NEW x, InRotation(R, S, x), NEW n \in Nat \ {0}, DOMAIN R = 0..(n - 1)
  PROVE  InRotation(R, Append(S, R[x % n]), (x % n) + 1)
<1>1. PICK nn \in Nat \ {0}, at \in Seq(Nat) :
        /\ DOMAIN R = 0..(nn - 1)
        /\ Rotation(at, nn, x)
        /\ S = [a \in 1..Len(at) |-> R[at[a]]]
  BY DEF InRotation
<1>2. nn = n
  <2>1. nn - 1 \in 0..(n - 1) /\ n - 1 \in 0..(nn - 1)
    BY <1>1
  <2> QED  BY <2>1
<1>3. x % n \in 0..(n - 1) /\ Rotation(Append(at, x % n), n, (x % n) + 1)
  BY <1>1, <1>2, RotationGoes
<1> DEFINE y == x % n
           to == Append(at, y)
<1> HIDE DEF y
<1>4. y \in Nat
  BY <1>3 DEF y
<1>5. to \in Seq(Nat) /\ Len(to) = Len(at) + 1 /\ to[Len(at) + 1] = y /\ Len(at) \in Nat
      /\ \A a \in 1..Len(at) : to[a] = at[a]
  BY <1>4
<1> HIDE DEF to
<1>6. Append(S, R[y]) = [a \in 1..Len(to) |-> R[to[a]]]
  <2>1. S \in Seq({R[j] : j \in Nat}) /\ Len(S) = Len(at) /\ \A a \in 1..Len(at) : S[a] = R[at[a]]
    BY <1>1
  <2> DEFINE T == Append(S, R[y])
             U == [a \in 1..Len(to) |-> R[to[a]]]
  <2>2. T \in Seq({R[j] : j \in Nat}) /\ Len(T) = Len(at) + 1 /\ T[Len(at) + 1] = R[y]
        /\ \A a \in 1..Len(at) : T[a] = R[at[a]]
    BY <1>4, <2>1
  <2>3. U \in Seq({R[j] : j \in Nat}) /\ Len(U) = Len(at) + 1
        /\ \A a \in 1..(Len(at) + 1) : U[a] = R[to[a]]
    BY <1>5
  <2> HIDE DEF T, U
  <2>a. \A a \in 1..(Len(at) + 1) : a \in 1..Len(at) \/ a = Len(at) + 1
    BY <1>5
  <2>4. ASSUME NEW a \in 1..(Len(at) + 1) PROVE T[a] = U[a]
    <3>1. CASE a \in 1..Len(at)
      <4>1. T[a] = R[at[a]] /\ U[a] = R[to[a]]
        BY <2>2, <2>3, <3>1
      <4>2. to[a] = at[a]
        BY <1>5, <3>1
      <4> QED  BY <4>1, <4>2, Zenon
    <3>2. CASE a = Len(at) + 1
      <4>1. T[a] = R[y] /\ U[a] = R[to[a]]
        BY <2>2, <2>3, <3>2
      <4>2. to[a] = y
        BY <1>5, <3>2
      <4> QED  BY <4>1, <4>2, Zenon
    <3> QED  BY <2>a, <3>1, <3>2
  <2> QED  BY <1>5, <2>2, <2>3, <2>4 DEF T, U
<1> QED  BY <1>1, <1>2, <1>3, <1>5, <1>6 DEF InRotation, y, to

(* A call is known by its process.                                         *)
LEMMA CallOf ==
  ASSUME TypeInv, NEW c \in Calls
  PROVE  /\ c[1] \in Procs /\ c[2] \in Requests /\ c = <<c[1], c[2]>>
         /\ c[1] \in Requests => c[2] = c[1]
         /\ c[1] = Worker => c[2] = Item /\ cursor \in DOMAIN queue
<1>1. CASE c \in {<<r, r>> : r \in Requests}
  <2>1. PICK r \in Requests : c = <<r, r>>
    BY <1>1
  <2> QED  BY <2>1, RouterAssumption DEF Procs
<1>2. CASE c \in {<<Worker, r>> : r \in {queue[i] : i \in DOMAIN queue \cap {cursor}}}
  <2>1. c = <<Worker, queue[cursor]>> /\ cursor \in DOMAIN queue
    BY <1>2
  <2>2. queue[cursor] \in Requests
    BY <2>1 DEF TypeInv, TypeOK
  <2> QED  BY <2>1, <2>2, RouterAssumption DEF Procs, Item
<1> QED  BY <1>1, <1>2 DEF Calls

(* The process and the request of a step of route.                         *)
InCall(p, r) ==
  \/ p \in Requests /\ r = p
  \/ p = Worker /\ r = Item /\ cursor \in DOMAIN queue

LEMMA InCallIsCall ==
  ASSUME TypeInv, NEW p, NEW r, InCall(p, r)
  PROVE  /\ p \in Procs /\ r \in Requests /\ <<p, r>> \in Calls
         /\ \A c \in Calls : c[1] = p => c = <<p, r>>
<1>1. CASE p \in Requests /\ r = p
  <2>1. p \in Procs /\ r \in Requests /\ <<p, r>> \in Calls
    BY <1>1 DEF Procs, Calls
  <2> QED  BY <1>1, <2>1, CallOf
<1>2. CASE p = Worker /\ r = Item /\ cursor \in DOMAIN queue
  <2>1. p \in Procs /\ r \in Requests /\ <<p, r>> \in Calls
    BY <1>2 DEF Procs, Calls, Item, TypeInv, TypeOK
  <2> QED  BY <1>2, <2>1, CallOf
<1> QED  BY <1>1, <1>2 DEF InCall

(* Steps that draw no start.                                               *)
LEMMA NoDraw ==
  ASSUME TurnsInv, TypeInv', HistoryNext, UNCHANGED rrIndex,
         \A p \in Procs : frame'[p].level \in {frame[p].level, NoGroup, AnyGroup}
  PROVE  TurnsInv'
<1>1. NoGroup \notin Distances /\ AnyGroup \notin Distances
  BY PoolAssumption DEF NoGroup, AnyGroup
<1>2. \A m \in Models : Drawing(m) = {}
  BY <1>1, CallOf DEF Drawing, TurnsInv
<1>3. ring' = ring /\ starts' = starts
  BY <1>2 DEF HistoryNext, TurnsInv
<1> QED  BY <1>3 DEF TurnsInv

(* A step of route other than the draw.                                    *)
LEMMA RouteNoDraw ==
  ASSUME TurnsInv, TypeInv', HistoryNext, NEW p \in Procs, NEW r, RouteStep(p, r),
         ~PickGroup(p, r)
  PROVE  TurnsInv'
<1> DEFINE f == frame[p]
           g == frame'[p]
<1>0. frame \in [Procs -> Frame] /\ f \in Frame
  BY DEF TurnsInv, TypeInv, TypeOK
<1>1. EmptyFrame.level = NoGroup
  BY DEF EmptyFrame, NewFrame
<1>2. /\ rrIndex' = rrIndex
      /\ g.level \in {f.level, NoGroup, AnyGroup}
      /\ \A q \in Procs \ {p} : frame'[q] = frame[q]
  <2>1. CASE RouteBegin(p, r)
    BY <1>0, <1>1, <2>1 DEF RouteBegin, RouteFails, SetFrame, NewFrame
  <2>2. CASE Inspect(p)
    BY <1>0, <2>2 DEF Inspect, SetFrame, Frame
  <2>3. CASE LoadInflight(p)
    BY <1>0, <2>3 DEF LoadInflight, SetFrame, Frame
  <2>4. CASE AcquireLookup(p)
    BY <1>0, <2>4 DEF AcquireLookup, SetFrame, Frame
  <2>5. CASE AcquireAdd(p)
    BY <1>0, <2>5 DEF AcquireAdd
  <2>6. CASE AcquireCheck(p, r)
    BY <1>0, <1>1, <2>6 DEF AcquireCheck, SetFrame
  <2>7. CASE Fallback(p)
    <3>0. rrIndex' = rrIndex
      BY <2>7 DEF Fallback
    <3>1. CASE SetFrame(p, EmptyFrame)
      BY <1>0, <1>1, <3>0, <3>1 DEF SetFrame
    <3>2. CASE \E i \in DOMAIN f.infos : SetFrame(p, [f EXCEPT !.level = AnyGroup, !.cands = {i}])
      <4>1. PICK i \in DOMAIN f.infos : SetFrame(p, [f EXCEPT !.level = AnyGroup, !.cands = {i}])
        BY <3>2
      <4>2. g = [f EXCEPT !.level = AnyGroup, !.cands = {i}] /\ \A q \in Procs \ {p} : frame'[q] = frame[q]
        BY <1>0, <4>1 DEF SetFrame
      <4>3. g.level = AnyGroup
        BY <1>0, <4>2 DEF Frame
      <4> QED  BY <3>0, <4>2, <4>3
    <3>3. \/ SetFrame(p, EmptyFrame)
          \/ \E i \in DOMAIN f.infos : SetFrame(p, [f EXCEPT !.level = AnyGroup, !.cands = {i}])
      BY <2>7 DEF Fallback, RouteFails
    <3> QED  BY <3>1, <3>2, <3>3
  <2> QED  BY <2>1, <2>2, <2>3, <2>4, <2>5, <2>6, <2>7 DEF RouteStep
<1>3. \A q \in Procs : frame'[q].level \in {frame[q].level, NoGroup, AnyGroup}
  BY <1>2
<1> QED  BY <1>2, <1>3, NoDraw

(* The draw: rrIndex moves to one after the start, which is the next in    *)
(* turn of the same group or the first of another.                         *)
LEMMA DrawStep ==
  ASSUME TurnsInv, TypeInv', HistoryNext, NEW p, NEW r, InCall(p, r), PickGroup(p, r)
  PROVE  TurnsInv'
<1> DEFINE f == frame[p]
           g == frame'[p]
           mr == ModelOf[r]
<1>0. /\ p \in Procs /\ r \in Requests /\ mr \in Models /\ <<p, r>> \in Calls
      /\ \A c \in Calls : c[1] = p => c = <<p, r>>
  BY InCallIsCall, RouterAssumption DEF TurnsInv
<1>a. frame \in [Procs -> Frame] /\ f \in Frame /\ f.infos \in Seq(Info) /\ f.level \in 0..11
  BY <1>0 DEF TurnsInv, TypeInv, TypeOK, Frame
<1>1. PICK d \in Distances : IsNextGroup(f.infos, f.level, d) /\ StartGroup(p, r, d)
  BY DEF PickGroup
<1> DEFINE n == Cardinality(Group(f.infos, d))
           idx == rrIndex[mr] % n
<1>2. /\ g.level = d /\ g.idx = idx /\ g.infos = f.infos
      /\ \A q \in Procs \ {p} : frame'[q] = frame[q]
  BY <1>0, <1>a, <1>1 DEF StartGroup, SetFrame, Frame
<1>3. rrIndex \in [Models -> Nat] /\ rrIndex' = [rrIndex EXCEPT ![mr] = idx + 1]
  BY <1>1 DEF StartGroup, TurnsInv, TypeInv, TypeOK
<1>4. n \in Nat \ {0}
  <2>1. IsFiniteSet(Group(f.infos, d)) /\ Group(f.infos, d) # {}
    <3>1. Group(f.infos, d) \subseteq 1..Len(f.infos) /\ Len(f.infos) \in Nat
      BY <1>a DEF Group
    <3>2. IsFiniteSet(1..Len(f.infos))
      BY <3>1, FS_Interval
    <3> QED  BY <1>1, <3>1, <3>2, FS_Subset DEF IsNextGroup
  <2> QED  BY <2>1, FS_CardinalityType, FS_EmptySet
<1>5. idx \in 0..(n - 1)
  BY <1>0, <1>3, <1>4
<1>6. d # f.level
  BY <1>1, <1>a, DistanceType DEF IsNextGroup
<1>7. /\ Drawing(mr) = {<<p, r>>}
      /\ \A m \in Models \ {mr} : Drawing(m) = {}
  <2>1. \A c \in Calls :
          c = <<p, r>> <=> (/\ frame'[c[1]].level # frame[c[1]].level
                            /\ frame'[c[1]].level \in Distances)
    <3>1. \A c \in Calls : c[1] \in Procs
      BY CallOf DEF TurnsInv
    <3> QED  BY <1>0, <1>2, <1>6, <3>1
  <2>2. <<p, r>>[1] = p /\ <<p, r>>[2] = r
    OBVIOUS
  <2> QED  BY <1>0, <2>1, <2>2 DEF Drawing
<1>8. Drawn(mr) = g
  <2>1. (CHOOSE c \in Drawing(mr) : TRUE) = <<p, r>>
    BY <1>7
  <2>2. (CHOOSE c \in Drawing(mr) : TRUE)[1] = p
    <3>1. <<p, r>>[1] = p
      OBVIOUS
    <3> QED  BY <2>1, <3>1, Zenon
  <2> QED  BY <2>2, Zenon DEF Drawn
<1>9. DOMAIN Ring(g) = 0..(n - 1) /\ StartOf(g) = Ring(g)[idx]
  BY <1>2 DEF Ring, StartOf
<1> DEFINE R == Ring(g)
           x == rrIndex[mr]
<1> HIDE DEF n
<1>10. /\ ring' = [m \in Models |-> ring'[m]]
       /\ starts' = [m \in Models |-> starts'[m]]
       /\ ring'[mr] = R
       /\ starts'[mr] = IF R = ring[mr] THEN Append(starts[mr], R[idx]) ELSE <<R[idx]>>
       /\ \A m \in Models \ {mr} : ring'[m] = ring[m] /\ starts'[m] = starts[m]
  <2> DEFINE N(m) == IF Drawing(m) # {} THEN Ring(Drawn(m)) ELSE ring[m]
             T(m) == IF Drawing(m) = {} THEN starts[m]
                     ELSE IF Ring(Drawn(m)) = ring[m] THEN Append(starts[m], StartOf(Drawn(m)))
                     ELSE <<StartOf(Drawn(m))>>
  <2>1. ring' = [m \in Models |-> N(m)] /\ starts' = [m \in Models |-> T(m)]
    BY DEF HistoryNext
  <2>2. Drawing(mr) # {}
    BY <1>7
  <2>3. N(mr) = R /\ T(mr) = IF R = ring[mr] THEN Append(starts[mr], R[idx]) ELSE <<R[idx]>>
    BY <1>8, <1>9, <2>2
  <2>4. \A m \in Models \ {mr} : N(m) = ring[m] /\ T(m) = starts[m]
    BY <1>7
  <2> HIDE DEF N, T, R
  <2> QED  BY <1>0, <2>1, <2>3, <2>4
<1> HIDE DEF R, idx
<1>11. starts'[mr] = <<>> \/ InRotation(ring'[mr], starts'[mr], rrIndex'[mr])
  <2>1. rrIndex'[mr] = idx + 1 /\ DOMAIN R = 0..(n - 1)
    BY <1>0, <1>3, <1>9 DEF R
  <2>2. CASE R = ring[mr] /\ starts[mr] # <<>>
    <3>1. InRotation(R, starts[mr], x)
      BY <1>0, <2>2 DEF TurnsInv
    <3>2. InRotation(R, Append(starts[mr], R[x % n]), (x % n) + 1)
      BY <1>4, <2>1, <3>1, NextStart
    <3> QED  BY <1>10, <2>1, <2>2, <3>2 DEF idx
  <2>3. CASE R # ring[mr] \/ starts[mr] = <<>>
    <3>1. InRotation(R, <<R[idx]>>, idx + 1)
      BY <1>4, <1>5, <2>1, FirstStart
    <3>2. Append(<<>>, R[idx]) = <<R[idx]>>
      OBVIOUS
    <3>3. starts'[mr] = <<R[idx]>>
      BY <1>10, <2>3, <3>2
    <3> QED  BY <1>10, <2>1, <3>1, <3>3
  <2> QED  BY <2>2, <2>3
<1>12. \A m \in Models \ {mr} : starts'[m] = <<>> \/ InRotation(ring'[m], starts'[m], rrIndex'[m])
  <2>1. \A m \in Models \ {mr} : rrIndex'[m] = rrIndex[m]
    BY <1>3
  <2> QED  BY <1>10, <2>1 DEF TurnsInv
<1> QED  BY <1>10, <1>11, <1>12 DEF TurnsInv

LEMMA RouteTurns ==
  ASSUME TurnsInv, TypeInv', HistoryNext, NEW p, NEW r, InCall(p, r), RouteStep(p, r)
  PROVE  TurnsInv'
<1>1. p \in Procs
  BY InCallIsCall DEF TurnsInv
<1>2. CASE PickGroup(p, r)
  BY <1>2, DrawStep
<1>3. CASE ~PickGroup(p, r)
  BY <1>1, <1>3, RouteNoDraw
<1> QED  BY <1>2, <1>3

LEMMA HistoryTurns ==
  ASSUME TurnsInv, HistoryNext
  PROVE  TurnsInv'
<1>0. TypeInv /\ TypeInv'
  BY StepType DEF HistoryNext, TurnsInv, Next
<1>a. UNCHANGED <<frame, rrIndex>> => TurnsInv'
  BY <1>0, NoDraw
<1>1. CASE EnvStep
  <2>1. UNCHANGED <<frame, rrIndex>>
    BY <1>1 DEF EnvStep, ClientLeaves, Expire, SetStrategy, Rediscover, routerVars
  <2> QED  BY <1>a, <2>1
<1>2. CASE WorkerStep
  <2>1. CASE pc[Worker] \in RoutePoints /\ RouteStep(Worker, Item)
    <3>1. InCall(Worker, Item)
      BY <1>0, <2>1 DEF InCall, TypeInv, Points
    <3> QED  BY <1>0, <2>1, <3>1, RouteTurns
  <2>2. CASE \/ BeginPass(TRUE) \/ BeginPass(FALSE) \/ EmptyPass \/ ScanItem \/ Deliver
             \/ KeepItem \/ EndPass
    <3>1. UNCHANGED <<frame, rrIndex>>
      BY <2>2 DEF BeginPass, EmptyPass, ScanItem, Deliver, KeepItem, EndPass, routerVars
    <3> QED  BY <1>a, <3>1
  <2> QED  BY <1>2, <2>1, <2>2 DEF WorkerStep
<1>3. ASSUME NEW r \in Requests, HandlerStep(r)
      PROVE  TurnsInv'
  <2>1. CASE RouteStep(r, r)
    <3>1. InCall(r, r)
      BY DEF InCall
    <3> QED  BY <1>0, <2>1, <3>1, RouteTurns
  <2>2. CASE Arrive(r) \/ RejectBody(r) \/ ProxyLookup(r) \/ UpstreamEnds(r) \/ ReleaseLookup(r) \/ ReleaseDec(r)
    <3>1. UNCHANGED <<frame, rrIndex>>
      BY <2>2 DEF Arrive, RejectBody, ProxyLookup, UpstreamEnds, ReleaseLookup, ReleaseDec
    <3> QED  BY <1>a, <3>1
  <2>3. CASE EnsureStarted(r) \/ AppendItem(r) \/ Notify(r) \/ CancelWait(r) \/ RemoveItem(r) \/ TakeAnswer(r) \/ CancelTake(r)
    <3>1. UNCHANGED <<frame, rrIndex>>
      BY <2>3 DEF EnsureStarted, AppendItem, Notify, CancelWait, RemoveItem, TakeAnswer, CancelTake
    <3> QED  BY <1>a, <3>1
  <2> QED  BY <1>3, <2>1, <2>2, <2>3 DEF HandlerStep
<1> QED  BY <1>1, <1>2, <1>3 DEF HistoryNext, Serve

LEMMA InitTurns == HistoryInit => TurnsInv
<1> SUFFICES ASSUME HistoryInit PROVE TurnsInv
  OBVIOUS
<1>1. TypeInv
  BY InitType DEF HistoryInit
<1> QED  BY <1>1 DEF TurnsInv, HistoryInit

(* As long as the calls for a model, however they interleave, draw their   *)
(* starts from one group of different servers in one order, they begin at  *)
(* each of its members before they begin at one again, for a group of any  *)
(* size and any number of calls.                                           *)
THEOREM MembersTakeTurns == HistorySpec => []EveryMemberInTurn
<1>1. TurnsInv /\ [HistoryNext]_<<vars, historyVars>> => TurnsInv'
  <2>1. ASSUME TurnsInv, UNCHANGED <<vars, historyVars>> PROVE TurnsInv'
    <3>1. TypeInv'
      BY <2>1, StepType DEF TurnsInv
    <3>2. UNCHANGED <<rrIndex, ring, starts>>
      BY <2>1 DEF vars, routerVars, historyVars
    <3> QED  BY <2>1, <3>1, <3>2 DEF TurnsInv
  <2> QED  BY <2>1, HistoryTurns
<1>2. TurnsInv => EveryMemberInTurn
  <2> SUFFICES ASSUME TurnsInv, NEW m \in Models PROVE MembersInTurn(ring[m], starts[m])
    BY DEF EveryMemberInTurn, MembersInTurn
  <2>1. CASE starts[m] = <<>>
    BY <2>1 DEF MembersInTurn
  <2>2. CASE InRotation(ring[m], starts[m], rrIndex[m])
    BY <2>2, RotationInTurn
  <2> QED  BY <2>1, <2>2 DEF TurnsInv
<1> QED  BY <1>1, <1>2, InitTurns, PTL DEF HistorySpec

-----------------------------------------------------------------------------
(* The limit of concurrent requests.                                       *)

CallPoints == {"inspect", "load", "try", "inc", "check"}

(* A call at point l with frame f that asks for a slot of server c, on a   *)
(* pool with the counters g and the configurations s: no counter is above  *)
(* what the call saw, but for its own slot; what it will still try had     *)
(* room then, so the server it is about to count for has room now.         *)
Fits(l, f, c, g, s) ==
  l \in CallPoints =>
    /\ \A i \in DOMAIN f.infos : f.infos[i].maxConn = s[f.infos[i].url].maxConn
    /\ \A i \in DOMAIN f.infos :
         \/ l = "load" /\ i = Len(f.infos)
         \/ l = "check" /\ c = f.infos[i].url /\ g[c] <= f.infos[i].inflight + 1
         \/ g[f.infos[i].url] <= f.infos[i].inflight
    /\ \A i \in f.cands : HasRoom(f.infos[i])
    /\ l \in {"inc", "check"} => f.infos # <<>>
    /\ l = "inc" => g[c] < s[c].maxConn

CallsFit == \A p \in Procs : Fits(pc[p], frame[p], conn[p], Gauge, server)

LimitInv ==
  /\ RouteInv
  /\ excused \in BOOLEAN
  /\ ~excused => ~Excuse /\ LimitKept /\ CallsFit

(* The types the arithmetic needs.                                         *)
LEMMA FitTypes ==
  ASSUME TypeInv
  PROVE  /\ Gauge \in [Servers -> Int] /\ server \in [Servers -> ServerConfig]
         /\ \A u \in Servers : Gauge[u] = Inflight(u) /\ server[u].maxConn \in Nat
         /\ \A p \in Procs : /\ frame[p] \in Frame /\ frame[p].infos \in Seq(Info)
                             /\ frame[p].cands \subseteq DOMAIN frame[p].infos
                             /\ pc[p] \in {"inc", "check"} => conn[p] \in Servers
<1>1. \A u \in Servers : Inflight(u) \in Int
  BY InflightType
<1>2. Gauge \in [Servers -> Int] /\ \A u \in Servers : Gauge[u] = Inflight(u)
  BY <1>1 DEF Gauge
<1>3. server \in [Servers -> ServerConfig]
  BY DEF TypeInv, TypeOK, PoolTypeOK
<1>4. \A u \in Servers : server[u].maxConn \in Nat
  BY <1>3, PoolAssumption DEF ServerConfig
<1>5. \A p \in Procs : FrameOK(frame[p], pc[p]) /\ ConnOK(pc[p], conn[p], bc[p])
  BY DEF TypeInv, Points
<1> QED  BY <1>2, <1>3, <1>4, <1>5 DEF FrameOK, ConnOK, HoldingPoints, Frame

LEMMA GaugeTypeNext == TypeInv' => Gauge' \in [Servers -> Int]
<1> DEFINE Typed == Gauge \in [Servers -> Int]
<1>1. TypeInv => Typed
  BY FitTypes
<1> HIDE DEF Typed
<1>2. TypeInv' => Typed'
  BY <1>1, PTL
<1> QED  BY <1>2 DEF Typed

LEMMA InfoTypes ==
  ASSUME NEW f \in Frame, NEW i \in DOMAIN f.infos
  PROVE  /\ f.infos[i] \in Info /\ f.infos[i].url \in Servers
         /\ f.infos[i].inflight \in Int /\ f.infos[i].maxConn \in Nat
<1>1. f.infos \in Seq(Info)
  BY DEF Frame
<1>2. f.infos[i] \in Info
  BY <1>1
<1> QED  BY <1>2, PoolAssumption DEF Info

(* A counter that falls fits what was seen.                                *)
LEMMA FitsLess ==
  ASSUME NEW l, NEW f \in Frame, NEW c, NEW g \in [Servers -> Int], NEW h \in [Servers -> Int],
         NEW s \in [Servers -> ServerConfig], Fits(l, f, c, g, s),
         l \in {"inc", "check"} => c \in Servers,
         \A u \in Servers : h[u] <= g[u]
  PROVE  Fits(l, f, c, h, s)
<1> SUFFICES ASSUME l \in CallPoints PROVE Fits(l, f, c, h, s)
  BY DEF Fits
<1>1. ASSUME NEW i \in DOMAIN f.infos
      PROVE  \/ l = "load" /\ i = Len(f.infos)
             \/ l = "check" /\ c = f.infos[i].url /\ h[c] <= f.infos[i].inflight + 1
             \/ h[f.infos[i].url] <= f.infos[i].inflight
  <2>1. \/ l = "load" /\ i = Len(f.infos)
        \/ l = "check" /\ c = f.infos[i].url /\ g[c] <= f.infos[i].inflight + 1
        \/ g[f.infos[i].url] <= f.infos[i].inflight
    BY DEF Fits
  <2>2. f.infos[i].url \in Servers /\ f.infos[i].inflight \in Int
    BY InfoTypes
  <2>3. /\ h[f.infos[i].url] <= g[f.infos[i].url]
        /\ h[f.infos[i].url] \in Int /\ g[f.infos[i].url] \in Int
    BY <2>2
  <2> QED  BY <2>1, <2>2, <2>3
<1>2. l = "inc" => h[c] < s[c].maxConn
  <2> SUFFICES ASSUME l = "inc" PROVE h[c] < s[c].maxConn
    OBVIOUS
  <2>1. g[c] < s[c].maxConn /\ c \in Servers
    BY DEF Fits
  <2>2. h[c] <= g[c] /\ h[c] \in Int /\ g[c] \in Int
    BY <2>1
  <2>3. s[c].maxConn \in Nat
    BY <2>1, PoolAssumption DEF ServerConfig
  <2> QED  BY <2>1, <2>2, <2>3
<1> QED  BY <1>1, <1>2 DEF Fits

LEMMA FitsElsewhere ==
  ASSUME NEW l, l \notin CallPoints, NEW f, NEW c, NEW g, NEW s
  PROVE  Fits(l, f, c, g, s)
BY DEF Fits

LEMMA FitsEmpty ==
  ASSUME NEW l, l \notin {"inc", "check"}, NEW f, f.infos = <<>>, f.cands = {},
         NEW c, NEW g, NEW s
  PROVE  Fits(l, f, c, g, s)
BY DEF Fits

-----------------------------------------------------------------------------
(* The steps of route, for the process that takes them.                    *)

LEMMA SnapshotFits ==
  ASSUME TypeInv, TypeInv', OneClient, NEW p \in Procs, NEW r, NEW done,
         Tried(pc[p], frame[p], done),
         Fits(pc[p], frame[p], conn[p], Gauge, server),
         RouteBegin(p, r) \/ Inspect(p) \/ LoadInflight(p)
  PROVE  Fits(pc'[p], frame'[p], conn'[p], Gauge, server)
<1> DEFINE f == frame[p]
           h == frame'[p]
<1>0. /\ frame \in [Procs -> Frame] /\ f \in Frame /\ f.infos \in Seq(Info)
      /\ pc \in [Procs -> RoutePoints \cup HandlerPoints \cup WorkerPoints]
      /\ f.todo \in Seq(Servers) /\ FrameOK(f, pc[p])
      /\ server \in [Servers -> ServerConfig]
  BY DEF TypeInv, TypeOK, PoolTypeOK, Frame, Points
<1>1. CASE RouteBegin(p, r)
  <2>1. CASE RouteFails(p)
    <3>1. pc'[p] \in {"failed", "done"}
      BY <1>0, <2>1 DEF RouteFails, Goto
    <3> QED  BY <3>1, FitsElsewhere DEF CallPoints
  <2>2. CASE SetFrame(p, NewFrame(strategy, serving[ModelOf[r]])) /\ Goto(p, "inspect")
    <3>1. pc'[p] = "inspect" /\ h.infos = <<>> /\ h.cands = {}
      BY <1>0, <2>2 DEF SetFrame, Goto, NewFrame
    <3> HIDE DEF h
    <3>2. Fits(pc'[p], h, conn'[p], Gauge, server)
      BY <3>1, FitsEmpty
    <3> QED  BY <3>2 DEF h
  <2> QED  BY <1>1, <2>1, <2>2 DEF RouteBegin
<1>2. CASE Inspect(p)
  <2> DEFINE u == Head(f.todo)
             info == [url |-> u, distance |-> server[u].distance,
                      maxConn |-> server[u].maxConn, inflight |-> 0]
  <2>0. pc[p] = "inspect" /\ f.todo # <<>> /\ u \in Servers
    BY <1>0, <1>2 DEF Inspect, FrameOK
  <2>1. clients[u] # 0
    BY <2>0 DEF OneClient
  <2>2. SetFrame(p, [f EXCEPT !.todo = Tail(@), !.infos = Append(@, info)]) /\ Goto(p, "load")
    BY <1>2, <2>1 DEF Inspect
  <2>3. h.infos = Append(f.infos, info) /\ h.cands = f.cands /\ pc'[p] = "load"
    BY <1>0, <2>2 DEF SetFrame, Goto, Frame
  <2>4. f.cands = {}
    BY <2>0 DEF Tried
  <2>5. info.url = u /\ info.maxConn = server[u].maxConn
    OBVIOUS
  <2>6. info \in Info
    BY <1>0, <2>0 DEF Info, ServerConfig
  <2> HIDE DEF info, u
  <2>7. /\ Len(h.infos) = Len(f.infos) + 1 /\ DOMAIN h.infos = 1..Len(h.infos)
        /\ DOMAIN f.infos = 1..Len(f.infos) /\ Len(f.infos) \in Nat
        /\ \A i \in DOMAIN f.infos : h.infos[i] = f.infos[i]
        /\ h.infos[Len(f.infos) + 1] = info
    BY <1>0, <2>3, <2>6
  <2>8. \A i \in DOMAIN f.infos : /\ f.infos[i].maxConn = server[f.infos[i].url].maxConn
                                  /\ Gauge[f.infos[i].url] <= f.infos[i].inflight
    BY <2>0 DEF Fits, CallPoints
  <2> HIDE DEF f, h
  <2>9. \A i \in DOMAIN h.infos : i \in DOMAIN f.infos \/ i = Len(h.infos)
    BY <2>7
  <2>10. \A i \in DOMAIN h.infos : h.infos[i].maxConn = server[h.infos[i].url].maxConn
    BY <2>5, <2>7, <2>8, <2>9
  <2>11. \A i \in DOMAIN h.infos : i = Len(h.infos) \/ Gauge[h.infos[i].url] <= h.infos[i].inflight
    BY <2>7, <2>8, <2>9
  <2>12. Fits(pc'[p], h, conn'[p], Gauge, server)
    BY <2>3, <2>4, <2>10, <2>11 DEF Fits
  <2> QED  BY <2>12 DEF h
<1>3. CASE LoadInflight(p)
  <2> DEFINE n == Len(f.infos)
             info == [f.infos[n] EXCEPT !.inflight = Inflight(f.infos[n].url)]
  <2>0. pc[p] = "load" /\ f.infos # <<>>
    BY <1>0, <1>3 DEF LoadInflight, FrameOK
  <2>1. n \in DOMAIN f.infos /\ DOMAIN f.infos = 1..n /\ n \in Nat
    BY <1>0, <2>0
  <2>2. f.infos[n] \in Info /\ f.infos[n].url \in Servers
    BY <1>0, <2>1, InfoTypes
  <2>3. SetFrame(p, [f EXCEPT !.infos = [f.infos EXCEPT ![n] = info]])
    BY <1>3 DEF LoadInflight
  <2>4. h.infos = [f.infos EXCEPT ![n] = info] /\ h.cands = f.cands /\ f.cands = {}
    BY <1>0, <2>0, <2>3 DEF SetFrame, Frame, Tried
  <2>5. /\ info.url = f.infos[n].url /\ info.maxConn = f.infos[n].maxConn
        /\ info.inflight = Gauge[info.url]
    BY <2>2 DEF Info, Gauge
  <2>6. Gauge[info.url] \in Int
    BY <2>2, <2>5, FitTypes
  <2>7. pc'[p] \in {"try", "inspect"}
    BY <1>0, <1>3 DEF LoadInflight, NextServer, Goto
  <2>8. \A i \in DOMAIN f.infos : /\ f.infos[i].maxConn = server[f.infos[i].url].maxConn
                                  /\ i = n \/ Gauge[f.infos[i].url] <= f.infos[i].inflight
    BY <2>0 DEF Fits, CallPoints
  <2> HIDE DEF info, n
  <2>9. /\ DOMAIN h.infos = DOMAIN f.infos /\ h.infos[n] = info
        /\ \A i \in DOMAIN f.infos \ {n} : h.infos[i] = f.infos[i]
    BY <1>0, <2>1, <2>4
  <2> HIDE DEF f, h
  <2>10. \A i \in DOMAIN h.infos : h.infos[i].maxConn = server[h.infos[i].url].maxConn
    BY <2>1, <2>5, <2>8, <2>9
  <2>11. \A i \in DOMAIN h.infos : Gauge[h.infos[i].url] <= h.infos[i].inflight
    BY <2>5, <2>6, <2>8, <2>9
  <2>12. Fits(pc'[p], h, conn'[p], Gauge, server)
    BY <2>4, <2>7, <2>10, <2>11 DEF Fits
  <2> QED  BY <2>12 DEF h
<1> QED  BY <1>1, <1>2, <1>3

(* A group is picked, a member of it is about to be asked for a slot.      *)
LEMMA PickFits ==
  ASSUME TypeInv, OneClient, NEW p \in Procs, NEW r,
         Fits(pc[p], frame[p], conn[p], Gauge, server),
         PickGroup(p, r) \/ AcquireLookup(p)
  PROVE  Fits(pc'[p], frame'[p], conn'[p], Gauge, server)
<1> DEFINE f == frame[p]
           h == frame'[p]
<1>0. /\ frame \in [Procs -> Frame] /\ f \in Frame /\ f.infos \in Seq(Info)
      /\ pc \in [Procs -> RoutePoints \cup HandlerPoints \cup WorkerPoints]
      /\ conn \in [Procs -> Servers \cup {NoServer}]
      /\ f.cands \subseteq DOMAIN f.infos
  BY DEF TypeInv, TypeOK, Frame, Points, FrameOK
<1>1. pc[p] = "try"
  BY DEF PickGroup, AcquireLookup
<1>2. /\ \A i \in DOMAIN f.infos : f.infos[i].maxConn = server[f.infos[i].url].maxConn
      /\ \A i \in DOMAIN f.infos : Gauge[f.infos[i].url] <= f.infos[i].inflight
      /\ \A i \in f.cands : HasRoom(f.infos[i])
  BY <1>1 DEF Fits, CallPoints
<1>3. CASE PickGroup(p, r)
  <2>1. PICK d \in Distances : StartGroup(p, r, d)
    BY <1>3 DEF PickGroup
  <2>2. /\ h.infos = f.infos /\ UNCHANGED pc
        /\ h.cands = {i \in Group(f.infos, d) : HasRoom(f.infos[i])}
    BY <1>0, <1>3, <2>1 DEF StartGroup, SetFrame, Frame, PickGroup
  <2> HIDE DEF f, h
  <2>3. Fits(pc'[p], h, conn'[p], Gauge, server)
    BY <1>1, <1>2, <2>2 DEF Fits
  <2> QED  BY <2>3 DEF h
<1>4. CASE AcquireLookup(p)
  <2>1. PICK i \in f.cands :
          /\ SetFrame(p, [f EXCEPT !.cands = @ \ {i}])
          /\ \/ clients[f.infos[i].url] = 0
             \/ Goto(p, "inc") /\ conn' = [conn EXCEPT ![p] = f.infos[i].url]
    BY <1>4 DEF AcquireLookup
  <2>2. /\ f.infos[i].url \in Servers /\ f.infos[i].inflight \in Int
        /\ f.infos[i].maxConn \in Nat /\ i \in DOMAIN f.infos
    BY <1>0, InfoTypes
  <2>3. Goto(p, "inc") /\ conn' = [conn EXCEPT ![p] = f.infos[i].url]
    BY <2>1, <2>2 DEF OneClient
  <2>4. /\ h.infos = f.infos /\ h.cands \subseteq f.cands /\ pc'[p] = "inc"
        /\ conn'[p] = f.infos[i].url
    BY <1>0, <2>1, <2>3 DEF SetFrame, Goto, Frame
  <2>5. Gauge[f.infos[i].url] \in Int
    BY <2>2, FitTypes
  <2>6. Gauge[f.infos[i].url] < f.infos[i].maxConn
    BY <1>2, <2>2, <2>5 DEF HasRoom
  <2>7. f.infos # <<>>
    BY <2>2
  <2> HIDE DEF f, h
  <2>8. Gauge[conn'[p]] < server[conn'[p]].maxConn
    BY <1>2, <2>2, <2>4, <2>6
  <2>9. Fits(pc'[p], h, conn'[p], Gauge, server)
    BY <1>2, <2>4, <2>7, <2>8 DEF Fits
  <2> QED  BY <2>9 DEF h
<1> QED  BY <1>3, <1>4

(* The counters after Acquire's additions, on the one client of a server.  *)
LEMMA GaugeAdd ==
  ASSUME LedgerInv, LedgerInv', NEW u \in Servers, NEW d \in Int, InflightAdd(u, 1, d)
  PROVE  \A v \in Servers : Gauge'[v] = Gauge[v] + (IF v = u THEN d ELSE 0)
<1>1. \A v \in Servers : inflight'[v][1] = inflight[v][1] + (IF v = u THEN d ELSE 0)
  BY AddOnClient DEF LedgerInv
<1>2. \A v \in Servers : clients[v] = 1 /\ clients'[v] = 1
  BY DEF LedgerInv, OneClient
<1> QED  BY <1>1, <1>2 DEF Gauge, Inflight

(* The slot is counted: the one step in which a counter grows.             *)
LEMMA AddFits ==
  ASSUME LedgerInv, LedgerInv', NEW p \in Procs, AcquireAdd(p), LimitKept,
         Fits(pc[p], frame[p], conn[p], Gauge, server)
  PROVE  Fits(pc'[p], frame'[p], conn'[p], Gauge', server') /\ LimitKept'
<1> DEFINE f == frame[p]
           c == conn[p]
<1>0. /\ pc[p] = "inc" /\ pc'[p] = "check" /\ UNCHANGED <<frame, conn, server>>
      /\ bc[p] = 1 /\ c \in Servers /\ InflightAdd(c, bc[p], 1)
  BY DEF AcquireAdd, Goto, LedgerInv, OneClient, TypeInv, TypeOK, Points, ConnOK
<1>1. \A v \in Servers : Gauge'[v] = Gauge[v] + (IF v = c THEN 1 ELSE 0)
  BY <1>0, GaugeAdd
<1>2. /\ Gauge \in [Servers -> Int] /\ f \in Frame
      /\ \A u \in Servers : Gauge[u] = Inflight(u) /\ server[u].maxConn \in Nat
  BY FitTypes DEF LedgerInv
<1>3. \A u \in Servers : Gauge'[u] = Inflight(u)'
  BY DEF Gauge
<1>4. /\ \A i \in DOMAIN f.infos : f.infos[i].maxConn = server[f.infos[i].url].maxConn
      /\ \A i \in DOMAIN f.infos : Gauge[f.infos[i].url] <= f.infos[i].inflight
      /\ \A i \in f.cands : HasRoom(f.infos[i])
      /\ f.infos # <<>> /\ Gauge[c] < server[c].maxConn
  BY <1>0 DEF Fits, CallPoints
<1>5. LimitKept'
  <2>1. ASSUME NEW u \in Servers PROVE Gauge'[u] <= server[u].maxConn
    <3>1. Gauge[u] <= server[u].maxConn
      BY <1>2 DEF LimitKept
    <3>2. Gauge'[u] = Gauge[u] + (IF u = c THEN 1 ELSE 0)
      BY <1>1
    <3>3. Gauge[u] \in Int /\ server[u].maxConn \in Nat
      BY <1>2
    <3> QED  BY <1>4, <3>1, <3>2, <3>3
  <2> QED  BY <1>0, <1>3, <2>1 DEF LimitKept
<1>6. ASSUME NEW i \in DOMAIN f.infos
      PROVE  \/ c = f.infos[i].url /\ Gauge'[c] <= f.infos[i].inflight + 1
             \/ Gauge'[f.infos[i].url] <= f.infos[i].inflight
  <2>1. f.infos[i].url \in Servers /\ f.infos[i].inflight \in Int
    BY <1>2, InfoTypes
  <2>2. Gauge[f.infos[i].url] \in Int /\ Gauge[f.infos[i].url] <= f.infos[i].inflight
    BY <1>2, <1>4, <2>1
  <2>3. Gauge'[f.infos[i].url] = Gauge[f.infos[i].url] + (IF f.infos[i].url = c THEN 1 ELSE 0)
    BY <1>1, <2>1
  <2> QED  BY <2>1, <2>2, <2>3
<1> HIDE DEF f, c
<1>7. Fits("check", f, c, Gauge', server)
  BY <1>4, <1>6 DEF Fits
<1> QED  BY <1>0, <1>5, <1>7 DEF f, c

(* The context is done and the slot is given back, or the call returns it. *)
LEMMA CheckFits ==
  ASSUME LedgerInv, LedgerInv', NEW p \in Procs, NEW r, AcquireCheck(p, r),
         Fits(pc[p], frame[p], conn[p], Gauge, server)
  PROVE  /\ Fits(pc'[p], frame'[p], conn'[p], Gauge', server')
         /\ \A u \in Servers : Gauge'[u] <= Gauge[u]
<1> DEFINE f == frame[p]
           c == conn[p]
<1>0. /\ pc[p] = "check" /\ UNCHANGED <<server, clients>> /\ bc[p] = 1 /\ c \in Servers
      /\ pc \in [Procs -> RoutePoints \cup HandlerPoints \cup WorkerPoints]
  BY DEF AcquireCheck, LedgerInv, OneClient, TypeInv, TypeOK, Points, ConnOK, HoldingPoints
<1>2. /\ Gauge \in [Servers -> Int] /\ f \in Frame
  BY FitTypes DEF LedgerInv
<1>3. CASE InflightAdd(c, bc[p], -1) /\ Goto(p, "try") /\ UNCHANGED frame
  <2>1. \A v \in Servers : Gauge'[v] = Gauge[v] + (IF v = c THEN -1 ELSE 0)
    BY <1>0, <1>3, GaugeAdd
  <2>2. \A v \in Servers : Gauge'[v] <= Gauge[v]
    BY <1>2, <2>1
  <2>3. pc'[p] = "try"
    BY <1>0, <1>3 DEF Goto
  <2>4. /\ \A i \in DOMAIN f.infos : f.infos[i].maxConn = server[f.infos[i].url].maxConn
        /\ \A i \in DOMAIN f.infos : \/ c = f.infos[i].url /\ Gauge[c] <= f.infos[i].inflight + 1
                                     \/ Gauge[f.infos[i].url] <= f.infos[i].inflight
        /\ \A i \in f.cands : HasRoom(f.infos[i])
    BY <1>0 DEF Fits, CallPoints
  <2>5. ASSUME NEW i \in DOMAIN f.infos
        PROVE  Gauge'[f.infos[i].url] <= f.infos[i].inflight
    <3>1. f.infos[i].url \in Servers /\ f.infos[i].inflight \in Int
      BY <1>2, InfoTypes
    <3>2. /\ Gauge[f.infos[i].url] \in Int
          /\ Gauge'[f.infos[i].url] = Gauge[f.infos[i].url] + (IF f.infos[i].url = c THEN -1 ELSE 0)
      BY <1>2, <2>1, <3>1
    <3> QED  BY <2>4, <3>1, <3>2
  <2> HIDE DEF f
  <2>6. Fits("try", f, conn'[p], Gauge', server)
    BY <2>4, <2>5 DEF Fits
  <2> QED  BY <1>0, <1>3, <2>2, <2>3, <2>6 DEF f
<1>4. CASE Goto(p, IF p = Worker THEN "deliver" ELSE "proxy") /\ UNCHANGED inflight
  <2>1. pc'[p] \notin CallPoints
    BY <1>0, <1>4 DEF Goto, CallPoints
  <2>2. Gauge' = Gauge
    BY <1>0, <1>4 DEF Gauge, Inflight
  <2> QED  BY <1>2, <2>1, <2>2, FitsElsewhere
<1> QED  BY <1>3, <1>4 DEF AcquireCheck

(* Without best effort the call ends here.                                 *)
LEMMA FallbackFits ==
  ASSUME TypeInv, NEW p \in Procs, Fallback(p), ~Excuse'
  PROVE  Fits(pc'[p], frame'[p], conn'[p], Gauge', server')
<1>0. /\ frame \in [Procs -> Frame]
      /\ pc \in [Procs -> RoutePoints \cup HandlerPoints \cup WorkerPoints]
  BY DEF TypeInv, TypeOK
<1>1. CASE \E i \in DOMAIN frame[p].infos :
             SetFrame(p, [frame[p] EXCEPT !.level = AnyGroup, !.cands = {i}])
  <2>1. frame'[p].level = AnyGroup
    BY <1>0, <1>1 DEF SetFrame, Frame
  <2> QED  BY <2>1 DEF Excuse
<1>2. CASE Goto(p, "ensure") \/ RouteFails(p)
  <2>1. pc'[p] \notin CallPoints
    BY <1>0, <1>2 DEF RouteFails, Goto, CallPoints
  <2> QED  BY <2>1, FitsElsewhere
<1> QED  BY <1>1, <1>2 DEF Fallback

(* The calls of the others: no counter grows while one of them holds a     *)
(* snapshot.                                                               *)
LEMMA OthersFit ==
  ASSUME TypeInv, TypeInv', NEW p \in Procs, UNCHANGED server,
         \/ \A u \in Servers : Gauge'[u] <= Gauge[u]
         \/ frame[p].infos # <<>>,
         ~Excuse, CallsFit, NEW q \in Procs, q # p,
         pc'[q] = pc[q], frame'[q] = frame[q], conn'[q] = conn[q]
  PROVE  Fits(pc'[q], frame'[q], conn'[q], Gauge', server')
<1>1. Fits(pc[q], frame[q], conn[q], Gauge, server)
  BY DEF CallsFit
<1>2. /\ Gauge \in [Servers -> Int] /\ server \in [Servers -> ServerConfig]
      /\ frame[q] \in Frame /\ frame[q].cands \subseteq DOMAIN frame[q].infos
      /\ pc[q] \in {"inc", "check"} => conn[q] \in Servers
  BY FitTypes
<1>3. Gauge' \in [Servers -> Int]
  BY GaugeTypeNext
<1>4. CASE \A u \in Servers : Gauge'[u] <= Gauge[u]
  BY <1>1, <1>2, <1>3, <1>4, FitsLess
<1>5. CASE frame[p].infos # <<>>
  <2>1. frame[q].infos = <<>>
    BY <1>5 DEF Excuse
  <2>2. frame[q].cands = {}
    BY <1>2, <2>1
  <2>3. pc[q] \notin {"inc", "check"}
    BY <1>1, <2>1 DEF Fits, CallPoints
  <2> QED  BY <2>1, <2>2, <2>3, FitsEmpty
<1> QED  BY <1>4, <1>5

LEMMA LimitLess ==
  ASSUME TypeInv, LimitKept, UNCHANGED server, Gauge' \in [Servers -> Int],
         \A u \in Servers : Gauge'[u] <= Gauge[u]
  PROVE  LimitKept'
<1>1. /\ Gauge \in [Servers -> Int]
      /\ \A u \in Servers : Gauge[u] = Inflight(u) /\ server[u].maxConn \in Nat
  BY FitTypes
<1>2. \A u \in Servers : Gauge'[u] = Inflight(u)'
  BY DEF Gauge
<1>3. ASSUME NEW u \in Servers PROVE Gauge'[u] <= server[u].maxConn
  <2>1. /\ Gauge[u] <= server[u].maxConn /\ Gauge'[u] <= Gauge[u]
        /\ Gauge[u] \in Int /\ Gauge'[u] \in Int /\ server[u].maxConn \in Nat
    BY <1>1 DEF LimitKept
  <2> QED  BY <2>1
<1> QED  BY <1>2, <1>3 DEF LimitKept

LEMMA RouteFits ==
  ASSUME LimitInv, RouteInv', NEW p, NEW r, InCall(p, r), RouteStep(p, r),
         pc[p] \in RoutePoints, ~excused, ~Excuse'
  PROVE  LimitKept' /\ CallsFit'
<1>0. /\ TypeInv /\ TypeInv' /\ OneClient /\ LedgerInv /\ LedgerInv' /\ p \in Procs
      /\ ~Excuse /\ LimitKept /\ CallsFit
  BY InCallIsCall DEF LimitInv, RouteInv, LedgerInv
<1>1. Fits(pc[p], frame[p], conn[p], Gauge, server)
  BY <1>0 DEF CallsFit
<1>2. Tried(pc[p], frame[p], ctxDone[r])
  BY DEF LimitInv, RouteInv, CallsTried, InCall
<1>3. UNCHANGED server
  BY DEF RouteStep, RouteBegin, Inspect, LoadInflight, PickGroup, AcquireLookup, AcquireAdd,
     AcquireCheck, Fallback, poolVars
<1>4. \A q \in Procs \ {p} : pc'[q] = pc[q] /\ frame'[q] = frame[q]
  BY <1>0, <1>2, RouteTried
<1>5. \A q \in Procs \ {p} : conn'[q] = conn[q]
  <2>1. UNCHANGED conn \/ \E u : conn' = [conn EXCEPT ![p] = u]
    BY DEF RouteStep, RouteBegin, Inspect, LoadInflight, PickGroup, AcquireLookup, AcquireAdd,
       AcquireCheck, Fallback
  <2> QED  BY <1>0, <2>1 DEF TypeInv, TypeOK
<1>6. Gauge \in [Servers -> Int] /\ Gauge' \in [Servers -> Int]
  BY <1>0, FitTypes, GaugeTypeNext
<1>7. ASSUME Fits(pc'[p], frame'[p], conn'[p], Gauge', server'),
             \/ \A u \in Servers : Gauge'[u] <= Gauge[u]
             \/ frame[p].infos # <<>>
      PROVE  CallsFit'
  <2>1. \A q \in Procs \ {p} : Fits(pc'[q], frame'[q], conn'[q], Gauge', server')
    BY <1>0, <1>3, <1>4, <1>5, <1>7, OthersFit
  <2> QED  BY <1>7, <2>1 DEF CallsFit
<1>8. ASSUME UNCHANGED poolVars, Fits(pc'[p], frame'[p], conn'[p], Gauge, server)
      PROVE  LimitKept' /\ CallsFit'
  <2>1. Gauge' = Gauge
    BY <1>8 DEF Gauge, Inflight, poolVars
  <2>2. \A u \in Servers : Gauge'[u] <= Gauge[u]
    BY <1>6, <2>1
  <2>3. Fits(pc'[p], frame'[p], conn'[p], Gauge', server')
    BY <1>3, <1>8, <2>1
  <2> QED  BY <1>0, <1>3, <1>6, <1>7, <2>2, <2>3, LimitLess
<1>9. CASE RouteBegin(p, r) \/ Inspect(p) \/ LoadInflight(p)
  <2>1. Fits(pc'[p], frame'[p], conn'[p], Gauge, server)
    BY <1>0, <1>1, <1>2, <1>9, SnapshotFits
  <2>2. UNCHANGED poolVars
    BY <1>9 DEF RouteBegin, Inspect, LoadInflight
  <2> QED  BY <1>8, <2>1, <2>2
<1>10. CASE PickGroup(p, r) \/ AcquireLookup(p)
  <2>1. Fits(pc'[p], frame'[p], conn'[p], Gauge, server)
    BY <1>0, <1>1, <1>10, PickFits
  <2>2. UNCHANGED poolVars
    BY <1>10 DEF PickGroup, AcquireLookup
  <2> QED  BY <1>8, <2>1, <2>2
<1>11. CASE AcquireAdd(p)
  <2>1. Fits(pc'[p], frame'[p], conn'[p], Gauge', server') /\ LimitKept'
    BY <1>0, <1>1, <1>11, AddFits
  <2>2. frame[p].infos # <<>>
    BY <1>1, <1>11 DEF AcquireAdd, Fits, CallPoints
  <2> QED  BY <1>7, <2>1, <2>2
<1>12. CASE AcquireCheck(p, r)
  <2>1. /\ Fits(pc'[p], frame'[p], conn'[p], Gauge', server')
        /\ \A u \in Servers : Gauge'[u] <= Gauge[u]
    BY <1>0, <1>1, <1>12, CheckFits
  <2> QED  BY <1>0, <1>3, <1>6, <1>7, <2>1, LimitLess
<1>13. CASE Fallback(p)
  <2>1. Fits(pc'[p], frame'[p], conn'[p], Gauge', server')
    BY <1>0, <1>13, FallbackFits
  <2>2. UNCHANGED poolVars
    BY <1>13 DEF Fallback
  <2>3. Gauge' = Gauge
    BY <2>2 DEF Gauge, Inflight, poolVars
  <2> QED  BY <1>3, <1>8, <2>1, <2>2, <2>3
<1> QED  BY <1>9, <1>10, <1>11, <1>12, <1>13 DEF RouteStep

-----------------------------------------------------------------------------
(* The other steps.                                                        *)

(* A step outside route: calls stay where they are and no counter grows.   *)
LEMMA QuietFits ==
  ASSUME LimitInv, RouteInv', ~excused, UNCHANGED <<frame, server>>,
         \A u \in Servers : Gauge'[u] <= Gauge[u],
         \A p \in Procs : \/ pc'[p] = pc[p] /\ (pc[p] \in {"inc", "check"} => conn'[p] = conn[p])
                          \/ pc'[p] \notin CallPoints
  PROVE  LimitKept' /\ CallsFit'
<1>0. TypeInv /\ TypeInv' /\ LimitKept /\ CallsFit
  BY DEF LimitInv, RouteInv, LedgerInv
<1>1. Gauge \in [Servers -> Int] /\ Gauge' \in [Servers -> Int]
  BY <1>0, FitTypes, GaugeTypeNext
<1>2. ASSUME NEW p \in Procs PROVE Fits(pc'[p], frame'[p], conn'[p], Gauge', server')
  <2>1. CASE pc'[p] \notin CallPoints
    BY <2>1, FitsElsewhere
  <2>2. CASE pc'[p] = pc[p] /\ (pc[p] \in {"inc", "check"} => conn'[p] = conn[p])
    <3>1. Fits(pc[p], frame[p], conn[p], Gauge, server)
      BY <1>0 DEF CallsFit
    <3>2. /\ frame[p] \in Frame /\ server \in [Servers -> ServerConfig]
          /\ pc[p] \in {"inc", "check"} => conn[p] \in Servers
      BY <1>0, FitTypes
    <3>3. Fits(pc[p], frame[p], conn[p], Gauge', server)
      BY <1>1, <3>1, <3>2, FitsLess
    <3>4. CASE pc[p] \in {"inc", "check"}
      BY <2>2, <3>3, <3>4
    <3>5. CASE pc[p] \notin {"inc", "check"}
      <4>1. Fits(pc[p], frame[p], conn'[p], Gauge', server)
        BY <3>3, <3>5 DEF Fits
      <4> QED  BY <2>2, <4>1
    <3> QED  BY <3>4, <3>5
  <2> QED  BY <2>1, <2>2
<1> QED  BY <1>0, <1>1, <1>2, LimitLess DEF CallsFit

(* The steps of p outside route on an unchanged pool.                      *)
LEMMA PoolQuietFits ==
  ASSUME LimitInv, RouteInv', ~excused, UNCHANGED <<frame, poolVars>>,
         \A p \in Procs : \/ pc'[p] = pc[p] /\ (pc[p] \in {"inc", "check"} => conn'[p] = conn[p])
                          \/ pc'[p] \notin CallPoints
  PROVE  LimitKept' /\ CallsFit'
<1>1. Gauge' = Gauge
  BY DEF Gauge, Inflight, poolVars
<1>2. Gauge \in [Servers -> Int]
  BY FitTypes DEF LimitInv, RouteInv, LedgerInv
<1>3. \A u \in Servers : Gauge'[u] <= Gauge[u]
  BY <1>1, <1>2
<1> QED  BY <1>3, QuietFits DEF poolVars

LEMMA HandlerFits ==
  ASSUME LimitInv, RouteInv', ~excused, ~Excuse', NEW r \in Requests, HandlerStep(r)
  PROVE  LimitKept' /\ CallsFit'
<1>0. /\ pc \in [Procs -> RoutePoints \cup HandlerPoints \cup WorkerPoints]
      /\ conn \in [Procs -> Servers \cup {NoServer}] /\ TypeInv
      /\ r \in Procs /\ Worker \in Procs
  BY DEF LimitInv, RouteInv, LedgerInv, TypeInv, TypeOK, Procs
<1>1. CASE RouteStep(r, r)
  <2>1. InCall(r, r)
    BY DEF InCall
  <2>2. pc[r] \in RoutePoints
    BY <1>0, <1>1, RouteMoves
  <2> QED  BY <1>1, <2>1, <2>2, RouteFits
<1>2. ASSUME NEW l \in {"route", "done", "release", "upstream", "append", "notify", "wait", "remove",
                        "proxy", "dec"},
             Goto(r, l), UNCHANGED <<frame, poolVars>>,
             UNCHANGED conn \/ \E u : conn' = [conn EXCEPT ![r] = u]
      PROVE  LimitKept' /\ CallsFit'
  <2>1. \A p \in Procs : pc'[p] = (IF p = r THEN l ELSE pc[p])
    BY <1>0, <1>2 DEF Goto
  <2>2. \A p \in Procs \ {r} : conn'[p] = conn[p]
    BY <1>0, <1>2
  <2>3. l \notin CallPoints
    BY DEF CallPoints
  <2> QED  BY <1>2, <2>1, <2>2, <2>3, PoolQuietFits
<1>3. CASE Arrive(r) \/ RejectBody(r) \/ ProxyLookup(r) \/ UpstreamEnds(r)
  BY <1>2, <1>3 DEF Arrive, RejectBody, ProxyLookup, UpstreamEnds
<1>4. CASE AppendItem(r) \/ Notify(r) \/ CancelWait(r) \/ RemoveItem(r)
  BY <1>2, <1>4 DEF AppendItem, Notify, CancelWait, RemoveItem
<1>5. CASE TakeAnswer(r)
  BY <1>2, <1>5 DEF TakeAnswer
<1>6. CASE CancelTake(r)
  BY <1>2, <1>6 DEF CancelTake
<1>7. CASE ReleaseLookup(r)
  BY <1>2, <1>7 DEF ReleaseLookup
<1>8. CASE EnsureStarted(r)
  <2>1. /\ UNCHANGED <<frame, poolVars, conn>>
        /\ \A p \in Procs : pc'[p] = pc[p] \/ pc'[p] \in {"append", "select"}
    BY <1>0, <1>8 DEF EnsureStarted
  <2> QED  BY <2>1, PoolQuietFits DEF CallPoints
<1>9. CASE ReleaseDec(r)
  <2>1. /\ pc[r] = "dec" /\ bc[r] = 1 /\ conn[r] \in Servers /\ InflightAdd(conn[r], bc[r], -1)
        /\ UNCHANGED <<frame, server>>
    BY <1>0, <1>9 DEF ReleaseDec, LimitInv, RouteInv, LedgerInv, OneClient, TypeInv, Points,
       ConnOK, HoldingPoints
  <2>2. \A v \in Servers : Gauge'[v] = Gauge[v] + (IF v = conn[r] THEN -1 ELSE 0)
    BY <2>1, GaugeAdd DEF LimitInv, RouteInv
  <2>3. Gauge \in [Servers -> Int]
    BY <1>0, FitTypes
  <2>4. \A v \in Servers : Gauge'[v] <= Gauge[v]
    BY <2>2, <2>3
  <2>5. \A p \in Procs : /\ pc'[p] = (IF p = r THEN "done" ELSE pc[p])
                         /\ p # r => conn'[p] = conn[p]
    BY <1>0, <1>9 DEF ReleaseDec, Goto
  <2> QED  BY <2>1, <2>4, <2>5, QuietFits DEF CallPoints
<1> QED  BY <1>1, <1>3, <1>4, <1>5, <1>6, <1>7, <1>8, <1>9 DEF HandlerStep

LEMMA WorkerFits ==
  ASSUME LimitInv, RouteInv', ~excused, ~Excuse', WorkerStep
  PROVE  LimitKept' /\ CallsFit'
<1>0. /\ pc \in [Procs -> RoutePoints \cup HandlerPoints \cup WorkerPoints]
      /\ conn \in [Procs -> Servers \cup {NoServer}] /\ TypeInv /\ Worker \in Procs
  BY DEF LimitInv, RouteInv, LedgerInv, TypeInv, TypeOK, Procs
<1>1. CASE pc[Worker] \in RoutePoints /\ RouteStep(Worker, Item)
  <2>1. InCall(Worker, Item)
    BY <1>0, <1>1 DEF InCall, TypeInv, Points
  <2> QED  BY <1>1, <2>1, RouteFits
<1>2. CASE \/ BeginPass(TRUE) \/ BeginPass(FALSE) \/ EmptyPass \/ ScanItem \/ Deliver
           \/ KeepItem \/ EndPass
  <2>1. /\ pc[Worker] \in {"select", "scan", "deliver", "failed"}
        /\ UNCHANGED <<frame, poolVars>>
        /\ UNCHANGED pc \/ \E l \in {"scan", "route", "select"} : Goto(Worker, l)
        /\ UNCHANGED conn \/ conn' = [conn EXCEPT ![Worker] = NoServer]
    BY <1>2 DEF BeginPass, EmptyPass, ScanItem, Deliver, KeepItem, EndPass, routerVars
  <2>2. \A p \in Procs : pc'[p] = pc[p] \/ pc'[p] \in {"scan", "route", "select"}
    BY <1>0, <2>1 DEF Goto
  <2>3. \A p \in Procs : pc[p] \in {"inc", "check"} => conn'[p] = conn[p]
    BY <1>0, <2>1
  <2> QED  BY <2>1, <2>2, <2>3, PoolQuietFits DEF CallPoints
<1> QED  BY <1>1, <1>2 DEF WorkerStep

LEMMA InitLimit == HistoryInit => LimitInv
<1> SUFFICES ASSUME HistoryInit PROVE LimitInv
  OBVIOUS
<1>1. RouteInv
  BY InitRoute DEF HistoryInit
<1>2. \A p \in Procs : /\ frame[p].infos = <<>> /\ frame[p].level = NoGroup
                       /\ pc[p] \in {"off", "idle"}
  BY DEF HistoryInit, Init, RouterInit, EmptyFrame, NewFrame
<1>3. ~Excuse
  BY <1>2 DEF Excuse, NoGroup, AnyGroup
<1>4. LimitKept
  <2>1. \A u \in Servers : Inflight(u) = 0
    BY PoolAssumption DEF HistoryInit, Init, PoolInit, Inflight, Generations
  <2>2. \A u \in Servers : server[u].maxConn \in Nat
    BY <1>1, FitTypes DEF RouteInv, LedgerInv
  <2> QED  BY <2>1, <2>2 DEF LimitKept
<1>5. CallsFit
  BY <1>2, FitsElsewhere DEF CallsFit, CallPoints
<1> QED  BY <1>1, <1>3, <1>4, <1>5 DEF LimitInv, HistoryInit

LEMMA StepLimit ==
  ASSUME LimitInv, [HistoryNext]_<<vars, historyVars>>
  PROVE  LimitInv'
<1>1. RouteInv'
  <2>1. [Next]_vars
    BY DEF HistoryNext, Next
  <2> QED  BY <2>1, StepRoute DEF LimitInv
<1>2. CASE HistoryNext
  <2>1. excused' = (excused \/ Excuse') /\ excused \in BOOLEAN
    BY <1>2 DEF HistoryNext, LimitInv
  <2>2. excused' \in BOOLEAN
    BY <2>1 DEF Excuse
  <2>3. ASSUME ~excused' PROVE ~Excuse' /\ LimitKept' /\ CallsFit'
    <3>1. ~excused /\ ~Excuse'
      BY <2>1, <2>3
    <3>2. CASE EnvStep
      <4>1. UNCHANGED <<frame, poolVars, pc, conn>>
        BY <3>2 DEF EnvStep, ClientLeaves, Expire, SetStrategy, Rediscover, routerVars, poolVars
      <4> QED  BY <1>1, <3>1, <4>1, PoolQuietFits
    <3>3. CASE WorkerStep
      BY <1>1, <3>1, <3>3, WorkerFits
    <3>4. CASE \E r \in Requests : HandlerStep(r)
      BY <1>1, <3>1, <3>4, HandlerFits
    <3> QED  BY <1>2, <3>1, <3>2, <3>3, <3>4 DEF HistoryNext, Serve
  <2> QED  BY <1>1, <2>2, <2>3 DEF LimitInv
<1>3. CASE UNCHANGED <<vars, historyVars>>
  <2>1. UNCHANGED <<frame, poolVars, pc, conn, excused>>
    BY <1>3 DEF vars, routerVars, poolVars, historyVars
  <2>2. ~excused => LimitKept' /\ CallsFit'
    BY <1>1, <2>1, PoolQuietFits
  <2>3. ~excused => ~Excuse'
    BY <2>1 DEF LimitInv, Excuse
  <2> QED  BY <1>1, <2>1, <2>2, <2>3 DEF LimitInv
<1> QED  BY <1>2, <1>3

(* For any servers and limits, requests and lists: as long as no two calls *)
(* held a snapshot at once and none fell back to best effort, no server    *)
(* ever has more slots in use than its limit, although Acquire does not    *)
(* look at it.                                                             *)
THEOREM LimitKeptInTurn == HistorySpec => []LimitInTurn
<1>1. LimitInv => LimitInTurn
  BY DEF LimitInv, LimitInTurn
<1>2. LimitInv /\ [HistoryNext]_<<vars, historyVars>> => LimitInv'
  BY StepLimit
<1> QED  BY <1>1, <1>2, InitLimit, PTL DEF HistorySpec
=============================================================================
