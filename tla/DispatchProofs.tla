--------------------------- MODULE DispatchProofs ---------------------------
(***************************************************************************)
(* Theorems about Dispatch, for every set of servers and requests, every   *)
(* configuration and every number of client generations.                   *)
(***************************************************************************)
EXTENDS Dispatch, SequenceTheorems, FiniteSetTheorems, TLAPS

(* The local variables of route are good at control point l.               *)
FrameOK(f, l) ==
  /\ f \in Frame
  /\ f.cands \subseteq DOMAIN f.infos
  /\ l = "inspect" => f.todo # <<>>
  /\ l = "load" => f.infos # <<>>

(* A process at point l has the server u and the client object g it needs. *)
ConnOK(l, u, g) ==
  /\ l \in {"inc"} \cup HoldingPoints => u \in Servers
  /\ l \in {"inc", "check", "dec"} => g \in Generations

(* What the control points promise about the local state of a process.     *)
Points ==
  /\ \A p \in Procs : FrameOK(frame[p], pc[p])
  /\ \A p \in Procs : ConnOK(pc[p], conn[p], bc[p])
  /\ pc[Worker] \in RoutePoints \cup {"deliver", "failed"} => cursor \in DOMAIN queue
  /\ pc[Worker] = "scan" => cursor # 0
  /\ \A r \in Requests : answer[r] = "conn" => answerConn[r] \in Servers

TypeInv == TypeOK /\ Points

-----------------------------------------------------------------------------
(* The steps of route.                                                     *)

LEMMA InflightType ==
  ASSUME TypeInv, NEW u \in Servers
  PROVE  Inflight(u) \in Int
<1>1. clients[u] # 0 => clients[u] \in Generations
  BY PoolAssumption DEF TypeInv, TypeOK, PoolTypeOK, Generations
<1> QED  BY <1>1 DEF Inflight, TypeInv, TypeOK, PoolTypeOK

(* An inflight counter changes by an integer.                              *)
LEMMA InflightAddType ==
  ASSUME TypeInv, NEW u \in Servers, NEW g \in Generations, NEW d \in Int,
         InflightAdd(u, g, d)
  PROVE  inflight' \in [Servers -> [Generations -> Int]]
BY DEF TypeInv, TypeOK, PoolTypeOK, InflightAdd

LEMMA EmptyFrameOK == \A l : l \notin {"inspect", "load"} => FrameOK(EmptyFrame, l)
BY EmptySeq, RouterAssumption DEF EmptyFrame, NewFrame, Frame, NoGroup, FrameOK

LEMMA FrameOKElsewhere ==
  ASSUME NEW f, NEW l, FrameOK(f, l), NEW k, k \notin {"inspect", "load"}
  PROVE  FrameOK(f, k)
BY DEF FrameOK

(* A step of p that changes its own control point and frame only.          *)
LEMMA LocalStep ==
  ASSUME TypeInv, NEW p \in Procs, NEW f, NEW l,
         l \in RoutePoints \cup (IF p = Worker THEN {"failed"} ELSE {"done", "ensure"}),
         FrameOK(f, l), ConnOK(l, conn[p], bc[p]),
         pc[p] \in RoutePoints,
         Goto(p, l), SetFrame(p, f),
         UNCHANGED <<poolVars, conn, bc, serving, strategy, ctxDone, queueVars>>,
         rrIndex' \in [Models -> Nat]
  PROVE  TypeInv'
<1>1. f \in Frame  BY DEF FrameOK
<1>2. TypeOK'
  BY <1>1, RouterAssumption DEF TypeInv, TypeOK, Goto, SetFrame, PoolTypeOK, poolVars, queueVars,
    RoutePoints, HandlerPoints, WorkerPoints, WorkerIdle, Procs
<1>3. Points'
  BY RouterAssumption DEF TypeInv, TypeOK, Points, Goto, SetFrame, queueVars, Procs, RoutePoints
<1> QED  BY <1>2, <1>3 DEF TypeInv

LEMMA RouteBeginType ==
  ASSUME TypeInv, NEW p \in Procs, NEW r \in Requests, RouteBegin(p, r), UNCHANGED queueVars
  PROVE  TypeInv'
<1> DEFINE servers == serving[ModelOf[r]]
           g == NewFrame(strategy, servers)
<1>1. servers \in Seq(Servers) /\ strategy \in Strategies
  BY RouterAssumption DEF TypeInv, TypeOK
<1>2. servers # <<>> => FrameOK(g, "inspect")
  BY <1>1, EmptySeq DEF FrameOK, Frame, NewFrame, NoGroup
<1>3. /\ pc[p] = "route"
      /\ rrIndex' \in [Models -> Nat]
      /\ UNCHANGED <<poolVars, conn, bc, serving, strategy, ctxDone, queueVars>>
  BY DEF RouteBegin, TypeInv, TypeOK
<1>4. CASE servers = <<>>
  BY <1>3, <1>4, EmptyFrameOK, LocalStep DEF RouteBegin, RouteFails, RoutePoints, ConnOK, HoldingPoints
<1>5. CASE servers # <<>>
  <2>1. SetFrame(p, g) /\ Goto(p, "inspect")  BY <1>5 DEF RouteBegin
  <2> HIDE DEF g
  <2> QED  BY <1>2, <1>3, <1>5, <2>1, LocalStep DEF RoutePoints, ConnOK, HoldingPoints
<1> QED  BY <1>4, <1>5

LEMMA InspectType ==
  ASSUME TypeInv, NEW p \in Procs, Inspect(p), UNCHANGED queueVars
  PROVE  TypeInv'
<1> DEFINE f == frame[p]
           u == Head(f.todo)
           info == [url |-> u, distance |-> server[u].distance,
                    maxConn |-> server[u].maxConn, inflight |-> 0]
           skip == [f EXCEPT !.todo = Tail(@)]
           keep == [f EXCEPT !.todo = Tail(@), !.infos = Append(@, info)]
<1>1. /\ f \in Frame /\ f.todo \in Seq(Servers) /\ f.todo # <<>>
      /\ f.infos \in Seq(Info) /\ f.cands \subseteq DOMAIN f.infos
  BY DEF TypeInv, Points, Inspect, Frame, FrameOK
<1>2. u \in Servers /\ Tail(f.todo) \in Seq(Servers)
  BY <1>1
<1>3. info \in Info
  BY <1>2 DEF Info, TypeInv, TypeOK, PoolTypeOK, ServerConfig
<1>4. /\ Append(f.infos, info) \in Seq(Info)
      /\ DOMAIN f.infos \subseteq DOMAIN Append(f.infos, info)
      /\ Append(f.infos, info) # <<>>
  <2> HIDE DEF info
  <2> QED  BY <1>1, <1>3
<1>5. /\ pc[p] = "inspect"
      /\ rrIndex' \in [Models -> Nat]
      /\ UNCHANGED <<poolVars, conn, bc, serving, strategy, ctxDone, queueVars>>
  BY DEF Inspect, TypeInv, TypeOK
<1>6. CASE clients[u] = 0
  <2> DEFINE l == IF Tail(f.todo) = <<>> THEN "try" ELSE "inspect"
  <2>1. SetFrame(p, skip) /\ Goto(p, l)
    BY <1>6 DEF Inspect, NextServer
  <2>2. FrameOK(skip, l)
    BY <1>1, <1>2 DEF FrameOK, Frame
  <2> HIDE DEF skip
  <2> QED  BY <1>5, <2>1, <2>2, LocalStep DEF RoutePoints, ConnOK, HoldingPoints
<1>7. CASE clients[u] # 0
  <2>1. SetFrame(p, keep) /\ Goto(p, "load")
    BY <1>7 DEF Inspect
  <2>2. FrameOK(keep, "load")
    <3> HIDE DEF info
    <3> QED  BY <1>1, <1>2, <1>4 DEF FrameOK, Frame
  <2> HIDE DEF keep
  <2> QED  BY <1>5, <2>1, <2>2, LocalStep DEF RoutePoints, ConnOK, HoldingPoints
<1> QED  BY <1>6, <1>7

LEMMA LoadInflightType ==
  ASSUME TypeInv, NEW p \in Procs, LoadInflight(p), UNCHANGED queueVars
  PROVE  TypeInv'
<1> DEFINE f == frame[p]
           n == Len(f.infos)
           load == Inflight(f.infos[n].url)
           seen == [f.infos[n] EXCEPT !.inflight = load]
           infos == [f.infos EXCEPT ![n] = seen]
           g == [f EXCEPT !.infos = infos]
           l == IF f.todo = <<>> THEN "try" ELSE "inspect"
<1>1. /\ f \in Frame /\ f.infos \in Seq(Info) /\ f.infos # <<>>
      /\ f.cands \subseteq DOMAIN f.infos
  BY DEF TypeInv, Points, LoadInflight, Frame, FrameOK
<1>2. n \in 1..Len(f.infos) /\ f.infos[n] \in Info
  BY <1>1
<1>3. load \in Int
  BY <1>2, InflightType DEF Info
<1>4. seen \in Info
  BY <1>2, <1>3 DEF Info
<1>5. infos \in Seq(Info) /\ DOMAIN infos = DOMAIN f.infos
  <2> HIDE DEF seen
  <2> QED  BY <1>1, <1>2, <1>4, ExceptSeq
<1>6. FrameOK(g, l)
  <2> HIDE DEF infos
  <2> QED  BY <1>1, <1>5 DEF FrameOK, Frame
<1>7. /\ pc[p] = "load"
      /\ rrIndex' \in [Models -> Nat]
      /\ UNCHANGED <<poolVars, conn, bc, serving, strategy, ctxDone, queueVars>>
  BY DEF LoadInflight, TypeInv, TypeOK
<1>8. SetFrame(p, g)
  BY DEF LoadInflight
<1>9. Goto(p, l)
  BY DEF LoadInflight, NextServer
<1> HIDE DEF g
<1> QED  BY <1>6, <1>7, <1>8, <1>9, LocalStep DEF RoutePoints, ConnOK, HoldingPoints

LEMMA PickGroupType ==
  ASSUME TypeInv, NEW p \in Procs, NEW r \in Requests, PickGroup(p, r), UNCHANGED queueVars
  PROVE  TypeInv'
<1> DEFINE f == frame[p]
           m == ModelOf[r]
<1>1. PICK d \in Distances : IsNextGroup(f.infos, f.level, d) /\ StartGroup(p, r, d)
  BY DEF PickGroup
<1> DEFINE g == Group(f.infos, d)
           idx == rrIndex[m] % Cardinality(g)
           cands == {i \in g : HasRoom(f.infos[i])}
           h == [f EXCEPT !.level = d, !.idx = idx, !.cands = cands]
<1>2. /\ f \in Frame /\ f.infos \in Seq(Info)
      /\ pc[p] = "try" /\ m \in Models /\ rrIndex \in [Models -> Nat]
  BY RouterAssumption DEF TypeInv, TypeOK, Points, FrameOK, Frame, PickGroup
<1>3. g \subseteq 1..Len(f.infos) /\ g # {}
  BY <1>1, <1>2 DEF Group, IsNextGroup
<1>4. Cardinality(g) \in Nat \ {0}
  <2>1. IsFiniteSet(1..Len(f.infos))  BY <1>2, FS_Interval
  <2>2. IsFiniteSet(g)  BY <1>3, <2>1, FS_Subset
  <2> QED  BY <1>3, <2>2, FS_EmptySet, FS_CardinalityType
<1>5. idx \in Nat
  <2> HIDE DEF g
  <2> QED  BY <1>2, <1>4
<1>6. d \in 0..11  BY PoolAssumption
<1>7. cands \subseteq DOMAIN f.infos /\ cands \in SUBSET Nat
  BY <1>2, <1>3
<1>8. FrameOK(h, "try")
  <2> HIDE DEF idx, cands
  <2> QED  BY <1>2, <1>5, <1>6, <1>7 DEF FrameOK, Frame
<1>9. rrIndex' \in [Models -> Nat]
  <2>1. rrIndex' = [rrIndex EXCEPT ![m] = idx + 1]  BY <1>1 DEF StartGroup
  <2> HIDE DEF idx, m
  <2> QED  BY <1>2, <1>5, <2>1
<1>10. /\ SetFrame(p, h) /\ Goto(p, "try")
       /\ UNCHANGED <<poolVars, conn, bc, serving, strategy, ctxDone, queueVars>>
  BY <1>1, <1>2 DEF PickGroup, StartGroup, Goto, TypeInv, TypeOK
<1> HIDE DEF h
<1> QED  BY <1>2, <1>8, <1>9, <1>10, LocalStep DEF RoutePoints, ConnOK, HoldingPoints

LEMMA AcquireLookupType ==
  ASSUME TypeInv, NEW p \in Procs, AcquireLookup(p), UNCHANGED queueVars
  PROVE  TypeInv'
<1> DEFINE f == frame[p]
<1>1. PICK i \in f.cands :
        /\ SetFrame(p, [f EXCEPT !.cands = @ \ {i}])
        /\ \/ clients[f.infos[i].url] = 0 /\ UNCHANGED <<pc, conn, bc>>
           \/ /\ clients[f.infos[i].url] # 0
              /\ Goto(p, "inc")
              /\ conn' = [conn EXCEPT ![p] = f.infos[i].url]
              /\ bc' = [bc EXCEPT ![p] = clients[f.infos[i].url]]
  BY DEF AcquireLookup
<1> DEFINE u == f.infos[i].url
           g == [f EXCEPT !.cands = @ \ {i}]
<1>2. /\ f \in Frame /\ f.infos \in Seq(Info)
      /\ f.cands \subseteq DOMAIN f.infos /\ pc[p] = "try"
  BY DEF TypeInv, Points, FrameOK, Frame, AcquireLookup
<1>3. u \in Servers
  <2>1. i \in 1..Len(f.infos)  BY <1>2
  <2>2. f.infos[i] \in Info  BY <1>2, <2>1, ElementOfSeq
  <2> QED  BY <2>2 DEF Info
<1>4. \A l : l \notin {"inspect", "load"} => FrameOK(g, l)
  BY <1>2 DEF FrameOK, Frame
<1>5. UNCHANGED <<poolVars, rrIndex, serving, strategy, ctxDone, queueVars>>
  BY DEF AcquireLookup
<1>6. rrIndex' \in [Models -> Nat] /\ SetFrame(p, g)
  BY <1>1, <1>5 DEF TypeInv, TypeOK
<1>7. CASE clients[u] = 0
  <2>1. Goto(p, "try") /\ UNCHANGED <<conn, bc>>
    BY <1>1, <1>2, <1>7 DEF Goto, TypeInv, TypeOK
  <2> HIDE DEF g
  <2> QED  BY <1>2, <1>4, <1>5, <1>6, <2>1, LocalStep DEF RoutePoints, ConnOK, HoldingPoints
<1>8. CASE clients[u] # 0
  <2> HIDE DEF g, u
  <2>1. g \in Frame  BY <1>4 DEF FrameOK
  <2>2. clients[u] \in Generations
    BY <1>3, <1>8, PoolAssumption DEF TypeInv, TypeOK, PoolTypeOK, Generations
  <2>3. /\ Goto(p, "inc")
        /\ conn' = [conn EXCEPT ![p] = u]
        /\ bc' = [bc EXCEPT ![p] = clients[u]]
    BY <1>1, <1>8 DEF u
  <2>4. TypeOK'
    BY <1>3, <1>5, <1>6, <2>1, <2>2, <2>3, RouterAssumption, PoolAssumption
    DEF TypeInv, TypeOK, Goto, SetFrame, PoolTypeOK, poolVars, queueVars,
        RoutePoints, HandlerPoints, WorkerPoints, WorkerIdle, Procs, Generations
  <2>5. ConnOK("inc", u, clients[u]) /\ FrameOK(g, "inc")
    BY <1>3, <1>4, <2>2 DEF ConnOK
  <2>6. Points'
    BY <1>2, <1>5, <1>6, <2>3, <2>5
    DEF TypeInv, TypeOK, Points, Goto, SetFrame, queueVars, Procs, RoutePoints
  <2> QED  BY <2>4, <2>6 DEF TypeInv
<1> QED  BY <1>7, <1>8

LEMMA AcquireAddType ==
  ASSUME TypeInv, NEW p \in Procs, AcquireAdd(p), UNCHANGED queueVars
  PROVE  TypeInv'
<1>1. pc[p] = "inc" /\ conn[p] \in Servers /\ bc[p] \in Generations
  BY DEF AcquireAdd, TypeInv, Points, ConnOK
<1>2. inflight' \in [Servers -> [Generations -> Int]]
  BY <1>1, InflightAddType DEF AcquireAdd
<1>3. FrameOK(frame[p], "check") /\ ConnOK("check", conn[p], bc[p])
  BY <1>1 DEF TypeInv, Points, FrameOK, ConnOK
<1>4. TypeOK'
  BY <1>1, <1>2, RouterAssumption
  DEF AcquireAdd, TypeInv, TypeOK, Goto, PoolTypeOK, queueVars,
      RoutePoints, HandlerPoints, WorkerPoints, WorkerIdle, Procs
<1>5. Points'
  BY <1>1, <1>3 DEF AcquireAdd, TypeInv, TypeOK, Points, Goto, queueVars, Procs, RoutePoints
<1> QED  BY <1>4, <1>5 DEF TypeInv

LEMMA AcquireCheckType ==
  ASSUME TypeInv, NEW p \in Procs, NEW r \in Requests, AcquireCheck(p, r), UNCHANGED queueVars
  PROVE  TypeInv'
<1> DEFINE l == IF p = Worker THEN "deliver" ELSE "proxy"
<1>1. pc[p] = "check" /\ conn[p] \in Servers /\ bc[p] \in Generations
  BY DEF AcquireCheck, TypeInv, Points, ConnOK, HoldingPoints
<1>2. inflight' \in [Servers -> [Generations -> Int]]
  BY <1>1, InflightAddType DEF AcquireCheck, TypeInv, TypeOK, PoolTypeOK
<1>3. /\ FrameOK(frame[p], "try") /\ FrameOK(EmptyFrame, l) /\ EmptyFrame \in Frame
      /\ ConnOK(l, conn[p], 0) /\ ConnOK("try", NoServer, 0)
  BY <1>1, EmptyFrameOK DEF TypeInv, Points, FrameOK, ConnOK, HoldingPoints
<1>4. /\ bc' = [bc EXCEPT ![p] = 0]
      /\ UNCHANGED <<clients, made, server, rrIndex, serving, strategy, ctxDone, queueVars>>
  BY DEF AcquireCheck
<1>5. bc' \in [Procs -> 0..MaxGen]
  BY <1>4, PoolAssumption DEF TypeInv, TypeOK
<1>6. CASE Goto(p, "try") /\ conn' = [conn EXCEPT ![p] = NoServer] /\ UNCHANGED frame
  <2>1. TypeOK'
    BY <1>2, <1>4, <1>5, <1>6, RouterAssumption
    DEF TypeInv, TypeOK, Goto, PoolTypeOK, queueVars,
        RoutePoints, HandlerPoints, WorkerPoints, WorkerIdle, Procs
  <2>2. Points'
    BY <1>1, <1>3, <1>4, <1>6
    DEF TypeInv, TypeOK, Points, Goto, queueVars, Procs, RoutePoints
  <2> QED  BY <2>1, <2>2 DEF TypeInv
<1>7. CASE Goto(p, l) /\ SetFrame(p, EmptyFrame) /\ UNCHANGED conn
  <2>1. TypeOK'
    BY <1>2, <1>3, <1>4, <1>5, <1>7, RouterAssumption
    DEF TypeInv, TypeOK, Goto, SetFrame, PoolTypeOK, queueVars,
        RoutePoints, HandlerPoints, WorkerPoints, WorkerIdle, Procs
  <2>2. Points'
    BY <1>1, <1>3, <1>4, <1>7, RouterAssumption
    DEF TypeInv, TypeOK, Points, Goto, SetFrame, queueVars, Procs, RoutePoints
  <2> QED  BY <2>1, <2>2 DEF TypeInv
<1> QED  BY <1>6, <1>7 DEF AcquireCheck

LEMMA FallbackType ==
  ASSUME TypeInv, NEW p \in Procs, Fallback(p), UNCHANGED queueVars
  PROVE  TypeInv'
<1> DEFINE f == frame[p]
<1>1. /\ f \in Frame /\ f.infos \in Seq(Info) /\ pc[p] = "try"
      /\ rrIndex' \in [Models -> Nat]
      /\ UNCHANGED <<poolVars, conn, bc, serving, strategy, ctxDone, queueVars>>
  BY DEF TypeInv, TypeOK, Points, FrameOK, Frame, Fallback
<1>2. CASE RouteFails(p)
  BY <1>1, <1>2, EmptyFrameOK, LocalStep DEF RouteFails, RoutePoints, ConnOK, HoldingPoints
<1>3. CASE SetFrame(p, EmptyFrame) /\ Goto(p, "ensure") /\ p # Worker
  <2>1. FrameOK(EmptyFrame, "ensure") /\ ConnOK("ensure", conn[p], bc[p])
    BY EmptyFrameOK DEF ConnOK, HoldingPoints
  <2> QED  BY <1>1, <1>3, <2>1, LocalStep DEF RoutePoints
<1>4. ASSUME NEW i \in DOMAIN f.infos,
             SetFrame(p, [f EXCEPT !.level = AnyGroup, !.cands = {i}]), UNCHANGED pc
      PROVE  TypeInv'
  <2> DEFINE g == [f EXCEPT !.level = AnyGroup, !.cands = {i}]
  <2>1. FrameOK(g, "try")
    <3>1. {i} \in SUBSET Nat /\ AnyGroup \in 0..11 /\ {i} \subseteq DOMAIN f.infos
      BY <1>1 DEF AnyGroup
    <3> HIDE DEF f
    <3> QED  BY <1>1, <3>1 DEF FrameOK, Frame
  <2>2. SetFrame(p, g) /\ Goto(p, "try")
    BY <1>1, <1>4 DEF Goto, TypeInv, TypeOK
  <2> HIDE DEF g
  <2> QED  BY <1>1, <2>1, <2>2, LocalStep DEF RoutePoints, ConnOK, HoldingPoints
<1> QED  BY <1>2, <1>3, <1>4 DEF Fallback

(* A step of a route call keeps the types, whoever makes the call.         *)
LEMMA RouteStepType ==
  ASSUME TypeInv, NEW p \in Procs, NEW r \in Requests, RouteStep(p, r), UNCHANGED queueVars
  PROVE  TypeInv'
BY RouteBeginType, InspectType, LoadInflightType, PickGroupType, AcquireLookupType,
   AcquireAddType, AcquireCheckType, FallbackType DEF RouteStep

-----------------------------------------------------------------------------
(* The other steps.  Each moves one process to a point outside the loops   *)
(* of route, and leaves the frames alone.                                  *)

LEMMA MoveOK ==
  ASSUME TypeInv, NEW p \in Procs, NEW l, l \notin {"inspect", "load"},
         Goto(p, l), UNCHANGED frame, ConnOK(l, conn'[p], bc'[p]),
         \A q \in Procs \ {p} : conn'[q] = conn[q] /\ bc'[q] = bc[q]
  PROVE  \A q \in Procs : FrameOK(frame'[q], pc'[q]) /\ ConnOK(pc'[q], conn'[q], bc'[q])
<1>1. FrameOK(frame[p], l)
  BY FrameOKElsewhere DEF TypeInv, Points
<1> QED  BY <1>1 DEF TypeInv, TypeOK, Points, Goto

(* A handler that only moves from one point to another.                    *)
LEMMA HandlerMoveType ==
  ASSUME TypeInv, NEW r \in Requests, NEW l \in {"route"} \cup HandlerPoints,
         Goto(r, l), ConnOK(l, conn[r], bc[r]),
         UNCHANGED <<poolVars, frame, conn, bc, rrIndex, serving, strategy, ctxDone, queueVars>>
  PROVE  TypeInv'
<1>1. \A q \in Procs : FrameOK(frame'[q], pc'[q]) /\ ConnOK(pc'[q], conn'[q], bc'[q])
  BY MoveOK, RouterAssumption DEF HandlerPoints, Procs
<1>2. TypeOK'
  BY RouterAssumption DEF TypeInv, TypeOK, Goto, PoolTypeOK, poolVars, queueVars,
     RoutePoints, HandlerPoints, Procs
<1>3. Points'
  BY <1>1, RouterAssumption DEF TypeInv, TypeOK, Points, Goto, queueVars, Procs
<1> QED  BY <1>2, <1>3 DEF TypeInv

LEMMA ArriveType ==
  ASSUME TypeInv, NEW r \in Requests, Arrive(r) \/ RejectBody(r)
  PROVE  TypeInv'
BY HandlerMoveType DEF Arrive, RejectBody, ConnOK, HoldingPoints, HandlerPoints

LEMMA ProxyLookupType ==
  ASSUME TypeInv, NEW r \in Requests, ProxyLookup(r) \/ UpstreamEnds(r)
  PROVE  TypeInv'
<1>1. conn[r] \in Servers
  BY DEF ProxyLookup, UpstreamEnds, TypeInv, Points, ConnOK, HoldingPoints, Procs
<1>2. \A l \in {"release", "upstream"} : ConnOK(l, conn[r], bc[r])
  BY <1>1 DEF ConnOK
<1> QED  BY <1>2, HandlerMoveType DEF ProxyLookup, UpstreamEnds, HandlerPoints

LEMMA CancelWaitType ==
  ASSUME TypeInv, NEW r \in Requests, CancelWait(r)
  PROVE  TypeInv'
BY HandlerMoveType DEF CancelWait, ConnOK, HoldingPoints, HandlerPoints

LEMMA ReleaseLookupType ==
  ASSUME TypeInv, NEW r \in Requests, ReleaseLookup(r)
  PROVE  TypeInv'
<1> DEFINE g == clients[conn[r]]
<1>1. pc[r] = "release" /\ conn[r] \in Servers /\ r \in Procs
  BY DEF ReleaseLookup, TypeInv, Points, ConnOK, HoldingPoints, Procs
<1>2. g # 0 => g \in Generations
  BY <1>1, PoolAssumption DEF TypeInv, TypeOK, PoolTypeOK, Generations
<1>3. UNCHANGED <<poolVars, frame, rrIndex, serving, strategy, ctxDone, queueVars>>
  BY DEF ReleaseLookup
<1>4. CASE Goto(r, "done") /\ conn' = [conn EXCEPT ![r] = NoServer] /\ UNCHANGED bc
  <2>1. \A q \in Procs : FrameOK(frame'[q], pc'[q]) /\ ConnOK(pc'[q], conn'[q], bc'[q])
    BY <1>1, <1>3, <1>4, MoveOK DEF ConnOK, HoldingPoints, TypeInv, TypeOK
  <2>2. TypeOK'
    BY <1>3, <1>4, RouterAssumption DEF TypeInv, TypeOK, Goto, PoolTypeOK, poolVars,
       queueVars, RoutePoints, HandlerPoints, Procs
  <2>3. Points'
    BY <1>3, <1>4, <2>1, RouterAssumption DEF TypeInv, TypeOK, Points, Goto, queueVars, Procs
  <2> QED  BY <2>2, <2>3 DEF TypeInv
<1>5. CASE g # 0 /\ Goto(r, "dec") /\ bc' = [bc EXCEPT ![r] = g] /\ UNCHANGED conn
  <2> HIDE DEF g
  <2>0. bc'[r] = g /\ ConnOK("dec", conn[r], g)
    BY <1>1, <1>2, <1>5 DEF ConnOK, TypeInv, TypeOK
  <2>1. \A q \in Procs : FrameOK(frame'[q], pc'[q]) /\ ConnOK(pc'[q], conn'[q], bc'[q])
    BY <1>1, <1>3, <1>5, <2>0, MoveOK DEF TypeInv, TypeOK
  <2>2. TypeOK'
    BY <1>2, <1>3, <1>5, RouterAssumption, PoolAssumption DEF TypeInv, TypeOK, Goto, PoolTypeOK,
       poolVars, queueVars, RoutePoints, HandlerPoints, Procs, Generations
  <2>3. Points'
    BY <1>3, <1>5, <2>1, RouterAssumption DEF TypeInv, TypeOK, Points, Goto, queueVars, Procs
  <2> QED  BY <2>2, <2>3 DEF TypeInv
<1> QED  BY <1>4, <1>5 DEF ReleaseLookup

LEMMA ReleaseDecType ==
  ASSUME TypeInv, NEW r \in Requests, ReleaseDec(r)
  PROVE  TypeInv'
<1>1. r \in Procs /\ conn[r] \in Servers /\ bc[r] \in Generations
  BY DEF ReleaseDec, TypeInv, Points, ConnOK, HoldingPoints, Procs
<1>2. inflight' \in [Servers -> [Generations -> Int]]
  BY <1>1, InflightAddType DEF ReleaseDec
<1>3. \A q \in Procs : FrameOK(frame'[q], pc'[q]) /\ ConnOK(pc'[q], conn'[q], bc'[q])
  BY <1>1, MoveOK DEF ReleaseDec, ConnOK, HoldingPoints, TypeInv, TypeOK
<1>4. TypeOK'
  BY <1>2, RouterAssumption, PoolAssumption DEF ReleaseDec, TypeInv, TypeOK, Goto, PoolTypeOK,
     queueVars, RoutePoints, HandlerPoints, Procs
<1>5. Points'
  BY <1>3, RouterAssumption DEF ReleaseDec, TypeInv, TypeOK, Points, Goto, queueVars, Procs
<1> QED  BY <1>4, <1>5 DEF TypeInv

LEMMA ClientLeavesType ==
  ASSUME TypeInv, NEW r \in Requests, ClientLeaves(r)
  PROVE  TypeInv'
<1>1. TypeOK'
  BY DEF ClientLeaves, TypeInv, TypeOK, PoolTypeOK, poolVars, queueVars
<1>2. Points'
  BY DEF ClientLeaves, TypeInv, Points, poolVars, queueVars
<1> QED  BY <1>1, <1>2 DEF TypeInv

LEMMA AdminType ==
  ASSUME TypeInv, AdminStep
  PROVE  TypeInv'
<1>1. UNCHANGED <<routerVars, queueVars>>
  BY DEF AdminStep
<1>2. PoolTypeOK'
  <2>1. ASSUME NEW u \in Servers, RemoveServer(u)
        PROVE  PoolTypeOK'
    BY <2>1, PoolAssumption DEF RemoveServer, TypeInv, TypeOK, PoolTypeOK
  <2>2. ASSUME NEW u \in Servers, NEW sc \in ServerConfig, AddServer(u, sc)
        PROVE  PoolTypeOK'
    BY <2>2, PoolAssumption DEF AddServer, TypeInv, TypeOK, PoolTypeOK
  <2> QED  BY <2>1, <2>2 DEF AdminStep
<1>3. TypeOK'
  BY <1>1, <1>2 DEF TypeInv, TypeOK, routerVars, queueVars
<1>4. Points'
  BY <1>1 DEF TypeInv, Points, routerVars, queueVars
<1> QED  BY <1>3, <1>4 DEF TypeInv

-----------------------------------------------------------------------------
(* The steps of enqueue and of the queue manager.                          *)

LEMMA EnsureStartedType ==
  ASSUME TypeInv, NEW r \in Requests, EnsureStarted(r)
  PROVE  TypeInv'
<1>1. TypeOK'
  BY RouterAssumption DEF EnsureStarted, MuFree, TypeInv, TypeOK, PoolTypeOK, poolVars,
     RoutePoints, HandlerPoints, WorkerPoints, WorkerIdle, Procs
<1>2. \A q \in Procs : FrameOK(frame'[q], pc'[q]) /\ ConnOK(pc'[q], conn'[q], bc'[q])
  <2> SUFFICES ASSUME NEW q \in Procs
               PROVE  FrameOK(frame'[q], pc'[q]) /\ ConnOK(pc'[q], conn'[q], bc'[q])
    OBVIOUS
  <2>1. pc'[q] \in {pc[q], "append", "select"}
    BY RouterAssumption DEF EnsureStarted, TypeInv, TypeOK, Procs
  <2>2. frame'[q] = frame[q] /\ conn'[q] = conn[q] /\ bc'[q] = bc[q]
    BY DEF EnsureStarted
  <2>3. FrameOK(frame[q], pc[q]) /\ ConnOK(pc[q], conn[q], bc[q])
    BY DEF TypeInv, Points
  <2>4. CASE pc'[q] = pc[q]  BY <2>2, <2>3, <2>4
  <2>5. CASE pc'[q] \in {"append", "select"}
    BY <2>2, <2>3, <2>5, FrameOKElsewhere DEF ConnOK, HoldingPoints
  <2> QED  BY <2>1, <2>4, <2>5
<1>3. Points'
  BY <1>2, RouterAssumption DEF EnsureStarted, MuFree, WorkerIdle, TypeInv, TypeOK, Points,
     RoutePoints, Procs
<1> QED  BY <1>1, <1>3 DEF TypeInv

LEMMA AppendItemType ==
  ASSUME TypeInv, NEW r \in Requests, AppendItem(r)
  PROVE  TypeInv'
<1>1. \A q \in Procs : FrameOK(frame'[q], pc'[q]) /\ ConnOK(pc'[q], conn'[q], bc'[q])
  <2>1. r \in Procs /\ Goto(r, "notify") /\ UNCHANGED <<frame, conn, bc>>
    BY DEF AppendItem, Procs
  <2>2. ConnOK("notify", conn'[r], bc'[r])
    BY <2>1 DEF ConnOK, HoldingPoints
  <2>3. frame' = frame /\ \A q \in Procs \ {r} : conn'[q] = conn[q] /\ bc'[q] = bc[q]
    BY <2>1
  <2> QED  BY <2>1, <2>2, <2>3, MoveOK
<1>2. TypeOK'
  <2>1. queue' \in Seq(Requests)
    BY AppendProperties DEF AppendItem, TypeInv, TypeOK
  <2>2. pc' = [pc EXCEPT ![r] = "notify"] /\ UNCHANGED <<poolVars, frame, conn, bc, rrIndex,
          serving, strategy, ctxDone, cursor, remaining, late, expired, started, signal,
          answer, answerConn, lifecycle>>
    BY DEF AppendItem, Goto
  <2> QED
    BY <2>1, <2>2, RouterAssumption DEF TypeInv, TypeOK, PoolTypeOK, poolVars, RoutePoints,
       HandlerPoints, Procs
<1>3. Points'
  BY <1>1, RouterAssumption DEF AppendItem, MuFree, WorkerIdle, TypeInv, TypeOK, Points, Goto,
     RoutePoints, Procs
<1> QED  BY <1>2, <1>3 DEF TypeInv

LEMMA NotifyType ==
  ASSUME TypeInv, NEW r \in Requests, Notify(r)
  PROVE  TypeInv'
<1>1. \A q \in Procs : FrameOK(frame'[q], pc'[q]) /\ ConnOK(pc'[q], conn'[q], bc'[q])
  <2>1. r \in Procs /\ Goto(r, "wait") /\ UNCHANGED <<frame, conn, bc>>
    BY DEF Notify, Procs
  <2>2. ConnOK("wait", conn'[r], bc'[r])
    BY <2>1 DEF ConnOK, HoldingPoints
  <2>3. frame' = frame /\ \A q \in Procs \ {r} : conn'[q] = conn[q] /\ bc'[q] = bc[q]
    BY <2>1
  <2> QED  BY <2>1, <2>2, <2>3, MoveOK
<1>2. TypeOK'
  BY RouterAssumption DEF Notify, TypeInv, TypeOK, Goto, PoolTypeOK, poolVars,
     RoutePoints, HandlerPoints, Procs
<1>3. Points'
  BY <1>1, RouterAssumption DEF Notify, TypeInv, TypeOK, Points, Goto, Procs
<1> QED  BY <1>2, <1>3 DEF TypeInv

LEMMA AnswerTakenType ==
  ASSUME TypeInv, NEW r \in Requests, TakeAnswer(r) \/ CancelTake(r)
  PROVE  TypeInv'
<1>1. PICK l \in {"proxy", "release", "done"} :
        /\ Goto(r, l)
        /\ \/ answer[r] = "conn" /\ conn' = [conn EXCEPT ![r] = answerConn[r]]
           \/ l = "done" /\ conn' = conn
  BY DEF TakeAnswer, CancelTake
<1>2. /\ answer' = [answer EXCEPT ![r] = "empty"]
      /\ answerConn' = [answerConn EXCEPT ![r] = NoServer]
      /\ UNCHANGED <<poolVars, frame, bc, rrIndex, serving, strategy, ctxDone, queue, cursor,
                     remaining, late, expired, started, signal, lifecycle>>
  BY DEF TakeAnswer, CancelTake
<1>3. r \in Procs /\ (answer[r] = "conn" => answerConn[r] \in Servers)
  BY DEF TypeInv, Points, Procs
<1>4. conn' \in [Procs -> Servers \cup {NoServer}] /\ ConnOK(l, conn'[r], bc'[r])
  BY <1>1, <1>2, <1>3 DEF TypeInv, TypeOK, ConnOK, HoldingPoints
<1>5. \A q \in Procs : FrameOK(frame'[q], pc'[q]) /\ ConnOK(pc'[q], conn'[q], bc'[q])
  <2>1. \A q \in Procs \ {r} : conn'[q] = conn[q] /\ bc'[q] = bc[q]
    BY <1>1, <1>2 DEF TypeInv, TypeOK
  <2> QED  BY <1>1, <1>2, <1>3, <1>4, <2>1, MoveOK
<1>6. TypeOK'
  BY <1>1, <1>2, <1>4, RouterAssumption DEF TypeInv, TypeOK, Goto, PoolTypeOK, poolVars,
     RoutePoints, HandlerPoints, Procs, Answers
<1>7. Points'
  BY <1>1, <1>2, <1>5, RouterAssumption DEF TypeInv, TypeOK, Points, Goto, Procs
<1> QED  BY <1>6, <1>7 DEF TypeInv

(* What RemoveAt leaves of a queue.                                        *)
LEMMA RemoveAtShape ==
  ASSUME NEW S, NEW q \in Seq(S), NEW i \in 1..Len(q)
  PROVE  /\ RemoveAt(q, i) \in Seq(S)
         /\ Len(RemoveAt(q, i)) = Len(q) - 1
         /\ \A j \in 1..(Len(q) - 1) :
              RemoveAt(q, i)[j] = IF j < i THEN q[j] ELSE q[j + 1]
<1> DEFINE a == SubSeq(q, 1, i - 1)
           b == SubSeq(q, i + 1, Len(q))
<1>1. /\ a \in Seq(S) /\ Len(a) = i - 1
      /\ \A j \in 1..(i - 1) : a[j] = q[j]
  OBVIOUS
<1>2. /\ b \in Seq(S) /\ Len(b) = Len(q) - i
      /\ \A j \in 1..(Len(q) - i) : b[j] = q[i + j]
  OBVIOUS
<1> HIDE DEF a, b
<1>3. /\ a \o b \in Seq(S) /\ Len(a \o b) = Len(q) - 1
      /\ \A j \in 1..(Len(q) - 1) : (a \o b)[j] = IF j < i THEN q[j] ELSE q[j + 1]
  <2>1. Len(a) + Len(b) = Len(q) - 1 /\ Len(q) \in Nat
    BY <1>1, <1>2
  <2>2. /\ a \o b \in Seq(S) /\ Len(a \o b) = Len(a) + Len(b)
        /\ \A j \in 1..(Len(a) + Len(b)) :
             (a \o b)[j] = IF j <= Len(a) THEN a[j] ELSE b[j - Len(a)]
    <3>1. a \in Seq(S) /\ b \in Seq(S)  BY <1>1, <1>2
    <3> QED  BY <3>1, ConcatProperties
  <2>3. ASSUME NEW j \in 1..(Len(q) - 1)
        PROVE  (a \o b)[j] = IF j < i THEN q[j] ELSE q[j + 1]
    <3>1. CASE j < i
      BY <1>1, <2>1, <2>2, <3>1
    <3>2. CASE j >= i
      <4>1. (a \o b)[j] = b[j - (i - 1)]  BY <1>1, <2>1, <2>2, <3>2
      <4>2. j - (i - 1) \in 1..(Len(q) - i)  BY <2>1, <3>2
      <4>3. b[j - (i - 1)] = q[i + (j - (i - 1))]  BY <1>2, <4>2
      <4>4. i + (j - (i - 1)) = j + 1  BY <3>2
      <4> QED  BY <3>2, <4>1, <4>3, <4>4
    <3> QED  BY <2>1, <3>1, <3>2
  <2> QED  BY <2>1, <2>2, <2>3
<1> QED  BY <1>3 DEF RemoveAt, a, b

LEMMA RemoveItemType ==
  ASSUME TypeInv, NEW r \in Requests, RemoveItem(r)
  PROVE  TypeInv'
<1>1. \A q \in Procs : FrameOK(frame'[q], pc'[q]) /\ ConnOK(pc'[q], conn'[q], bc'[q])
  BY MoveOK DEF RemoveItem, ConnOK, HoldingPoints, Procs
<1>2. queue' \in Seq(Requests)
  <2>1. queue \in Seq(Requests)  BY DEF TypeInv, TypeOK
  <2>2. CASE UNCHANGED queue  BY <2>1, <2>2
  <2>3. ASSUME NEW i \in DOMAIN queue, queue' = RemoveAt(queue, i)
        PROVE  queue' \in Seq(Requests)
    <3>1. i \in 1..Len(queue)  BY <2>1
    <3> QED  BY <2>1, <2>3, <3>1, RemoveAtShape
  <2> QED  BY <2>2, <2>3 DEF RemoveItem
<1>3. TypeOK'
  BY <1>2, RouterAssumption DEF RemoveItem, TypeInv, TypeOK, Goto, PoolTypeOK, poolVars,
     RoutePoints, HandlerPoints, Procs
<1>4. Points'
  BY <1>1, RouterAssumption DEF RemoveItem, MuFree, WorkerIdle, TypeInv, TypeOK, Points, Goto,
     RoutePoints, Procs
<1> QED  BY <1>3, <1>4 DEF TypeInv

LEMMA BeginPassType ==
  ASSUME TypeInv, NEW token \in BOOLEAN, BeginPass(token)
  PROVE  TypeInv'
<1>1. \A q \in Procs : FrameOK(frame'[q], pc'[q]) /\ ConnOK(pc'[q], conn'[q], bc'[q])
  BY MoveOK DEF BeginPass, ConnOK, HoldingPoints, Procs
<1>2. TypeOK'
  <2>1. signal' \in BOOLEAN  BY DEF BeginPass
  <2> QED
    BY <2>1, EmptySeq, RouterAssumption DEF BeginPass, TypeInv, TypeOK, Goto, PoolTypeOK, poolVars,
     RoutePoints, WorkerPoints, WorkerIdle, Procs
<1>3. Points'
  BY <1>1, RouterAssumption DEF BeginPass, TypeInv, TypeOK, Points, Goto, RoutePoints, Procs
<1> QED  BY <1>2, <1>3 DEF TypeInv

LEMMA EmptyPassType ==
  ASSUME TypeInv, EmptyPass
  PROVE  TypeInv'
<1>1. TypeOK'
  BY DEF EmptyPass, TypeInv, TypeOK, PoolTypeOK, poolVars, routerVars
<1>2. Points'
  BY DEF EmptyPass, TypeInv, Points, routerVars
<1> QED  BY <1>1, <1>2 DEF TypeInv

LEMMA ScanItemType ==
  ASSUME TypeInv, ScanItem
  PROVE  TypeInv'
<1>1. PICK l \in {"scan", "route"} :
        /\ Goto(Worker, l)
        /\ \/ /\ l = "route"
              /\ UNCHANGED <<answer, answerConn, cursor>>
           \/ /\ l = "scan"
              /\ Send(Item, "timeout", NoServer)
              /\ cursor' = cursor + 1
  <2>1. pc = [pc EXCEPT ![Worker] = "scan"]
    BY DEF ScanItem, TypeInv, TypeOK, Procs
  <2> QED  BY <2>1 DEF ScanItem, Goto
<1>2. UNCHANGED <<poolVars, frame, conn, bc, rrIndex, serving, strategy, ctxDone,
                  queue, remaining, late, expired, started, signal, lifecycle>>
  BY DEF ScanItem
<1>3. queue \in Seq(Requests) /\ cursor \in Nat /\ cursor \in DOMAIN queue /\ Item \in Requests
  <2>1. queue \in Seq(Requests) /\ cursor \in Nat /\ cursor # 0 /\ cursor <= Len(queue)
    BY DEF ScanItem, TypeInv, TypeOK, Points
  <2> QED  BY <2>1 DEF Item
<1>4. \A q \in Procs : FrameOK(frame'[q], pc'[q]) /\ ConnOK(pc'[q], conn'[q], bc'[q])
  BY <1>1, <1>2, MoveOK DEF ConnOK, HoldingPoints, Procs
<1>5. /\ answer' \in [Requests -> Answers]
      /\ answerConn' \in [Requests -> Servers \cup {NoServer}]
      /\ cursor' \in Nat
      /\ \A r \in Requests : answer'[r] = "conn" => answerConn'[r] \in Servers
  <2>1. /\ answer \in [Requests -> Answers]
        /\ answerConn \in [Requests -> Servers \cup {NoServer}]
        /\ \A r \in Requests : answer[r] = "conn" => answerConn[r] \in Servers
    BY DEF TypeInv, TypeOK, Points
  <2> QED  BY <1>1, <1>3, <2>1 DEF Send, Answers
<1>6. TypeOK'
  BY <1>1, <1>2, <1>5, RouterAssumption DEF TypeInv, TypeOK, Goto, PoolTypeOK, poolVars,
     RoutePoints, WorkerPoints, WorkerIdle, Procs
<1>7. Points'
  <2>1. cursor' # 0 /\ (pc'[Worker] = "route" => cursor' \in DOMAIN queue)
    BY <1>1, <1>3, RouterAssumption DEF TypeInv, TypeOK, Goto, Procs
  <2>2. pc'[Worker] \in {"scan", "route"}
    BY <1>1 DEF TypeInv, TypeOK, Goto, Procs
  <2> QED  BY <1>2, <1>4, <1>5, <2>1, <2>2 DEF Points, RoutePoints
<1> QED  BY <1>6, <1>7 DEF TypeInv

LEMMA DeliverType ==
  ASSUME TypeInv, Deliver
  PROVE  TypeInv'
<1>1. /\ queue \in Seq(Requests) /\ cursor \in Nat /\ cursor \in DOMAIN queue
      /\ Item \in Requests /\ conn[Worker] \in Servers
  <2>1. queue \in Seq(Requests) /\ cursor \in DOMAIN queue /\ cursor \in Nat
    BY DEF Deliver, TypeInv, TypeOK, Points
  <2>2. conn[Worker] \in Servers
    BY DEF Deliver, TypeInv, Points, ConnOK, HoldingPoints, Procs
  <2> QED  BY <2>1, <2>2 DEF Item
<1>2. \A q \in Procs : FrameOK(frame'[q], pc'[q]) /\ ConnOK(pc'[q], conn'[q], bc'[q])
  <2>1. \A q \in Procs \ {Worker} : conn'[q] = conn[q] /\ bc'[q] = bc[q]
    BY DEF Deliver, TypeInv, TypeOK
  <2> QED  BY <2>1, MoveOK DEF Deliver, ConnOK, HoldingPoints, Procs
<1>3. /\ answer' \in [Requests -> Answers]
      /\ answerConn' \in [Requests -> Servers \cup {NoServer}]
      /\ cursor' \in Nat \ {0}
      /\ \A r \in Requests : answer'[r] = "conn" => answerConn'[r] \in Servers
      /\ conn' \in [Procs -> Servers \cup {NoServer}]
  <2>1. /\ answer \in [Requests -> Answers]
        /\ answerConn \in [Requests -> Servers \cup {NoServer}]
        /\ \A r \in Requests : answer[r] = "conn" => answerConn[r] \in Servers
        /\ conn \in [Procs -> Servers \cup {NoServer}]
    BY DEF TypeInv, TypeOK, Points
  <2>2. /\ Send(Item, "conn", conn[Worker]) /\ cursor' = cursor + 1
        /\ conn' = [conn EXCEPT ![Worker] = NoServer]
    BY DEF Deliver
  <2>3. conn' \in [Procs -> Servers \cup {NoServer}]
    BY <2>1, <2>2
  <2>4. cursor' \in Nat \ {0}
    BY <1>1, <2>2
  <2> QED  BY <1>1, <2>1, <2>2, <2>3, <2>4 DEF Send, Answers
<1>4. TypeOK'
  BY <1>3, RouterAssumption DEF Deliver, TypeInv, TypeOK, Goto, PoolTypeOK, poolVars,
     RoutePoints, WorkerPoints, WorkerIdle, Procs
<1>5. Points'
  <2>1. pc'[Worker] = "scan"
    BY DEF Deliver, TypeInv, TypeOK, Goto, Procs
  <2> QED  BY <1>2, <1>3, <2>1 DEF Points, RoutePoints
<1> QED  BY <1>4, <1>5 DEF TypeInv

LEMMA KeepItemType ==
  ASSUME TypeInv, KeepItem
  PROVE  TypeInv'
<1>1. /\ queue \in Seq(Requests) /\ cursor \in Nat /\ cursor \in DOMAIN queue
      /\ Item \in Requests
  <2>1. queue \in Seq(Requests) /\ cursor \in DOMAIN queue /\ cursor \in Nat
    BY DEF KeepItem, TypeInv, TypeOK, Points
  <2> QED  BY <2>1 DEF Item
<1>2. \A q \in Procs : FrameOK(frame'[q], pc'[q]) /\ ConnOK(pc'[q], conn'[q], bc'[q])
  BY MoveOK DEF KeepItem, ConnOK, HoldingPoints, Procs
<1>3. TypeOK'
  <2>1. remaining' \in Seq(Requests) /\ cursor' \in Nat
    BY <1>1 DEF KeepItem, TypeInv, TypeOK
  <2> QED
    BY <2>1, RouterAssumption DEF KeepItem, TypeInv, TypeOK, Goto, PoolTypeOK, poolVars,
     RoutePoints, WorkerPoints, WorkerIdle, Procs
<1>4. Points'
  BY <1>1, <1>2, RouterAssumption DEF KeepItem, TypeInv, TypeOK, Points, Goto, RoutePoints, Procs
<1> QED  BY <1>3, <1>4 DEF TypeInv

LEMMA EndPassType ==
  ASSUME TypeInv, EndPass
  PROVE  TypeInv'
<1>1. \A q \in Procs : FrameOK(frame'[q], pc'[q]) /\ ConnOK(pc'[q], conn'[q], bc'[q])
  BY MoveOK DEF EndPass, ConnOK, HoldingPoints, Procs
<1>2. TypeOK'
  BY EmptySeq, RouterAssumption DEF EndPass, TypeInv, TypeOK, Goto, PoolTypeOK, poolVars,
     RoutePoints, WorkerPoints, WorkerIdle, Procs
<1>3. Points'
  BY <1>1, RouterAssumption DEF EndPass, TypeInv, TypeOK, Points, Goto, RoutePoints, Procs
<1> QED  BY <1>2, <1>3 DEF TypeInv

LEMMA ExpireType ==
  ASSUME TypeInv, NEW r \in Requests, Expire(r)
  PROVE  TypeInv'
<1>1. TypeOK'
  BY DEF Expire, TypeInv, TypeOK, PoolTypeOK, poolVars, routerVars
<1>2. Points'
  BY DEF Expire, TypeInv, Points, routerVars
<1> QED  BY <1>1, <1>2 DEF TypeInv

LEMMA DrainType ==
  ASSUME TypeInv, Drain
  PROVE  TypeInv'
<1>1. TypeOK'
  BY EmptySeq DEF Drain, TypeInv, TypeOK, PoolTypeOK, poolVars, routerVars, Answers
<1>2. Points'
  BY DEF Drain, MuFree, WorkerIdle, TypeInv, Points, routerVars, RoutePoints
<1> QED  BY <1>1, <1>2 DEF TypeInv

LEMMA StopType ==
  ASSUME TypeInv, Stop
  PROVE  TypeInv'
<1>1. PICK l : Goto(Worker, l) /\ (l = pc[Worker] \/ (pc[Worker] = "select" /\ l = "stopped"))
  <2>1. pc = [pc EXCEPT ![Worker] = pc[Worker]]
    BY DEF TypeInv, TypeOK, Procs
  <2> QED  BY <2>1 DEF Stop, Goto
<1>2. \A q \in Procs : FrameOK(frame'[q], pc'[q]) /\ ConnOK(pc'[q], conn'[q], bc'[q])
  <2>1. CASE l = pc[Worker]
    BY <1>1, <2>1 DEF Stop, Goto, TypeInv, TypeOK, Points
  <2>2. CASE l = "stopped"
    BY <1>1, <2>2, MoveOK DEF Stop, ConnOK, HoldingPoints, Procs
  <2> QED  BY <1>1, <2>1, <2>2
<1>3. TypeOK'
  BY <1>1, RouterAssumption DEF Stop, TypeInv, TypeOK, Goto, PoolTypeOK, poolVars,
     RoutePoints, WorkerPoints, WorkerIdle, Procs
<1>4. Points'
  BY <1>1, <1>2, RouterAssumption DEF Stop, TypeInv, TypeOK, Points, Goto, RoutePoints, Procs
<1> QED  BY <1>3, <1>4 DEF TypeInv

LEMMA SettingType ==
  ASSUME TypeInv, SetStrategy \/ \E m \in Models : Rediscover(m), UNCHANGED queueVars
  PROVE  TypeInv'
<1>1. TypeOK'
  BY DEF SetStrategy, Rediscover, TypeInv, TypeOK, PoolTypeOK, poolVars, queueVars
<1>2. Points'
  BY DEF SetStrategy, Rediscover, TypeInv, Points, queueVars
<1> QED  BY <1>1, <1>2 DEF TypeInv

-----------------------------------------------------------------------------
(* Type correctness.                                                       *)

LEMMA InitType == Init => TypeInv
<1> SUFFICES ASSUME Init PROVE TypeInv
  OBVIOUS
<1>1. EmptyFrame \in Frame /\ FrameOK(EmptyFrame, "idle") /\ FrameOK(EmptyFrame, "off")
  BY EmptyFrameOK DEF FrameOK
<1>2. TypeOK
  <2>1. PoolTypeOK
    BY PoolAssumption DEF Init, PoolInit, PoolTypeOK
  <2>2. /\ frame \in [Procs -> Frame] /\ bc \in [Procs -> 0..MaxGen]
        /\ conn \in [Procs -> Servers \cup {NoServer}]
    BY <1>1, PoolAssumption DEF Init, RouterInit
  <2>3. /\ pc \in [Procs -> RoutePoints \cup HandlerPoints \cup WorkerPoints]
        /\ pc[Worker] \in RoutePoints \cup WorkerPoints
        /\ \A r \in Requests : pc[r] \in RoutePoints \cup HandlerPoints
    BY RouterAssumption DEF Init, RouterInit, Procs,
       RoutePoints, HandlerPoints, WorkerPoints, WorkerIdle
  <2> QED
    BY <2>1, <2>2, <2>3, EmptySeq DEF Init, RouterInit, QueueInit, TypeOK, Answers
<1>3. Points
  BY <1>1, RouterAssumption DEF Init, RouterInit, QueueInit, Points, ConnOK, HoldingPoints,
     RoutePoints, Procs
<1> QED  BY <1>2, <1>3 DEF TypeInv

(* Every step of the bridge, of its administrators and of the shutdown     *)
(* sequence keeps the types and what the control points promise.           *)
LEMMA StepType ==
  ASSUME TypeInv, [Next \/ AdminStep]_vars
  PROVE  TypeInv'
<1>1. ASSUME NEW r \in Requests, HandlerStep(r)
      PROVE  TypeInv'
  BY <1>1, ArriveType, RouteStepType, EnsureStartedType, AppendItemType, NotifyType,
     AnswerTakenType, CancelWaitType, RemoveItemType, ProxyLookupType, ReleaseLookupType,
     ReleaseDecType DEF HandlerStep, Procs
<1>2. CASE WorkerStep
  <2>1. pc[Worker] \in RoutePoints => Item \in Requests
    <3>1. queue \in Seq(Requests) /\ (pc[Worker] \in RoutePoints => cursor \in DOMAIN queue)
      BY DEF TypeInv, TypeOK, Points
    <3> QED  BY <3>1 DEF Item
  <2> QED  BY <1>2, <2>1, RouteStepType, BeginPassType, EmptyPassType, ScanItemType, DeliverType,
              KeepItemType, EndPassType DEF WorkerStep, Procs
<1>3. CASE EnvStep
  BY <1>3, ClientLeavesType, ExpireType, SettingType DEF EnvStep
<1>4. CASE ShutdownStep
  BY <1>4, DrainType, StopType DEF ShutdownStep
<1>5. CASE AdminStep
  BY <1>5, AdminType
<1>6. CASE UNCHANGED vars
  <2>1. TypeOK'
    BY <1>6 DEF vars, poolVars, routerVars, queueVars, TypeInv, TypeOK, PoolTypeOK
  <2>2. Points'
    BY <1>6 DEF vars, poolVars, routerVars, queueVars, TypeInv, Points
  <2> QED  BY <2>1, <2>2 DEF TypeInv
<1> QED  BY <1>1, <1>2, <1>3, <1>4, <1>5, <1>6 DEF Next, Serve

(* The variables keep their types and every goroutine stays within its own *)
(* code, for any number of requests and servers, also while servers are    *)
(* replaced and removed under it and while the router is drained.          *)
THEOREM TypeCorrect == ReconfSpec => []TypeOK
<1>1. TypeInv /\ [ReconfNext]_vars => TypeInv'
  BY StepType DEF ReconfNext
<1>2. TypeInv => TypeOK
  BY DEF TypeInv
<1> QED  BY <1>1, <1>2, InitType, PTL DEF ReconfSpec

-----------------------------------------------------------------------------
(* Acquire and Release balance.                                            *)
(*                                                                         *)
(* SlotLedger is inductive together with the types and with the fact that  *)
(* nobody replaces a client: every pointer a process keeps is then to the  *)
(* client that is in the map.                                              *)

OneClient ==
  /\ \A u \in Servers : clients[u] = 1
  /\ \A p \in Procs : pc[p] \in {"inc", "check", "dec"} => bc[p] = 1

LedgerInv == TypeInv /\ OneClient /\ SlotLedger

LEMMA SlotsFinite ==
  ASSUME NEW u
  PROVE  /\ IsFiniteSet(Holders(u)) /\ Cardinality(Holders(u)) \in Nat
         /\ IsFiniteSet(InChannels(u)) /\ Cardinality(InChannels(u)) \in Nat
<1>1. IsFiniteSet(Procs)
  BY FS_AddElement, RouterAssumption DEF Procs
<1>2. Holders(u) \subseteq Procs /\ InChannels(u) \subseteq Requests
  BY DEF Holders, InChannels
<1> QED  BY <1>1, <1>2, FS_Subset, FS_CardinalityType, RouterAssumption

(* One member more or less.                                                *)
LEMMA CardStep ==
  ASSUME NEW S, IsFiniteSet(S), NEW T, NEW x, T \subseteq S \cup {x}, S \subseteq T \cup {x}
  PROVE  Cardinality(T) = Cardinality(S) + (IF x \in T THEN 1 ELSE 0)
                                         - (IF x \in S THEN 1 ELSE 0)
<1>0. Cardinality(S) \in Nat
  BY FS_CardinalityType
<1>1. CASE (x \in S) = (x \in T)
  <2>1. T = S  BY <1>1
  <2> QED  BY <1>0, <1>1, <2>1
<1>2. CASE x \in T /\ x \notin S
  <2>1. T = S \cup {x}  BY <1>2
  <2>2. Cardinality(T) = Cardinality(S) + 1  BY <1>2, <2>1, FS_AddElement
  <2> QED  BY <1>0, <1>2, <2>2
<1>3. CASE x \in S /\ x \notin T
  <2>1. T = S \ {x}  BY <1>3
  <2>2. Cardinality(T) = Cardinality(S) - 1  BY <1>3, <2>1, FS_RemoveElement
  <2> QED  BY <1>0, <1>3, <2>2
<1> QED  BY <1>1, <1>2, <1>3

(* A step in which no slot changes hands.                                  *)
LEMMA QuietStep ==
  ASSUME SlotLedger, UNCHANGED <<clients, inflight>>,
         \A q \in Procs : pc'[q] \in HoldingPoints <=> pc[q] \in HoldingPoints,
         \A q \in Procs : pc[q] \in HoldingPoints => conn'[q] = conn[q],
         \A r \in Requests : answer'[r] = "conn" <=> answer[r] = "conn",
         \A r \in Requests : answer[r] = "conn" => answerConn'[r] = answerConn[r]
  PROVE  SlotLedger'
<1> SUFFICES ASSUME NEW u \in Servers
             PROVE  Inflight(u)' = Cardinality(Holders(u)') + Cardinality(InChannels(u)')
  BY DEF SlotLedger
<1>1. Inflight(u)' = Inflight(u)  BY DEF Inflight
<1>2. Holders(u)' = Holders(u)  BY DEF Holders
<1>3. InChannels(u)' = InChannels(u)  BY DEF InChannels
<1> QED  BY <1>1, <1>2, <1>3 DEF SlotLedger

LEMMA Balance ==
  ASSUME NEW x \in Int, NEW y \in Int, NEW h \in Int, NEW k \in Int,
         NEW a \in Int, NEW b \in Int, NEW c \in Int, NEW d \in Int,
         x = h + k, y - x = a - b + c - d
  PROVE  y = (h + a - b) + (k + c - d)
OBVIOUS

(* The counter of a server under a step of process p that also changes the *)
(* channel of request r: it moves by d exactly where a slot does.          *)
LEMMA SlotStep ==
  ASSUME LedgerInv, NEW p \in Procs, NEW r \in Requests, UNCHANGED clients,
         inflight' \in [Servers -> [Generations -> Int]],
         \A q \in Procs \ {p} : pc'[q] = pc[q] /\ conn'[q] = conn[q],
         \A q \in Requests \ {r} : answer'[q] = answer[q] /\ answerConn'[q] = answerConn[q],
         \A u \in Servers :
           inflight'[u][1] - inflight[u][1] =
               (IF p \in Holders(u)' THEN 1 ELSE 0) - (IF p \in Holders(u) THEN 1 ELSE 0)
             + (IF r \in InChannels(u)' THEN 1 ELSE 0) - (IF r \in InChannels(u) THEN 1 ELSE 0)
  PROVE  SlotLedger'
<1> SUFFICES ASSUME NEW u \in Servers
             PROVE  Inflight(u)' = Cardinality(Holders(u)') + Cardinality(InChannels(u)')
  BY DEF SlotLedger
<1> DEFINE H == Holders(u)
           C == InChannels(u)
<1>1. Inflight(u) = inflight[u][1] /\ Inflight(u)' = inflight'[u][1]
  BY DEF LedgerInv, OneClient, Inflight
<1>2. inflight[u][1] \in Int /\ inflight'[u][1] \in Int
  BY PoolAssumption DEF LedgerInv, TypeInv, TypeOK, PoolTypeOK, Generations
<1>3. Cardinality(H') = Cardinality(H) + (IF p \in H' THEN 1 ELSE 0) - (IF p \in H THEN 1 ELSE 0)
  <2>1. H' \subseteq H \cup {p} /\ H \subseteq H' \cup {p}
    BY DEF Holders
  <2> QED  BY <2>1, SlotsFinite, CardStep
<1>4. Cardinality(C') = Cardinality(C) + (IF r \in C' THEN 1 ELSE 0) - (IF r \in C THEN 1 ELSE 0)
  <2>1. C' \subseteq C \cup {r} /\ C \subseteq C' \cup {r}
    BY DEF InChannels
  <2> QED  BY <2>1, SlotsFinite, CardStep
<1>5. inflight[u][1] = Cardinality(H) + Cardinality(C) /\ Cardinality(H) \in Nat /\ Cardinality(C) \in Nat
  BY <1>1, SlotsFinite DEF LedgerInv, SlotLedger
<1> DEFINE a == IF p \in H' THEN 1 ELSE 0
           b == IF p \in H THEN 1 ELSE 0
           c == IF r \in C' THEN 1 ELSE 0
           d == IF r \in C THEN 1 ELSE 0
           cH == Cardinality(H')
           cC == Cardinality(C')
<1>6. inflight'[u][1] - inflight[u][1] = a - b + c - d
  OBVIOUS
<1>7. a \in Int /\ b \in Int /\ c \in Int /\ d \in Int
  OBVIOUS
<1>8. cH = Cardinality(H) + a - b /\ cC = Cardinality(C) + c - d
  BY <1>3, <1>4
<1> HIDE DEF a, b, c, d, cH, cC, H, C
<1>9. inflight'[u][1] = (Cardinality(H) + a - b) + (Cardinality(C) + c - d)
  <2>1. Cardinality(H) \in Int /\ Cardinality(C) \in Int  BY <1>5
  <2> QED  BY <1>2, <1>5, <1>6, <1>7, <2>1, Balance
<1> QED  BY <1>1, <1>8, <1>9 DEF cH, cC, H, C

(* The steps of route that take no slot.                                   *)
LEMMA RouteQuiet ==
  ASSUME LedgerInv, NEW p \in Procs, NEW r \in Requests, UNCHANGED queueVars,
         \/ RouteBegin(p, r) \/ Inspect(p) \/ LoadInflight(p) \/ PickGroup(p, r)
         \/ Fallback(p)
  PROVE  OneClient' /\ SlotLedger'
<1>1. /\ UNCHANGED <<clients, inflight, conn, bc, answer, answerConn>>
      /\ pc[p] \notin HoldingPoints \cup {"inc", "check", "dec"}
  BY DEF RouteBegin, Inspect, LoadInflight, PickGroup, Fallback, poolVars, queueVars, HoldingPoints
<1>2. pc' = [pc EXCEPT ![p] = pc'[p]] /\ pc'[p] \notin HoldingPoints \cup {"inc", "check", "dec"}
  <2>0. pc \in [Procs -> RoutePoints \cup HandlerPoints \cup WorkerPoints]
    BY DEF LedgerInv, TypeInv, TypeOK
  <2>1. CASE PickGroup(p, r)
    BY <1>1, <2>0, <2>1 DEF PickGroup
  <2>2. CASE RouteBegin(p, r) \/ Inspect(p) \/ LoadInflight(p)
    BY <2>0, <2>2 DEF RouteBegin, Inspect, LoadInflight, RouteFails, NextServer, Goto, HoldingPoints
  <2>3. CASE Fallback(p)
    <3>1. UNCHANGED pc \/ RouteFails(p) \/ Goto(p, "ensure")
      BY <2>3 DEF Fallback
    <3> QED  BY <1>1, <2>0, <3>1 DEF RouteFails, Goto, HoldingPoints
  <2> QED  BY <2>1, <2>2, <2>3
<1>3. OneClient'
  BY <1>1, <1>2 DEF LedgerInv, OneClient, TypeInv, TypeOK
<1>4. \A q \in Procs : pc'[q] \in HoldingPoints <=> pc[q] \in HoldingPoints
  BY <1>1, <1>2 DEF LedgerInv, TypeInv, TypeOK
<1>5. SlotLedger'
  BY <1>1, <1>4, QuietStep DEF LedgerInv
<1> QED  BY <1>3, <1>5

LEMMA AcquireLookupQuiet ==
  ASSUME LedgerInv, NEW p \in Procs, AcquireLookup(p), UNCHANGED queueVars
  PROVE  OneClient' /\ SlotLedger'
<1>1. /\ UNCHANGED <<clients, inflight, answer, answerConn>>
      /\ pc[p] = "try"
  BY DEF AcquireLookup, poolVars, queueVars
<1>2. \/ UNCHANGED <<pc, conn, bc>>
      \/ \E u \in Servers : /\ Goto(p, "inc")
                             /\ conn' = [conn EXCEPT ![p] = u]
                             /\ bc' = [bc EXCEPT ![p] = clients[u]]
  <2>1. PICK i \in frame[p].cands :
          \/ UNCHANGED <<pc, conn, bc>>
          \/ /\ Goto(p, "inc")
             /\ conn' = [conn EXCEPT ![p] = frame[p].infos[i].url]
             /\ bc' = [bc EXCEPT ![p] = clients[frame[p].infos[i].url]]
    BY DEF AcquireLookup
  <2>2. i \in DOMAIN frame[p].infos /\ frame[p].infos \in Seq(Info)
    BY DEF LedgerInv, TypeInv, Points, FrameOK, Frame
  <2>3. i \in 1..Len(frame[p].infos)  BY <2>2
  <2>4. frame[p].infos[i] \in Info  BY <2>2, <2>3, ElementOfSeq
  <2>5. frame[p].infos[i].url \in Servers  BY <2>4 DEF Info
  <2> QED  BY <2>1, <2>5
<1>3. CASE UNCHANGED <<pc, conn, bc>>
  <2>1. OneClient'
    BY <1>1, <1>3 DEF LedgerInv, OneClient
  <2>2. SlotLedger'
    BY <1>1, <1>3, QuietStep DEF LedgerInv
  <2> QED  BY <2>1, <2>2
<1>4. ASSUME NEW u \in Servers, Goto(p, "inc"), conn' = [conn EXCEPT ![p] = u],
             bc' = [bc EXCEPT ![p] = clients[u]]
      PROVE  OneClient' /\ SlotLedger'
  <2>1. \A q \in Procs : /\ pc'[q] = (IF q = p THEN "inc" ELSE pc[q])
                         /\ conn'[q] = (IF q = p THEN u ELSE conn[q])
                         /\ bc'[q] = (IF q = p THEN 1 ELSE bc[q])
    BY <1>4 DEF LedgerInv, OneClient, TypeInv, TypeOK, Goto
  <2>2. OneClient'
    BY <1>1, <2>1 DEF LedgerInv, OneClient
  <2>3. SlotLedger'
    BY <1>1, <2>1, QuietStep DEF LedgerInv, HoldingPoints
  <2> QED  BY <2>2, <2>3
<1> QED  BY <1>2, <1>3, <1>4

(* bc.inflight.Add(d) when the pointer is to the client in the map.        *)
LEMMA AddOnClient ==
  ASSUME TypeInv, NEW u \in Servers, NEW d \in Int, InflightAdd(u, 1, d)
  PROVE  \A v \in Servers : inflight'[v][1] = inflight[v][1] + (IF v = u THEN d ELSE 0)
<1>1. /\ inflight \in [Servers -> [Generations -> Int]] /\ 1 \in Generations
  BY PoolAssumption DEF TypeInv, TypeOK, PoolTypeOK, Generations
<1> QED  BY <1>1 DEF InflightAdd

LEMMA AcquireAddLedger ==
  ASSUME LedgerInv, TypeInv', NEW p \in Procs, NEW r \in Requests, AcquireAdd(p),
         UNCHANGED queueVars
  PROVE  OneClient' /\ SlotLedger'
<1>1. /\ pc[p] = "inc" /\ bc[p] = 1 /\ conn[p] \in Servers
      /\ pc' = [pc EXCEPT ![p] = "check"]
      /\ UNCHANGED <<clients, conn, bc, answer, answerConn>>
      /\ InflightAdd(conn[p], bc[p], 1)
  BY DEF AcquireAdd, Goto, queueVars, LedgerInv, OneClient, TypeInv, Points, ConnOK
<1>2. OneClient'
  BY <1>1 DEF LedgerInv, OneClient, TypeInv, TypeOK
<1>3. \A u \in Servers : inflight'[u][1] = inflight[u][1] + (IF u = conn[p] THEN 1 ELSE 0)
  BY <1>1, AddOnClient DEF LedgerInv
<1>4. \A u \in Servers : /\ p \notin Holders(u)
                         /\ p \in Holders(u)' <=> u = conn[p]
                         /\ InChannels(u)' = InChannels(u)
  BY <1>1 DEF Holders, InChannels, HoldingPoints, LedgerInv, TypeInv, TypeOK
<1>5. SlotLedger'
  <2>1. inflight' \in [Servers -> [Generations -> Int]] /\ inflight \in [Servers -> [Generations -> Int]]
        /\ 1 \in Generations
    BY PoolAssumption DEF TypeInv, TypeOK, PoolTypeOK, LedgerInv, Generations
  <2>2. \A q \in Procs \ {p} : pc'[q] = pc[q] /\ conn'[q] = conn[q]
    BY <1>1 DEF LedgerInv, TypeInv, TypeOK
  <2>3. \A u \in Servers :
           inflight'[u][1] - inflight[u][1] =
               (IF p \in Holders(u)' THEN 1 ELSE 0) - (IF p \in Holders(u) THEN 1 ELSE 0)
             + (IF r \in InChannels(u)' THEN 1 ELSE 0) - (IF r \in InChannels(u) THEN 1 ELSE 0)
    BY <1>3, <1>4, <2>1
  <2> QED  BY <1>1, <2>1, <2>2, <2>3, SlotStep
<1> QED  BY <1>2, <1>5

LEMMA AcquireCheckLedger ==
  ASSUME LedgerInv, TypeInv', NEW p \in Procs, NEW r \in Requests, AcquireCheck(p, r),
         UNCHANGED queueVars
  PROVE  OneClient' /\ SlotLedger'
<1>1. /\ pc[p] = "check" /\ bc[p] = 1 /\ conn[p] \in Servers
      /\ bc' = [bc EXCEPT ![p] = 0]
      /\ UNCHANGED <<clients, answer, answerConn>>
  BY DEF AcquireCheck, queueVars, LedgerInv, OneClient, TypeInv, Points, ConnOK, HoldingPoints
<1>2. CASE /\ InflightAdd(conn[p], bc[p], -1) /\ Goto(p, "try")
           /\ conn' = [conn EXCEPT ![p] = NoServer]
  <2>1. \A q \in Procs : /\ pc'[q] = (IF q = p THEN "try" ELSE pc[q])
                         /\ conn'[q] = (IF q = p THEN NoServer ELSE conn[q])
                         /\ bc'[q] = (IF q = p THEN 0 ELSE bc[q])
    BY <1>1, <1>2 DEF LedgerInv, TypeInv, TypeOK, Goto
  <2>2. OneClient'
    BY <1>1, <2>1 DEF LedgerInv, OneClient
  <2>3. \A u \in Servers : inflight'[u][1] = inflight[u][1] + (IF u = conn[p] THEN -1 ELSE 0)
    BY <1>1, <1>2, AddOnClient DEF LedgerInv
  <2>4. \A u \in Servers : /\ p \in Holders(u) <=> u = conn[p]
                           /\ p \notin Holders(u)'
                           /\ InChannels(u)' = InChannels(u)
    BY <1>1, <2>1 DEF Holders, InChannels, HoldingPoints
  <2>5. /\ inflight' \in [Servers -> [Generations -> Int]]
        /\ inflight \in [Servers -> [Generations -> Int]] /\ 1 \in Generations
    BY PoolAssumption DEF TypeInv, TypeOK, PoolTypeOK, LedgerInv, Generations
  <2>6. \A u \in Servers :
           inflight'[u][1] - inflight[u][1] =
               (IF p \in Holders(u)' THEN 1 ELSE 0) - (IF p \in Holders(u) THEN 1 ELSE 0)
             + (IF r \in InChannels(u)' THEN 1 ELSE 0) - (IF r \in InChannels(u) THEN 1 ELSE 0)
    BY <2>3, <2>4, <2>5
  <2>7. SlotLedger'
    BY <1>1, <2>1, <2>5, <2>6, SlotStep
  <2> QED  BY <2>2, <2>7
<1>3. CASE Goto(p, IF p = Worker THEN "deliver" ELSE "proxy") /\ UNCHANGED <<inflight, conn>>
  <2>1. \A q \in Procs : /\ pc'[q] = (IF q = p THEN IF p = Worker THEN "deliver" ELSE "proxy"
                                                ELSE pc[q])
                         /\ bc'[q] = (IF q = p THEN 0 ELSE bc[q])
    BY <1>1, <1>3 DEF LedgerInv, TypeInv, TypeOK, Goto
  <2>2. OneClient'
    BY <1>1, <2>1 DEF LedgerInv, OneClient
  <2>3. SlotLedger'
    BY <1>1, <1>3, <2>1, QuietStep DEF LedgerInv, HoldingPoints
  <2> QED  BY <2>2, <2>3
<1> QED  BY <1>2, <1>3 DEF AcquireCheck

LEMMA RouteStepLedger ==
  ASSUME LedgerInv, NEW p \in Procs, NEW r \in Requests, RouteStep(p, r), UNCHANGED queueVars
  PROVE  OneClient' /\ SlotLedger'
<1>1. TypeInv'
  BY RouteStepType DEF LedgerInv
<1> QED  BY <1>1, RouteQuiet, AcquireLookupQuiet, AcquireAddLedger, AcquireCheckLedger DEF RouteStep

(* A process goes from one point to another without taking a slot, giving  *)
(* one back or touching a channel that holds a connection.                 *)
LEMMA MoveQuiet ==
  ASSUME LedgerInv, NEW p \in Procs, NEW l, Goto(p, l),
         pc[p] \in HoldingPoints <=> l \in HoldingPoints,
         l \notin {"inc", "check", "dec"},
         UNCHANGED <<clients, inflight, conn, bc, answer, answerConn>>
  PROVE  OneClient' /\ SlotLedger'
<1>1. \A q \in Procs : pc'[q] = (IF q = p THEN l ELSE pc[q])
  BY DEF LedgerInv, TypeInv, TypeOK, Goto
<1>2. OneClient'
  BY <1>1 DEF LedgerInv, OneClient
<1>3. SlotLedger'
  BY <1>1, QuietStep DEF LedgerInv
<1> QED  BY <1>2, <1>3

LEMMA HandlerQuiet ==
  ASSUME LedgerInv, NEW r \in Requests,
         \/ Arrive(r) \/ RejectBody(r) \/ AppendItem(r) \/ Notify(r) \/ CancelWait(r)
         \/ RemoveItem(r) \/ ProxyLookup(r) \/ UpstreamEnds(r)
  PROVE  OneClient' /\ SlotLedger'
<1>1. r \in Procs /\ UNCHANGED <<clients, inflight, conn, bc, answer, answerConn>>
  BY DEF Procs, Arrive, RejectBody, AppendItem, Notify, CancelWait, RemoveItem, ProxyLookup,
     UpstreamEnds, poolVars, queueVars
<1>2. \E l : /\ Goto(r, l) /\ (pc[r] \in HoldingPoints <=> l \in HoldingPoints)
             /\ l \notin {"inc", "check", "dec"}
  <2>1. CASE ProxyLookup(r) \/ UpstreamEnds(r)
    BY <2>1 DEF ProxyLookup, UpstreamEnds, HoldingPoints
  <2>2. CASE Arrive(r) \/ RejectBody(r) \/ AppendItem(r)
    BY <2>2 DEF Arrive, RejectBody, AppendItem, HoldingPoints
  <2>3. CASE Notify(r) \/ CancelWait(r) \/ RemoveItem(r)
    BY <2>3 DEF Notify, CancelWait, RemoveItem, HoldingPoints
  <2> QED  BY <2>1, <2>2, <2>3
<1> QED  BY <1>1, <1>2, MoveQuiet

LEMMA EnsureStartedQuiet ==
  ASSUME LedgerInv, NEW r \in Requests, EnsureStarted(r)
  PROVE  OneClient' /\ SlotLedger'
<1>1. UNCHANGED <<clients, inflight, conn, bc, answer, answerConn>>
  BY DEF EnsureStarted, poolVars
<1>2. \A q \in Procs : \/ pc'[q] = pc[q]
                       \/ /\ pc[q] \in WorkerIdle \cup {"ensure"}
                          /\ pc'[q] \in {"append", "select"}
  BY RouterAssumption DEF EnsureStarted, MuFree, LedgerInv, TypeInv, TypeOK, Procs
<1>3. OneClient'
  BY <1>1, <1>2 DEF LedgerInv, OneClient
<1>4. \A q \in Procs : pc'[q] \in HoldingPoints <=> pc[q] \in HoldingPoints
  BY <1>2 DEF HoldingPoints, WorkerIdle
<1>5. SlotLedger'
  BY <1>1, <1>4, QuietStep DEF LedgerInv
<1> QED  BY <1>3, <1>5

LEMMA ReleaseLookupQuiet ==
  ASSUME LedgerInv, NEW r \in Requests, ReleaseLookup(r)
  PROVE  OneClient' /\ SlotLedger'
<1>1. r \in Procs /\ pc[r] = "release" /\ conn[r] \in Servers
  BY DEF ReleaseLookup, LedgerInv, TypeInv, Points, ConnOK, HoldingPoints, Procs
<1>2. clients[conn[r]] = 1
  BY <1>1 DEF LedgerInv, OneClient
<1>3. /\ Goto(r, "dec") /\ bc' = [bc EXCEPT ![r] = 1]
      /\ UNCHANGED <<clients, inflight, conn, answer, answerConn>>
  BY <1>2 DEF ReleaseLookup, poolVars, queueVars
<1>4. \A q \in Procs : /\ pc'[q] = (IF q = r THEN "dec" ELSE pc[q])
                       /\ bc'[q] = (IF q = r THEN 1 ELSE bc[q])
  BY <1>3 DEF LedgerInv, TypeInv, TypeOK, Goto
<1>5. OneClient'
  BY <1>3, <1>4 DEF LedgerInv, OneClient
<1>6. SlotLedger'
  BY <1>1, <1>3, <1>4, QuietStep DEF LedgerInv, HoldingPoints
<1> QED  BY <1>5, <1>6

LEMMA ReleaseDecLedger ==
  ASSUME LedgerInv, TypeInv', NEW r \in Requests, ReleaseDec(r)
  PROVE  OneClient' /\ SlotLedger'
<1>1. /\ r \in Procs /\ pc[r] = "dec" /\ bc[r] = 1 /\ conn[r] \in Servers
      /\ Goto(r, "done") /\ conn' = [conn EXCEPT ![r] = NoServer]
      /\ bc' = [bc EXCEPT ![r] = 0]
      /\ InflightAdd(conn[r], bc[r], -1)
      /\ UNCHANGED <<clients, answer, answerConn>>
  BY DEF ReleaseDec, queueVars, LedgerInv, OneClient, TypeInv, Points, ConnOK, HoldingPoints, Procs
<1>2. \A q \in Procs : /\ pc'[q] = (IF q = r THEN "done" ELSE pc[q])
                       /\ conn'[q] = (IF q = r THEN NoServer ELSE conn[q])
                       /\ bc'[q] = (IF q = r THEN 0 ELSE bc[q])
  BY <1>1 DEF LedgerInv, TypeInv, TypeOK, Goto
<1>3. OneClient'
  BY <1>1, <1>2 DEF LedgerInv, OneClient
<1>4. \A u \in Servers : inflight'[u][1] = inflight[u][1] + (IF u = conn[r] THEN -1 ELSE 0)
  BY <1>1, AddOnClient DEF LedgerInv
<1>5. \A u \in Servers : /\ r \in Holders(u) <=> u = conn[r]
                         /\ r \notin Holders(u)'
                         /\ InChannels(u)' = InChannels(u)
  BY <1>1, <1>2 DEF Holders, InChannels, HoldingPoints
<1>6. /\ inflight' \in [Servers -> [Generations -> Int]]
      /\ inflight \in [Servers -> [Generations -> Int]] /\ 1 \in Generations
  BY PoolAssumption DEF TypeInv, TypeOK, PoolTypeOK, LedgerInv, Generations
<1>7. \A u \in Servers :
         inflight'[u][1] - inflight[u][1] =
             (IF r \in Holders(u)' THEN 1 ELSE 0) - (IF r \in Holders(u) THEN 1 ELSE 0)
           + (IF r \in InChannels(u)' THEN 1 ELSE 0) - (IF r \in InChannels(u) THEN 1 ELSE 0)
  BY <1>4, <1>5, <1>6
<1>8. SlotLedger'
  BY <1>1, <1>2, <1>6, <1>7, SlotStep
<1> QED  BY <1>3, <1>8

(* The slot in r's channel becomes a slot held by r's handler.             *)
LEMMA AnswerTakenLedger ==
  ASSUME LedgerInv, TypeInv', NEW r \in Requests, TakeAnswer(r) \/ CancelTake(r)
  PROVE  OneClient' /\ SlotLedger'
<1>1. PICK l \in {"proxy", "release", "done"} :
        /\ Goto(r, l)
        /\ \/ /\ answer[r] = "conn" /\ l # "done"
              /\ conn' = [conn EXCEPT ![r] = answerConn[r]]
           \/ answer[r] # "conn" /\ l = "done" /\ conn' = conn
  BY DEF TakeAnswer, CancelTake
<1>2. /\ r \in Procs /\ pc[r] = "wait"
      /\ answer' = [answer EXCEPT ![r] = "empty"]
      /\ answerConn' = [answerConn EXCEPT ![r] = NoServer]
      /\ UNCHANGED <<clients, inflight, bc>>
  BY DEF TakeAnswer, CancelTake, poolVars, Procs
<1>3. /\ \A q \in Procs : pc'[q] = (IF q = r THEN l ELSE pc[q])
      /\ \A q \in Procs \ {r} : conn'[q] = conn[q]
      /\ \A q \in Requests : answer'[q] = (IF q = r THEN "empty" ELSE answer[q])
      /\ \A q \in Requests \ {r} : answerConn'[q] = answerConn[q]
  BY <1>1, <1>2 DEF LedgerInv, TypeInv, TypeOK, Goto
<1>4. OneClient'
  BY <1>2, <1>3 DEF LedgerInv, OneClient
<1>5. \A u \in Servers : /\ r \notin Holders(u) /\ r \notin InChannels(u)'
                         /\ r \in Holders(u)' <=> r \in InChannels(u)
  <2>1. answer[r] = "conn" => conn'[r] = answerConn[r]
    BY <1>1, <1>2 DEF LedgerInv, TypeInv, TypeOK
  <2> QED  BY <1>1, <1>2, <1>3, <2>1 DEF Holders, InChannels, HoldingPoints
<1>6. /\ inflight' \in [Servers -> [Generations -> Int]]
      /\ inflight \in [Servers -> [Generations -> Int]] /\ 1 \in Generations
  BY PoolAssumption DEF TypeInv, TypeOK, PoolTypeOK, LedgerInv, Generations
<1>7. \A u \in Servers :
         inflight'[u][1] - inflight[u][1] =
             (IF r \in Holders(u)' THEN 1 ELSE 0) - (IF r \in Holders(u) THEN 1 ELSE 0)
           + (IF r \in InChannels(u)' THEN 1 ELSE 0) - (IF r \in InChannels(u) THEN 1 ELSE 0)
  BY <1>2, <1>5, <1>6
<1>8. SlotLedger'
  BY <1>2, <1>3, <1>6, <1>7, SlotStep
<1> QED  BY <1>4, <1>8

(* The slot Worker acquired goes into the item's channel, which was empty. *)
LEMMA DeliverLedger ==
  ASSUME LedgerInv, TypeInv', Deliver
  PROVE  OneClient' /\ SlotLedger'
<1>1. /\ Worker \in Procs /\ pc[Worker] = "deliver" /\ Goto(Worker, "scan")
      /\ conn' = [conn EXCEPT ![Worker] = NoServer]
      /\ answer[Item] = "empty"
      /\ answer' = [answer EXCEPT ![Item] = "conn"]
      /\ answerConn' = [answerConn EXCEPT ![Item] = conn[Worker]]
      /\ UNCHANGED <<clients, inflight, bc>>
  BY DEF Deliver, Send, poolVars, Procs
<1>2. Item \in Requests
  <2>1. queue \in Seq(Requests) /\ cursor \in DOMAIN queue
    BY <1>1 DEF LedgerInv, TypeInv, TypeOK, Points
  <2> QED  BY <2>1 DEF Item
<1>3. /\ \A q \in Procs : pc'[q] = (IF q = Worker THEN "scan" ELSE pc[q])
      /\ \A q \in Procs \ {Worker} : conn'[q] = conn[q]
      /\ \A q \in Requests : answer'[q] = (IF q = Item THEN "conn" ELSE answer[q])
      /\ \A q \in Requests : answerConn'[q] = (IF q = Item THEN conn[Worker] ELSE answerConn[q])
  BY <1>1, <1>2 DEF LedgerInv, TypeInv, TypeOK, Goto
<1>4. OneClient'
  BY <1>1, <1>3 DEF LedgerInv, OneClient
<1>5. \A u \in Servers : /\ Worker \in Holders(u) <=> Item \in InChannels(u)'
                         /\ Worker \notin Holders(u)' /\ Item \notin InChannels(u)
  BY <1>1, <1>2, <1>3 DEF Holders, InChannels, HoldingPoints
<1>6. /\ inflight' \in [Servers -> [Generations -> Int]]
      /\ inflight \in [Servers -> [Generations -> Int]] /\ 1 \in Generations
  BY PoolAssumption DEF TypeInv, TypeOK, PoolTypeOK, LedgerInv, Generations
<1>7. PICK r \in Requests : r = Item
  BY <1>2
<1>8. \A u \in Servers :
         inflight'[u][1] - inflight[u][1] =
             (IF Worker \in Holders(u)' THEN 1 ELSE 0) - (IF Worker \in Holders(u) THEN 1 ELSE 0)
           + (IF r \in InChannels(u)' THEN 1 ELSE 0) - (IF r \in InChannels(u) THEN 1 ELSE 0)
  BY <1>1, <1>5, <1>6, <1>7
<1>9. SlotLedger'
  BY <1>1, <1>3, <1>6, <1>7, <1>8, SlotStep
<1> QED  BY <1>4, <1>9

(* The steps of a pass that answer nobody with a connection.               *)
LEMMA PassQuiet ==
  ASSUME LedgerInv,
         \/ BeginPass(TRUE) \/ BeginPass(FALSE) \/ EmptyPass \/ KeepItem \/ EndPass
  PROVE  OneClient' /\ SlotLedger'
<1>1. Worker \in Procs /\ UNCHANGED <<clients, inflight, conn, bc, answer, answerConn>>
  BY DEF Procs, BeginPass, EmptyPass, KeepItem, EndPass, poolVars, routerVars
<1>2. CASE EmptyPass
  <2>1. UNCHANGED pc  BY <1>2 DEF EmptyPass, routerVars
  <2>2. OneClient'  BY <1>1, <2>1 DEF LedgerInv, OneClient
  <2>3. SlotLedger'  BY <1>1, <2>1, QuietStep DEF LedgerInv
  <2> QED  BY <2>2, <2>3
<1>3. CASE BeginPass(TRUE) \/ BeginPass(FALSE) \/ KeepItem \/ EndPass
  <2>1. pc[Worker] \in {"select", "failed", "scan"}
    BY <1>3 DEF BeginPass, KeepItem, EndPass
  <2>2. Goto(Worker, "scan") \/ Goto(Worker, "select")
    BY <1>3 DEF BeginPass, KeepItem, EndPass
  <2> QED  BY <1>1, <2>1, <2>2, MoveQuiet DEF HoldingPoints
<1> QED  BY <1>2, <1>3

LEMMA ScanItemQuiet ==
  ASSUME LedgerInv, ScanItem
  PROVE  OneClient' /\ SlotLedger'
<1>1. /\ Worker \in Procs /\ pc[Worker] = "scan"
      /\ UNCHANGED <<clients, inflight, conn, bc>>
  BY DEF ScanItem, Procs, poolVars
<1>2. CASE Goto(Worker, "route") /\ UNCHANGED <<answer, answerConn>>
  BY <1>1, <1>2, MoveQuiet DEF HoldingPoints
<1>3. CASE Send(Item, "timeout", NoServer) /\ UNCHANGED pc
  <2>1. OneClient'
    BY <1>1, <1>3 DEF LedgerInv, OneClient
  <2>2. \A r \in Requests : /\ answer'[r] = "conn" <=> answer[r] = "conn"
                            /\ answer[r] = "conn" => answerConn'[r] = answerConn[r]
    BY <1>3 DEF Send, LedgerInv, TypeInv, TypeOK
  <2>3. SlotLedger'
    BY <1>1, <1>3, <2>2, QuietStep DEF LedgerInv
  <2> QED  BY <2>1, <2>3
<1> QED  BY <1>2, <1>3 DEF ScanItem

(* What comes from outside, and Drain, leave the slots alone.              *)
LEMMA OutsideQuiet ==
  ASSUME LedgerInv, EnvStep \/ Drain \/ UNCHANGED vars
  PROVE  OneClient' /\ SlotLedger'
<1>1. UNCHANGED <<clients, inflight, pc, conn, bc, answerConn>>
  <2>1. CASE EnvStep
    BY <2>1 DEF EnvStep, ClientLeaves, Expire, SetStrategy, Rediscover, poolVars, routerVars,
       queueVars
  <2>2. CASE Drain
    BY <2>2 DEF Drain, poolVars, routerVars
  <2>3. CASE UNCHANGED vars
    BY <2>3 DEF vars, poolVars, routerVars, queueVars
  <2> QED  BY <2>1, <2>2, <2>3
<1>2. \A r \in Requests : answer'[r] = "conn" <=> answer[r] = "conn"
  <2>1. CASE EnvStep
    BY <2>1 DEF EnvStep, ClientLeaves, Expire, queueVars
  <2>2. CASE Drain
    BY <2>2 DEF Drain
  <2>3. CASE UNCHANGED vars
    BY <2>3 DEF vars, queueVars
  <2> QED  BY <2>1, <2>2, <2>3
<1>3. OneClient'
  BY <1>1 DEF LedgerInv, OneClient
<1>4. SlotLedger'
  BY <1>1, <1>2, QuietStep DEF LedgerInv
<1> QED  BY <1>3, <1>4

LEMMA StopQuiet ==
  ASSUME LedgerInv, Stop
  PROVE  OneClient' /\ SlotLedger'
<1>1. Worker \in Procs /\ UNCHANGED <<clients, inflight, conn, bc, answer, answerConn>>
  BY DEF Stop, Procs, poolVars
<1>2. CASE pc[Worker] = "select" /\ Goto(Worker, "stopped")
  BY <1>1, <1>2, MoveQuiet DEF HoldingPoints
<1>3. CASE UNCHANGED pc
  <2>1. OneClient'  BY <1>1, <1>3 DEF LedgerInv, OneClient
  <2>2. SlotLedger'  BY <1>1, <1>3, QuietStep DEF LedgerInv
  <2> QED  BY <2>1, <2>2
<1> QED  BY <1>2, <1>3 DEF Stop

LEMMA InitLedger == Init => LedgerInv
<1> SUFFICES ASSUME Init PROVE LedgerInv
  OBVIOUS
<1>1. OneClient
  BY DEF Init, PoolInit, RouterInit, OneClient
<1>2. ASSUME NEW u \in Servers
      PROVE  Inflight(u) = Cardinality(Holders(u)) + Cardinality(InChannels(u))
  <2>1. Holders(u) = {}
    BY DEF Init, RouterInit, Holders, HoldingPoints
  <2>2. InChannels(u) = {}
    BY DEF Init, QueueInit, InChannels
  <2>3. Inflight(u) = 0
    BY PoolAssumption DEF Init, PoolInit, Inflight, Generations
  <2> QED  BY <2>1, <2>2, <2>3, FS_EmptySet
<1> QED  BY <1>1, <1>2, InitType DEF LedgerInv, SlotLedger

LEMMA StepLedger ==
  ASSUME LedgerInv, [Next]_vars
  PROVE  LedgerInv'
<1>1. TypeInv'
  BY StepType DEF LedgerInv
<1> SUFFICES OneClient' /\ SlotLedger'
  BY <1>1 DEF LedgerInv
<1>2. ASSUME NEW r \in Requests, HandlerStep(r)
      PROVE  OneClient' /\ SlotLedger'
  <2>1. r \in Procs  BY DEF Procs
  <2> QED  BY <1>1, <1>2, <2>1, RouteStepLedger, HandlerQuiet, EnsureStartedQuiet,
              AnswerTakenLedger, ReleaseLookupQuiet, ReleaseDecLedger DEF HandlerStep
<1>3. CASE WorkerStep
  <2>1. pc[Worker] \in RoutePoints => Item \in Requests
    <3>1. queue \in Seq(Requests) /\ (pc[Worker] \in RoutePoints => cursor \in DOMAIN queue)
      BY DEF LedgerInv, TypeInv, TypeOK, Points
    <3> QED  BY <3>1 DEF Item
  <2> QED  BY <1>1, <1>3, <2>1, RouteStepLedger, PassQuiet, ScanItemQuiet, DeliverLedger
           DEF WorkerStep, Procs
<1>4. CASE EnvStep \/ UNCHANGED vars
  BY <1>4, OutsideQuiet
<1>5. CASE ShutdownStep
  BY <1>5, OutsideQuiet, StopQuiet DEF ShutdownStep
<1> QED  BY <1>2, <1>3, <1>4, <1>5 DEF Next, Serve

(* Acquire and Release balance on every path through the handler, route    *)
(* and the queue, whatever the number of servers and requests, as long as  *)
(* no administrator replaces a server: every inflight counter is the       *)
(* number of slots held or waiting in a result channel.                    *)
THEOREM Ledger == Spec => []SlotLedger
<1>1. LedgerInv /\ [Next]_vars => LedgerInv'
  BY StepLedger
<1>2. LedgerInv => SlotLedger
  BY DEF LedgerInv
<1> QED  BY <1>1, <1>2, InitLedger, PTL DEF Spec
=============================================================================
