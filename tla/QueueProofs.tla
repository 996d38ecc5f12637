---------------------------- MODULE QueueProofs ----------------------------
(***************************************************************************)
(* Theorems about the queue of Dispatch (src/router/queue.go), for any     *)
(* number of requests, while passes, cancellations, expiry, Drain and Stop *)
(* interleave and servers are replaced and removed.                        *)
(***************************************************************************)
EXTENDS DispatchProofs

NoRepeats(q) == \A i, j \in DOMAIN q : q[i] = q[j] => i = j

(* The points of a handler before enqueue puts its item into the queue,    *)
(* and those at which enqueue has not returned.                            *)
BeforeQueue == RoutePoints \cup {"idle", "ensure", "append"}
Waiting == {"notify", "wait"}
InEnqueue == Waiting \cup {"remove"}

(* A pass keeps items it has gone past, in the order of the queue; there   *)
(* is no trace of a pass while the mutex is free.                          *)
Kept ==
  /\ MuFree => cursor = 0 /\ remaining = <<>>
  /\ \A i \in DOMAIN remaining : \E k \in DOMAIN queue : k < cursor /\ queue[k] = remaining[i]
  /\ \A i, j \in DOMAIN remaining : i < j => Before(queue, remaining[i], remaining[j])

(* A request has had no item before it appends one.                        *)
NotYet == \A r \in Requests : pc[r] \in BeforeQueue => ~Queued(r) /\ answer[r] = "empty"

QueueInv == TypeInv /\ NoRepeats(queue) /\ Kept /\ NotYet /\ AnswerOnce /\ NobodyForgotten

-----------------------------------------------------------------------------
(* Steps that leave the queue and the channels alone.                      *)

LEMMA QueueQuiet ==
  ASSUME QueueInv, TypeInv', UNCHANGED <<queue, cursor, remaining, answer>>,
         MuFree' => MuFree,
         \A r \in Requests : /\ pc'[r] \in BeforeQueue => pc[r] \in BeforeQueue
                             /\ pc'[r] \in Waiting => pc[r] \in Waiting
                             /\ pc[r] \in InEnqueue => pc'[r] \in InEnqueue
  PROVE  QueueInv'
<1>1. \A r \in Requests : (Pending(r)' <=> Pending(r)) /\ (Queued(r)' <=> Queued(r))
  BY DEF Pending, Queued
<1>2. NoRepeats(queue)'
  BY DEF QueueInv
<1>3. Kept'
  BY DEF QueueInv, Kept, Before
<1>4. NotYet'
  BY <1>1 DEF QueueInv, NotYet
<1>5. AnswerOnce' /\ NobodyForgotten'
  BY <1>1 DEF QueueInv, AnswerOnce, NobodyForgotten, InEnqueue, Waiting
<1> QED  BY <1>2, <1>3, <1>4, <1>5 DEF QueueInv

(* Where a step of route takes the process that runs it.                   *)
LEMMA RouteMoves ==
  ASSUME TypeInv, NEW p \in Procs, NEW r, RouteStep(p, r)
  PROVE  /\ pc[p] \in RoutePoints
         /\ \A q \in Procs \ {p} : pc'[q] = pc[q]
         /\ pc'[p] \in RoutePoints \cup
              (IF p = Worker THEN {"failed", "deliver"} ELSE {"done", "ensure", "proxy"})
<1>0. pc \in [Procs -> RoutePoints \cup HandlerPoints \cup WorkerPoints]
  BY DEF TypeInv, TypeOK
<1>1. CASE RouteBegin(p, r) \/ Inspect(p) \/ LoadInflight(p)
  BY <1>0, <1>1 DEF RouteBegin, Inspect, LoadInflight, RouteFails, NextServer, Goto, RoutePoints
<1>2. CASE PickGroup(p, r) \/ AcquireLookup(p)
  <2>1. pc[p] = "try" /\ (UNCHANGED pc \/ Goto(p, "inc"))
    BY <1>2 DEF PickGroup, AcquireLookup
  <2> QED  BY <1>0, <2>1 DEF Goto, RoutePoints
<1>3. CASE AcquireAdd(p) \/ AcquireCheck(p, r)
  BY <1>0, <1>3 DEF AcquireAdd, AcquireCheck, Goto, RoutePoints
<1>4. CASE Fallback(p)
  <2>1. pc[p] = "try" /\ (UNCHANGED pc \/ RouteFails(p) \/ (Goto(p, "ensure") /\ p # Worker))
    BY <1>4 DEF Fallback
  <2> QED  BY <1>0, <2>1 DEF RouteFails, Goto, RoutePoints
<1> QED  BY <1>1, <1>2, <1>3, <1>4 DEF RouteStep

LEMMA HandlerRouteQueue ==
  ASSUME QueueInv, TypeInv', NEW r \in Requests, RouteStep(r, r), UNCHANGED queueVars
  PROVE  QueueInv'
<1>1. r \in Procs /\ r # Worker /\ Worker \in Procs /\ Requests \subseteq Procs
  BY RouterAssumption DEF Procs
<1>2. /\ pc[r] \in RoutePoints /\ \A q \in Procs \ {r} : pc'[q] = pc[q]
      /\ pc'[r] \in RoutePoints \cup {"done", "ensure", "proxy"}
  BY <1>1, RouteMoves DEF QueueInv
<1>3. UNCHANGED <<queue, cursor, remaining, answer>>
  BY DEF queueVars
<1>4. MuFree' => MuFree
  BY <1>1, <1>2 DEF MuFree
<1>5. ASSUME NEW s \in Requests
      PROVE  /\ pc'[s] \in BeforeQueue => pc[s] \in BeforeQueue
             /\ pc'[s] \in Waiting => pc[s] \in Waiting
             /\ pc[s] \in InEnqueue => pc'[s] \in InEnqueue
  BY <1>1, <1>2 DEF BeforeQueue, Waiting, InEnqueue, RoutePoints
<1> QED  BY <1>3, <1>4, <1>5, QueueQuiet

LEMMA WorkerRouteQueue ==
  ASSUME QueueInv, TypeInv', NEW r, RouteStep(Worker, r), UNCHANGED queueVars
  PROVE  QueueInv'
<1>1. Worker \in Procs /\ \A s \in Requests : s \in Procs \ {Worker}
  BY RouterAssumption DEF Procs
<1>2. /\ \A s \in Requests : pc'[s] = pc[s]
      /\ pc'[Worker] \in RoutePoints \cup {"failed", "deliver"}
  BY <1>1, RouteMoves DEF QueueInv
<1>3. UNCHANGED <<queue, cursor, remaining, answer>>
  BY DEF queueVars
<1>4. MuFree' => MuFree
  BY <1>2 DEF MuFree, RoutePoints, WorkerIdle
<1> QED  BY <1>2, <1>3, <1>4, QueueQuiet

(* A handler moves between two points on the same side of enqueue.         *)
LEMMA HandlerMoveQueue ==
  ASSUME QueueInv, TypeInv', NEW r \in Requests,
         \/ Arrive(r) \/ RejectBody(r) \/ EnsureStarted(r) \/ Notify(r) \/ CancelWait(r)
         \/ ProxyLookup(r) \/ UpstreamEnds(r) \/ ReleaseLookup(r) \/ ReleaseDec(r)
  PROVE  QueueInv'
<1>0. /\ r # Worker /\ r \in Procs /\ Worker \in Procs /\ Requests \subseteq Procs
      /\ pc \in [Procs -> RoutePoints \cup HandlerPoints \cup WorkerPoints]
  BY RouterAssumption DEF Procs, QueueInv, TypeInv, TypeOK
<1>1. UNCHANGED <<queue, cursor, remaining, answer>>
  BY DEF Arrive, RejectBody, EnsureStarted, Notify, CancelWait, ProxyLookup, UpstreamEnds,
     ReleaseLookup, ReleaseDec, queueVars
<1>2. CASE EnsureStarted(r)
  <2>1. /\ pc[r] = "ensure" /\ pc'[r] = "append" /\ MuFree
        /\ \A q \in Requests \ {r} : pc'[q] = pc[q]
    BY <1>0, <1>2, RouterAssumption DEF EnsureStarted
  <2>2. \A s \in Requests : /\ pc'[s] \in BeforeQueue => pc[s] \in BeforeQueue
                            /\ pc'[s] \in Waiting => pc[s] \in Waiting
                            /\ pc[s] \in InEnqueue => pc'[s] \in InEnqueue
    BY <2>1 DEF BeforeQueue, Waiting, InEnqueue
  <2> QED  BY <1>1, <2>1, <2>2, QueueQuiet
<1>3. ASSUME NEW l, Goto(r, l),
             \/ pc[r] = "idle" /\ l \in {"route", "done"}
             \/ pc[r] \in Waiting /\ l \in {"wait", "remove"}
             \/ pc[r] \in {"proxy", "upstream", "release", "dec"}
                /\ l \in {"upstream", "release", "dec", "done"}
      PROVE  QueueInv'
  <2>1. \A q \in Procs : pc'[q] = IF q = r THEN l ELSE pc[q]
    BY <1>0, <1>3 DEF Goto
  <2>2. MuFree' => MuFree
    BY <1>0, <2>1 DEF MuFree
  <2>3. ASSUME NEW s \in Requests
        PROVE  /\ pc'[s] \in BeforeQueue => pc[s] \in BeforeQueue
               /\ pc'[s] \in Waiting => pc[s] \in Waiting
               /\ pc[s] \in InEnqueue => pc'[s] \in InEnqueue
    BY <1>0, <1>3, <2>1 DEF BeforeQueue, Waiting, InEnqueue, RoutePoints
  <2> QED  BY <1>1, <2>2, <2>3, QueueQuiet
<1>4. CASE Arrive(r) \/ RejectBody(r)
  BY <1>3, <1>4 DEF Arrive, RejectBody
<1>5. CASE Notify(r) \/ CancelWait(r)
  BY <1>3, <1>5 DEF Notify, CancelWait, Waiting
<1>6. CASE ProxyLookup(r) \/ UpstreamEnds(r)
  BY <1>3, <1>6 DEF ProxyLookup, UpstreamEnds
<1>7. CASE ReleaseLookup(r) \/ ReleaseDec(r)
  BY <1>3, <1>7 DEF ReleaseLookup, ReleaseDec
<1> QED  BY <1>2, <1>4, <1>5, <1>6, <1>7

(* What comes from outside changes neither queue nor control points.       *)
LEMMA OutsideQueue ==
  ASSUME QueueInv, TypeInv', EnvStep \/ AdminStep \/ EmptyPass \/ UNCHANGED vars
  PROVE  QueueInv'
<1>1. UNCHANGED <<queue, cursor, remaining, answer, pc>>
  <2>1. CASE EnvStep
    BY <2>1 DEF EnvStep, ClientLeaves, Expire, SetStrategy, Rediscover, routerVars, queueVars
  <2>2. CASE AdminStep \/ EmptyPass
    BY <2>2 DEF AdminStep, EmptyPass, routerVars, queueVars
  <2>3. CASE UNCHANGED vars
    BY <2>3 DEF vars, routerVars, queueVars
  <2> QED  BY <2>1, <2>2, <2>3
<1>2. MuFree' => MuFree
  BY <1>1 DEF MuFree
<1> QED  BY <1>1, <1>2, QueueQuiet

LEMMA StopQueue ==
  ASSUME QueueInv, TypeInv', Stop
  PROVE  QueueInv'
<1>1. UNCHANGED <<queue, cursor, remaining, answer>>
  BY DEF Stop
<1>2. /\ \A s \in Requests : pc'[s] = pc[s]
      /\ MuFree' => MuFree
  BY RouterAssumption DEF Stop, Goto, MuFree, WorkerIdle, QueueInv, TypeInv, TypeOK, Procs
<1> QED  BY <1>1, <1>2, QueueQuiet

-----------------------------------------------------------------------------
(* Steps of enqueue that change the queue or a channel.                    *)

LEMMA AppendItemQueue ==
  ASSUME QueueInv, TypeInv', NEW r \in Requests, AppendItem(r)
  PROVE  QueueInv'
<1>1. /\ queue \in Seq(Requests) /\ queue' = Append(queue, r) /\ Len(queue) \in Nat
      /\ cursor = 0 /\ remaining = <<>> /\ UNCHANGED <<cursor, remaining, answer>>
      /\ pc[r] = "append"
  BY DEF QueueInv, TypeInv, TypeOK, Kept, AppendItem
<1>2. ~Queued(r) /\ answer[r] = "empty"
  BY <1>1 DEF QueueInv, NotYet, BeforeQueue
<1>3. \A q \in Procs : pc'[q] = IF q = r THEN "notify" ELSE pc[q]
  BY DEF AppendItem, Goto, QueueInv, TypeInv, TypeOK
<1>4. /\ DOMAIN queue = 1..Len(queue) /\ DOMAIN queue' = 1..(Len(queue) + 1)
      /\ \A i \in 1..Len(queue) : queue'[i] = queue[i]
      /\ queue'[Len(queue) + 1] = r
  BY <1>1, AppendProperties
<1>5. \A s \in Requests : /\ Queued(s)' <=> Queued(s) \/ s = r
                          /\ Pending(s) <=> Queued(s)
                          /\ Pending(s)' <=> Queued(s)'
  BY <1>1, <1>4 DEF Pending, Queued
<1>6. NoRepeats(queue)'
  BY <1>2, <1>4 DEF QueueInv, NoRepeats, Queued
<1>7. Kept'
  BY <1>1 DEF Kept
<1>8. NotYet'
  BY <1>3, <1>5, <1>1 DEF QueueInv, NotYet, BeforeQueue, RoutePoints, Procs
<1>9. AnswerOnce' /\ NobodyForgotten'
  BY <1>1, <1>2, <1>3, <1>5 DEF QueueInv, AnswerOnce, NobodyForgotten, Procs
<1> QED  BY <1>6, <1>7, <1>8, <1>9 DEF QueueInv

LEMMA AnswerTakenQueue ==
  ASSUME QueueInv, TypeInv', NEW r \in Requests, TakeAnswer(r) \/ CancelTake(r)
  PROVE  QueueInv'
<1>1. /\ pc[r] = "wait" /\ answer[r] # "empty"
      /\ answer' = [answer EXCEPT ![r] = "empty"]
      /\ UNCHANGED <<queue, cursor, remaining>>
      /\ \E l \in {"proxy", "release", "done"} : Goto(r, l)
  BY DEF TakeAnswer, CancelTake
<1>2. /\ r # Worker /\ \A q \in Procs \ {r} : pc'[q] = pc[q]
      /\ pc'[r] \in {"proxy", "release", "done"}
      /\ \A s \in Requests \ {r} : answer'[s] = answer[s]
  BY <1>1, RouterAssumption DEF Goto, QueueInv, TypeInv, TypeOK, Procs
<1>3. \A s \in Requests : (Pending(s)' <=> Pending(s)) /\ (Queued(s)' <=> Queued(s))
  BY <1>1 DEF Pending, Queued
<1>4. ~Pending(r)
  BY <1>1 DEF QueueInv, AnswerOnce
<1>5. NoRepeats(queue)'
  BY <1>1 DEF QueueInv
<1>6. Kept'
  BY <1>1, <1>2 DEF QueueInv, Kept, Before, MuFree, Procs
<1>7. NotYet'
  BY <1>2, <1>3 DEF QueueInv, NotYet, BeforeQueue, RoutePoints, Procs
<1>8. AnswerOnce' /\ NobodyForgotten'
  BY <1>2, <1>3, <1>4 DEF QueueInv, AnswerOnce, NobodyForgotten, Procs
<1> QED  BY <1>5, <1>6, <1>7, <1>8 DEF QueueInv

(* Removing an item keeps the others, in order.                            *)
LEMMA RemoveAtOrder ==
  ASSUME NEW S, NEW q \in Seq(S), NoRepeats(q), NEW i \in DOMAIN q
  PROVE  /\ NoRepeats(RemoveAt(q, i))
         /\ \A s : (\E k \in DOMAIN RemoveAt(q, i) : RemoveAt(q, i)[k] = s)
                     <=> (\E k \in DOMAIN q : q[k] = s) /\ s # q[i]
         /\ \A s, t : Before(RemoveAt(q, i), s, t) => Before(q, s, t)
<1> DEFINE w == RemoveAt(q, i)
           n == Len(q)
           at(k) == IF k < i THEN k ELSE k + 1
<1>1. /\ n \in Nat /\ DOMAIN q = 1..n /\ i \in 1..n /\ w \in Seq(S) /\ Len(w) = n - 1
      /\ \A j \in 1..(n - 1) : w[j] = IF j < i THEN q[j] ELSE q[j + 1]
  BY RemoveAtShape
<1>2. DOMAIN w = 1..(n - 1)
  BY <1>1
<1>3. \A j \in DOMAIN w : w[j] = q[at(j)] /\ at(j) \in DOMAIN q \ {i}
  BY <1>1, <1>2
<1>4. \A j, k \in DOMAIN w : (at(j) = at(k) => j = k) /\ (j < k => at(j) < at(k))
  BY <1>1, <1>2
<1>5. \A k \in DOMAIN q \ {i} : \E j \in DOMAIN w : at(j) = k
  <2> SUFFICES ASSUME NEW k \in DOMAIN q \ {i}
               PROVE  \E j \in DOMAIN w : at(j) = k
    OBVIOUS
  <2>1. CASE k < i
    BY <1>1, <1>2, <2>1
  <2>2. CASE k > i
    <3>1. k - 1 \in DOMAIN w /\ at(k - 1) = k
      BY <1>1, <1>2, <2>2
    <3> QED  BY <3>1
  <2> QED  BY <1>1, <2>1, <2>2
<1> HIDE DEF w, at, n
<1>6. NoRepeats(w)
  BY <1>3, <1>4 DEF NoRepeats
<1>7. \A s : (\E k \in DOMAIN w : w[k] = s) <=> (\E k \in DOMAIN q : q[k] = s) /\ s # q[i]
  BY <1>3, <1>5 DEF NoRepeats
<1>8. \A s, t : Before(w, s, t) => Before(q, s, t)
  BY <1>3, <1>4 DEF Before
<1> QED  BY <1>6, <1>7, <1>8 DEF w

(* Before is a strict order on a queue without repeats.                    *)
LEMMA BeforeOnce ==
  ASSUME NEW S, NEW q \in Seq(S), NoRepeats(q), NEW r, NEW s, Before(q, r, s)
  PROVE  r # s /\ ~Before(q, s, r)
<1>1. PICK i, j \in DOMAIN q : i < j /\ q[i] = r /\ q[j] = s
  BY DEF Before
<1>2. DOMAIN q \subseteq Nat
  OBVIOUS
<1> QED  BY <1>1, <1>2 DEF NoRepeats, Before

LEMMA RemoveItemQueue ==
  ASSUME QueueInv, TypeInv', NEW r \in Requests, RemoveItem(r)
  PROVE  QueueInv'
<1>1. /\ queue \in Seq(Requests) /\ NoRepeats(queue)
      /\ cursor = 0 /\ remaining = <<>> /\ UNCHANGED <<cursor, remaining, answer>>
      /\ pc[r] = "remove"
  BY DEF QueueInv, TypeInv, TypeOK, Kept, RemoveItem
<1>2. \A q \in Procs : pc'[q] = IF q = r THEN "done" ELSE pc[q]
  BY DEF RemoveItem, Goto, QueueInv, TypeInv, TypeOK
<1>3. /\ NoRepeats(queue)'
      /\ \A s \in Requests : Queued(s)' <=> Queued(s) /\ s # r
  <2>1. CASE ~Queued(r) /\ UNCHANGED queue
    BY <1>1, <2>1 DEF Queued
  <2>2. ASSUME NEW i \in DOMAIN queue, queue[i] = r, queue' = RemoveAt(queue, i)
        PROVE  /\ NoRepeats(queue)'
               /\ \A s \in Requests : Queued(s)' <=> Queued(s) /\ s # r
    <3>1. /\ NoRepeats(RemoveAt(queue, i))
          /\ \A s : (\E k \in DOMAIN RemoveAt(queue, i) : RemoveAt(queue, i)[k] = s)
                      <=> (\E k \in DOMAIN queue : queue[k] = s) /\ s # queue[i]
      <4>1. queue \in Seq(Requests) /\ NoRepeats(queue) /\ i \in DOMAIN queue
        BY <1>1
      <4> QED  BY <4>1, RemoveAtOrder
    <3>2. NoRepeats(queue)'
      BY <2>2, <3>1 DEF NoRepeats
    <3> QED  BY <2>2, <3>1, <3>2 DEF Queued
  <2> QED  BY <2>1, <2>2 DEF RemoveItem
<1>4. queue' \in Seq(Requests)
  BY DEF TypeInv, TypeOK
<1>5. \A s \in Requests : (Pending(s) <=> Queued(s)) /\ (Pending(s)' <=> Queued(s)')
  BY <1>1, <1>4 DEF Pending, Queued
<1>6. Kept'
  BY <1>1 DEF Kept
<1>7. NotYet'
  BY <1>1, <1>2, <1>3 DEF QueueInv, NotYet, BeforeQueue, RoutePoints, Procs
<1>8. AnswerOnce' /\ NobodyForgotten'
  BY <1>1, <1>2, <1>3, <1>5 DEF QueueInv, AnswerOnce, NobodyForgotten, Procs
<1> QED  BY <1>3, <1>6, <1>7, <1>8 DEF QueueInv

LEMMA DrainQueue ==
  ASSUME QueueInv, TypeInv', Drain
  PROVE  QueueInv'
<1>1. /\ queue \in Seq(Requests) /\ queue' = <<>> /\ UNCHANGED <<pc, cursor, remaining>>
      /\ cursor = 0 /\ remaining = <<>>
      /\ \A s \in Requests : answer'[s] = IF Queued(s) THEN "canceled" ELSE answer[s]
  BY DEF QueueInv, TypeInv, TypeOK, Kept, Drain, routerVars
<1>2. \A s \in Requests : /\ ~Queued(s)' /\ ~Pending(s)'
                          /\ Pending(s) <=> Queued(s)
  BY <1>1 DEF Pending, Queued
<1>3. NoRepeats(queue)' /\ Kept'
  BY <1>1 DEF NoRepeats, Kept
<1>4. NotYet'
  BY <1>1, <1>2 DEF QueueInv, NotYet
<1>5. AnswerOnce' /\ NobodyForgotten'
  BY <1>1, <1>2 DEF QueueInv, AnswerOnce, NobodyForgotten
<1> QED  BY <1>3, <1>4, <1>5 DEF QueueInv

-----------------------------------------------------------------------------
(* Steps of a pass.                                                        *)

LEMMA BeginPassQueue ==
  ASSUME QueueInv, TypeInv', NEW token \in BOOLEAN, BeginPass(token)
  PROVE  QueueInv'
<1>1. /\ queue \in Seq(Requests) /\ UNCHANGED <<queue, answer>>
      /\ cursor = 0 /\ remaining = <<>> /\ cursor' = 1 /\ remaining' = <<>>
  BY DEF QueueInv, TypeInv, TypeOK, Kept, BeginPass, MuFree, WorkerIdle
<1>2. pc'[Worker] = "scan" /\ \A s \in Requests : pc'[s] = pc[s]
  BY RouterAssumption DEF BeginPass, Goto, QueueInv, TypeInv, TypeOK, Procs
<1>3. \A s \in Requests : (Pending(s)' <=> Pending(s)) /\ (Queued(s)' <=> Queued(s))
  BY <1>1 DEF Pending, Queued
<1>4. NoRepeats(queue)' /\ Kept'
  BY <1>1, <1>2 DEF QueueInv, NoRepeats, Kept, MuFree, WorkerIdle
<1>5. NotYet' /\ AnswerOnce' /\ NobodyForgotten'
  BY <1>1, <1>2, <1>3 DEF QueueInv, NotYet, AnswerOnce, NobodyForgotten
<1> QED  BY <1>4, <1>5 DEF QueueInv

(* A pass answers the item it is at and goes on to the next one.           *)
LEMMA AnswerItemQueue ==
  ASSUME QueueInv, TypeInv', NEW a, a # "empty", cursor \in DOMAIN queue,
         answer' = [answer EXCEPT ![Item] = a],
         cursor' = cursor + 1, UNCHANGED <<queue, remaining>>,
         ~MuFree', \A s \in Requests : pc'[s] = pc[s]
  PROVE  QueueInv'
<1>1. /\ queue \in Seq(Requests) /\ cursor \in Nat /\ Item \in Requests
      /\ DOMAIN queue \subseteq Nat
  BY DEF QueueInv, TypeInv, TypeOK, Item
<1>2. \A s \in Requests : answer'[s] = IF s = Item THEN a ELSE answer[s]
  BY <1>1 DEF QueueInv, TypeInv, TypeOK
<1>3. ASSUME NEW s \in Requests
      PROVE  Pending(s)' <=> Pending(s) /\ s # Item
  <2>1. \A i \in DOMAIN remaining : remaining[i] # Item
    BY <1>1 DEF QueueInv, Kept, NoRepeats, Item
  <2>2. \A i \in DOMAIN queue : i >= cursor + 1 <=> i >= cursor /\ queue[i] # Item
    BY <1>1 DEF QueueInv, NoRepeats, Item
  <2> QED  BY <2>1, <2>2 DEF Pending
<1>4. Pending(Item)
  BY <1>1 DEF Pending, Item
<1>5. \A s \in Requests : Queued(s)' <=> Queued(s)
  BY DEF Queued
<1>6. NoRepeats(queue)'
  BY DEF QueueInv
<1>7. Kept'
  BY <1>1 DEF QueueInv, Kept, Before
<1>8. NotYet'
  <2>1. Queued(Item)
    BY DEF Queued, Item
  <2> QED  BY <1>1, <1>2, <1>5, <2>1 DEF QueueInv, NotYet
<1>9. AnswerOnce' /\ NobodyForgotten'
  BY <1>2, <1>3 DEF QueueInv, AnswerOnce, NobodyForgotten
<1> QED  BY <1>6, <1>7, <1>8, <1>9 DEF QueueInv

LEMMA ScanItemQueue ==
  ASSUME QueueInv, TypeInv', ScanItem
  PROVE  QueueInv'
<1>1. /\ queue \in Seq(Requests) /\ cursor \in Nat \ {0} /\ cursor <= Len(queue)
      /\ pc[Worker] = "scan" /\ UNCHANGED <<queue, remaining>>
  BY DEF QueueInv, TypeInv, TypeOK, Points, ScanItem
<1>2. cursor \in DOMAIN queue
  BY <1>1
<1>3. CASE Send(Item, "timeout", NoServer) /\ cursor' = cursor + 1 /\ UNCHANGED pc
  <2>1. ~MuFree'
    BY <1>1, <1>3 DEF MuFree, WorkerIdle
  <2> QED  BY <1>1, <1>2, <1>3, <2>1, AnswerItemQueue DEF Send
<1>4. CASE Goto(Worker, "route") /\ UNCHANGED <<answer, cursor>>
  <2>1. pc'[Worker] = "route" /\ \A s \in Requests : pc'[s] = pc[s]
    BY <1>4, RouterAssumption DEF Goto, QueueInv, TypeInv, TypeOK, Procs
  <2>2. MuFree' => MuFree
    BY <2>1 DEF MuFree, WorkerIdle
  <2> QED  BY <1>1, <1>4, <2>1, <2>2, QueueQuiet
<1> QED  BY <1>3, <1>4 DEF ScanItem

LEMMA DeliverQueue ==
  ASSUME QueueInv, TypeInv', Deliver
  PROVE  QueueInv'
<1>1. cursor \in DOMAIN queue /\ cursor' = cursor + 1 /\ UNCHANGED <<queue, remaining>>
  BY DEF Deliver, QueueInv, TypeInv, Points
<1>2. answer' = [answer EXCEPT ![Item] = "conn"]
  BY DEF Deliver, Send
<1>3. pc'[Worker] = "scan" /\ \A s \in Requests : pc'[s] = pc[s]
  BY RouterAssumption DEF Deliver, Goto, QueueInv, TypeInv, TypeOK, Procs
<1>4. ~MuFree'
  BY <1>3 DEF MuFree, WorkerIdle
<1> QED  BY <1>1, <1>2, <1>3, <1>4, AnswerItemQueue

LEMMA KeepItemQueue ==
  ASSUME QueueInv, TypeInv', KeepItem
  PROVE  QueueInv'
<1>1. /\ queue \in Seq(Requests) /\ remaining \in Seq(Requests)
      /\ cursor \in Nat /\ cursor \in DOMAIN queue /\ DOMAIN queue \subseteq Nat
      /\ cursor' = cursor + 1 /\ UNCHANGED <<queue, answer>>
      /\ remaining' = Append(remaining, Item) /\ Item \in Requests
  BY DEF KeepItem, QueueInv, TypeInv, TypeOK, Points, Item
<1>2. pc'[Worker] = "scan" /\ \A s \in Requests : pc'[s] = pc[s]
  BY RouterAssumption DEF KeepItem, Goto, QueueInv, TypeInv, TypeOK, Procs
<1> DEFINE n == Len(remaining)
<1>3. /\ n \in Nat /\ DOMAIN remaining = 1..n /\ DOMAIN remaining' = 1..(n + 1)
      /\ \A i \in 1..n : remaining'[i] = remaining[i]
      /\ remaining'[n + 1] = Item
  BY <1>1, AppendProperties
<1> HIDE DEF n
<1>4. ASSUME NEW s \in Requests
      PROVE  Pending(s)' <=> Pending(s)
  <2>1. \A i \in DOMAIN queue : i >= cursor <=> i = cursor \/ i >= cursor + 1
    BY <1>1
  <2>2. (\E i \in DOMAIN remaining' : remaining'[i] = s)
           <=> (\E i \in DOMAIN remaining : remaining[i] = s) \/ s = Item
    BY <1>3
  <2> QED  BY <1>1, <2>1, <2>2 DEF Pending, Item
<1>5. Kept'
  <2>1. ~MuFree'
    BY <1>2 DEF MuFree, WorkerIdle
  <2>2. ASSUME NEW i \in DOMAIN remaining'
        PROVE  \E k \in DOMAIN queue : k < cursor + 1 /\ queue[k] = remaining'[i]
    <3>1. CASE i = n + 1
      BY <1>1, <1>3, <3>1 DEF Item
    <3>2. CASE i \in 1..n
      BY <1>1, <1>3, <3>2 DEF QueueInv, Kept
    <3> QED  BY <1>3, <3>1, <3>2
  <2>3. ASSUME NEW i \in DOMAIN remaining', NEW j \in DOMAIN remaining', i < j
        PROVE  Before(queue, remaining'[i], remaining'[j])
    <3>1. CASE j = n + 1
      <4>1. i \in 1..n
        BY <1>3, <2>3, <3>1
      <4>2. PICK k \in DOMAIN queue : k < cursor /\ queue[k] = remaining[i]
        BY <1>3, <4>1 DEF QueueInv, Kept
      <4> QED  BY <1>1, <1>3, <3>1, <4>1, <4>2 DEF Before, Item
    <3>2. CASE j \in 1..n
      <4>1. i \in 1..n
        BY <1>3, <2>3, <3>2
      <4> QED  BY <1>3, <2>3, <3>2, <4>1 DEF QueueInv, Kept
    <3> QED  BY <1>3, <3>1, <3>2
  <2>4. queue' = queue /\ cursor' = cursor + 1
    BY <1>1
  <2>5. (\A i, j \in DOMAIN remaining : i < j => Before(queue, remaining[i], remaining[j]))'
    BY <2>3, <2>4 DEF Before
  <2>6. (\A i \in DOMAIN remaining : \E k \in DOMAIN queue : k < cursor /\ queue[k] = remaining[i])'
    BY <2>2, <2>4
  <2> QED  BY <2>1, <2>5, <2>6 DEF Kept
<1>6. NoRepeats(queue)' /\ \A s \in Requests : Queued(s)' <=> Queued(s)
  BY <1>1 DEF QueueInv, Queued
<1>7. NotYet' /\ AnswerOnce' /\ NobodyForgotten'
  BY <1>1, <1>2, <1>4, <1>6 DEF QueueInv, NotYet, AnswerOnce, NobodyForgotten
<1> QED  BY <1>5, <1>6, <1>7 DEF QueueInv

LEMMA EndPassQueue ==
  ASSUME QueueInv, TypeInv', EndPass
  PROVE  QueueInv'
<1>1. /\ queue \in Seq(Requests) /\ remaining \in Seq(Requests) /\ cursor \in Nat
      /\ Len(queue) \in Nat /\ cursor > Len(queue)
      /\ queue' = remaining /\ remaining' = <<>> /\ cursor' = 0 /\ UNCHANGED answer
  BY DEF EndPass, QueueInv, TypeInv, TypeOK
<1>2. \A s \in Requests : pc'[s] = pc[s]
  BY RouterAssumption DEF EndPass, Goto, QueueInv, TypeInv, TypeOK, Procs
<1>3. \A s \in Requests : /\ Pending(s)' <=> Queued(s)'
                          /\ Pending(s) <=> Queued(s)'
  BY <1>1 DEF Pending, Queued
<1>4. \A s \in Requests : Queued(s)' => Queued(s)
  BY <1>1 DEF Queued, QueueInv, Kept
<1>5. NoRepeats(queue)'
  <2> SUFFICES ASSUME NEW i \in DOMAIN remaining, NEW j \in DOMAIN remaining,
                      remaining[i] = remaining[j], i # j
               PROVE  FALSE
    BY <1>1 DEF NoRepeats
  <2>1. i < j \/ j < i
    BY <1>1
  <2>2. Before(queue, remaining[i], remaining[j]) \/ Before(queue, remaining[j], remaining[i])
    BY <2>1 DEF QueueInv, Kept
  <2> QED  BY <1>1, <2>2, BeforeOnce DEF QueueInv
<1>6. Kept'
  BY <1>1 DEF Kept
<1>7. NotYet' /\ AnswerOnce' /\ NobodyForgotten'
  BY <1>1, <1>2, <1>3, <1>4 DEF QueueInv, NotYet, AnswerOnce, NobodyForgotten
<1> QED  BY <1>5, <1>6, <1>7 DEF QueueInv

-----------------------------------------------------------------------------
(* The theorems.                                                           *)

LEMMA InitQueue == Init => QueueInv
<1> SUFFICES ASSUME Init PROVE QueueInv
  OBVIOUS
<1>1. queue = <<>> /\ remaining = <<>> /\ cursor = 0 /\ \A r \in Requests : answer[r] = "empty"
  BY DEF Init, QueueInit
<1>2. \A r \in Requests : pc[r] = "idle"
  BY RouterAssumption DEF Init, RouterInit, Procs
<1>3. NoRepeats(queue) /\ Kept /\ NotYet /\ AnswerOnce /\ NobodyForgotten
  BY <1>1, <1>2 DEF NoRepeats, Kept, NotYet, AnswerOnce, NobodyForgotten, Pending, Queued
<1> QED  BY <1>3, InitType DEF QueueInv

LEMMA StepQueue ==
  ASSUME QueueInv, [ReconfNext]_vars
  PROVE  QueueInv'
<1>1. TypeInv'
  BY StepType DEF QueueInv, ReconfNext
<1>2. ASSUME NEW r \in Requests, HandlerStep(r)
      PROVE  QueueInv'
  BY <1>1, <1>2, HandlerRouteQueue, HandlerMoveQueue, AppendItemQueue, AnswerTakenQueue,
     RemoveItemQueue DEF HandlerStep
<1>3. CASE WorkerStep
  BY <1>1, <1>3, WorkerRouteQueue, BeginPassQueue, OutsideQueue, ScanItemQueue, DeliverQueue,
     KeepItemQueue, EndPassQueue DEF WorkerStep
<1>4. CASE EnvStep \/ AdminStep \/ UNCHANGED vars
  BY <1>1, <1>4, OutsideQueue
<1>5. CASE ShutdownStep
  BY <1>1, <1>5, DrainQueue, StopQueue DEF ShutdownStep
<1> QED  BY <1>2, <1>3, <1>4, <1>5 DEF ReconfNext, Next, Serve

(* An item is answered at most once and only while its enqueue call waits, *)
(* so no send of processQueue or drain, made with qm.mu held, ever blocks, *)
(* for any number of requests and whatever happens to the pool.            *)
THEOREM AnsweredOnce == ReconfSpec => []AnswerOnce
<1>1. QueueInv /\ [ReconfNext]_vars => QueueInv'
  BY StepQueue
<1>2. QueueInv => AnswerOnce
  BY DEF QueueInv
<1> QED  BY <1>1, <1>2, InitQueue, PTL DEF ReconfSpec

(* While enqueue waits its item is in the queue, is kept by the running    *)
(* pass or has its answer: removals, expiry, passes and Drain lose nobody. *)
THEOREM NoneForgotten == ReconfSpec => []NobodyForgotten
<1>1. QueueInv /\ [ReconfNext]_vars => QueueInv'
  BY StepQueue
<1>2. QueueInv => NobodyForgotten
  BY DEF QueueInv
<1> QED  BY <1>1, <1>2, InitQueue, PTL DEF ReconfSpec

(* Items keep the order in which they came, through removals, passes and   *)
(* Drain: no step puts a later item in front of an earlier one.            *)
THEOREM OrderKept == ReconfSpec => ArrivalOrderKept
<1> DEFINE Order == \A r, s \in Requests : Before(queue, r, s) => ~Before(queue', s, r)
<1>1. ASSUME QueueInv, QueueInv', [ReconfNext]_vars
      PROVE  Order
  <2> SUFFICES ASSUME NEW r \in Requests, NEW s \in Requests,
                      Before(queue, r, s), Before(queue', s, r)
               PROVE  FALSE
    OBVIOUS
  <2>1. /\ queue \in Seq(Requests) /\ NoRepeats(queue)
        /\ queue' \in Seq(Requests) /\ NoRepeats(queue')
    BY <1>1 DEF QueueInv, TypeInv, TypeOK, NoRepeats
  <2>2. ~Before(queue, s, r) /\ ~Before(queue', r, s)
    BY <2>1, BeforeOnce
  <2>3. UNCHANGED queue \/ Drain \/ EndPass \/ \E t \in Requests : AppendItem(t) \/ RemoveItem(t)
    <3>1. ASSUME NEW t \in Requests, HandlerStep(t)
          PROVE  UNCHANGED queue \/ AppendItem(t) \/ RemoveItem(t)
      BY <3>1 DEF HandlerStep, Arrive, RejectBody, EnsureStarted, Notify, TakeAnswer, CancelTake,
         CancelWait, ProxyLookup, UpstreamEnds, ReleaseLookup, ReleaseDec, queueVars
    <3>2. CASE WorkerStep
      BY <3>2 DEF WorkerStep, BeginPass, EmptyPass, ScanItem, Deliver, KeepItem, queueVars
    <3>3. CASE EnvStep \/ AdminStep \/ UNCHANGED vars
      BY <3>3 DEF EnvStep, AdminStep, ClientLeaves, Expire, vars, queueVars
    <3>4. CASE ShutdownStep
      BY <3>4 DEF ShutdownStep, Stop
    <3> QED  BY <1>1, <3>1, <3>2, <3>3, <3>4 DEF ReconfNext, Next, Serve
  <2>4. CASE UNCHANGED queue
    BY <2>2, <2>4
  <2>5. CASE Drain
    <3>1. queue' = <<>>
      BY <2>5 DEF Drain
    <3> QED  BY <3>1 DEF Before
  <2>6. CASE EndPass
    <3>1. queue' = remaining /\ remaining \in Seq(Requests)
      BY <1>1, <2>6 DEF EndPass, QueueInv, TypeInv, TypeOK
    <3>2. PICK i, j \in DOMAIN remaining : i < j /\ remaining[i] = s /\ remaining[j] = r
      BY <3>1 DEF Before
    <3>3. Before(queue, s, r)
      BY <1>1, <3>2 DEF QueueInv, Kept
    <3> QED  BY <2>2, <3>3
  <2>7. ASSUME NEW t \in Requests, AppendItem(t)
        PROVE  FALSE
    <3>1. queue' = Append(queue, t)
      BY <2>7 DEF AppendItem
    <3>2. /\ DOMAIN queue \subseteq DOMAIN queue'
          /\ \A i \in DOMAIN queue : queue'[i] = queue[i]
      BY <2>1, <3>1, AppendProperties
    <3>3. Before(queue', r, s)
      BY <3>2 DEF Before
    <3> QED  BY <2>2, <3>3
  <2>8. ASSUME NEW t \in Requests, RemoveItem(t)
        PROVE  FALSE
    <3>1. UNCHANGED queue \/ \E i \in DOMAIN queue : queue' = RemoveAt(queue, i)
      BY <2>8 DEF RemoveItem
    <3>2. ASSUME NEW i \in DOMAIN queue, queue' = RemoveAt(queue, i)
          PROVE  Before(queue, s, r)
      <4>1. \A a, b : Before(RemoveAt(queue, i), a, b) => Before(queue, a, b)
        BY <2>1, RemoveAtOrder
      <4> QED  BY <3>2, <4>1
    <3> QED  BY <2>2, <2>4, <3>1, <3>2
  <2> QED  BY <2>3, <2>4, <2>5, <2>6, <2>7, <2>8
<1>2. QueueInv /\ [ReconfNext]_vars => QueueInv'
  BY StepQueue
<1>3. QueueInv /\ QueueInv' /\ [ReconfNext]_vars => [Order]_queue
  BY <1>1
<1> QED  BY <1>2, <1>3, InitQueue, PTL DEF ReconfSpec, ArrivalOrderKept
=============================================================================
