-------------------------- MODULE CollectorProofs --------------------------
(***************************************************************************)
(* Theorems about Collector, for any number of servers, any list of URLs   *)
(* and any sets given to SetServers.                                       *)
(***************************************************************************)
EXTENDS MCCollector, TLAPS

(* The maps are functions on the servers; the URLs to be fetched are some  *)
(* of those Start was given.                                               *)
Shapes ==
  /\ data \in [Servers -> ServerMetrics \cup {NoEntry}]
  /\ prev \in [Servers -> 0..MaxTokens \cup {NoEntry}]
  /\ todo \in Seq(UrlSet)

(* Metrics with tokens carry a time.                                       *)
Timed(m) == m.tokens > 0 => m.updated

(* The fetch in progress: a new result has no throughput yet, a result     *)
(* about to be published has its counter in c.prev.                        *)
InProgress ==
  /\ Timed(fetched)
  /\ at = "rate" => fetched.rate = "none" /\ ~fetched.negative
  /\ at = "store" => prev[Current] = fetched.tokens

CollectorInv == TypeOK /\ Shapes /\ InProgress

LEMMA UrlSetType == UrlSet \subseteq Servers /\ Urls \in Seq(UrlSet)
<1>1. Urls \in Seq(Servers)
  BY CollectorAssumption
<1> QED  BY <1>1 DEF UrlSet

LEMMA CurrentType ==
  ASSUME CollectorInv, todo # <<>>
  PROVE  Current \in UrlSet /\ Current \in Servers /\ Tail(todo) \in Seq(UrlSet)
<1>1. todo \in Seq(UrlSet)
  BY DEF CollectorInv, Shapes
<1> QED  BY <1>1, UrlSetType DEF Current

LEMMA MetricsTyped ==
  ASSUME NEW n \in 0..MaxTokens
  PROVE  Metrics(n) \in ServerMetrics /\ Timed(Metrics(n)) /\ Metrics(n).tokens = n
BY CollectorAssumption DEF Metrics, ServerMetrics, Timed, Rates

LEMMA ZeroTyped ==
  /\ Zero \in ServerMetrics /\ Timed(Zero) /\ Zero # NoEntry
  /\ ~Zero.updated /\ Zero.tokens = 0 /\ Zero.rate = "none" /\ ~Zero.negative
<1>1. 0 \in 0..MaxTokens /\ NoEntry \notin ServerMetrics
  BY CollectorAssumption
<1>2. Zero \in ServerMetrics
  BY <1>1 DEF Zero, ServerMetrics, Rates
<1>3. Zero.tokens = 0 /\ Zero.rate = "none"
  BY DEF Zero
<1>4. Zero.updated = FALSE /\ Zero.negative = FALSE
  BY Zenon DEF Zero
<1>5. Timed(Zero)
  BY <1>3 DEF Timed
<1> QED  BY <1>1, <1>2, <1>3, <1>4, <1>5

(* The value parsePrometheus finds: the counter, or zero without one.      *)
LEMMA ParsedValue ==
  ASSUME TypeOK, NEW u \in Servers, NEW body \in Bodies(u)
  PROVE  parsePrometheus(body) \in {0, counter[u]}
<1>1. counter[u] \in Nat /\ counter[u] # Bad
  BY CollectorAssumption DEF TypeOK
<1> DEFINE good == {i \in DOMAIN body : body[i].name = "tokens" /\ body[i].value # Bad}
<1>2. CASE body = <<Line("other", 0)>>
  <2>1. good = {}
    BY <1>2 DEF Line
  <2> QED  BY <2>1 DEF parsePrometheus
<1>3. CASE body = <<Line("other", Bad), Line("tokens", counter[u])>>
  <2>1. good = {2} /\ body[2].value = counter[u]
    BY <1>1, <1>3 DEF Line
  <2>2. (CHOOSE i \in good : \A j \in good : j <= i) = 2
    BY <2>1
  <2> QED  BY <2>1, <2>2 DEF parsePrometheus
<1>4. CASE body = <<Line("tokens", counter[u]), Line("tokens", Bad)>>
  <2>1. good = {1} /\ body[1].value = counter[u]
    BY <1>1, <1>4 DEF Line
  <2>2. (CHOOSE i \in good : \A j \in good : j <= i) = 1
    BY <2>1
  <2> QED  BY <2>1, <2>2 DEF parsePrometheus
<1> QED  BY <1>2, <1>3, <1>4 DEF Bodies

LEMMA AnswersTyped ==
  ASSUME TypeOK, NEW u \in Servers, NEW m \in Answers(u)
  PROVE  /\ m \in ServerMetrics /\ Timed(m) /\ m.rate = "none" /\ ~m.negative
         /\ m = Zero \/ m.tokens \in {0, counter[u]}
<1>1. CASE m = Zero
  BY <1>1, ZeroTyped
<1>2. ASSUME NEW body \in Bodies(u), m = Metrics(parsePrometheus(body))
      PROVE  /\ m \in ServerMetrics /\ Timed(m) /\ m.rate = "none" /\ ~m.negative
             /\ m = Zero \/ m.tokens \in {0, counter[u]}
  <2>1. parsePrometheus(body) \in {0, counter[u]}
    BY ParsedValue
  <2>2. parsePrometheus(body) \in 0..MaxTokens
    BY <2>1, CollectorAssumption DEF TypeOK
  <2> QED  BY <1>2, <2>1, <2>2, MetricsTyped DEF Metrics
<1> QED  BY <1>1, <1>2 DEF Answers

-----------------------------------------------------------------------------
(* The steps.                                                              *)

LEMMA InitCollector == Init => CollectorInv
<1> SUFFICES ASSUME Init PROVE CollectorInv
  OBVIOUS
<1>1. 0 \in 0..MaxTokens /\ Urls \in Seq(Servers)
  BY CollectorAssumption
<1>2. TypeOK
  <2>1. \A u \in Servers : data[u] # NoEntry => data[u] = Zero
    BY DEF Init
  <2> QED  BY <1>1, <2>1, ZeroTyped DEF Init, TypeOK
<1>3. Shapes
  BY ZeroTyped, UrlSetType DEF Init, Shapes
<1>4. InProgress
  BY ZeroTyped DEF Init, InProgress
<1> QED  BY <1>2, <1>3, <1>4 DEF CollectorInv

(* The steps that leave the maps and the fetch in progress alone.          *)
LEMMA OutsideCollector ==
  ASSUME CollectorInv,
         Stop \/ Signal \/ Exit \/ (\E u \in UrlSet : BackendCounts(u)) \/ UNCHANGED vars
  PROVE  CollectorInv'
<1>1. UNCHANGED <<data, prev, todo, fetched>> /\ (at' = at \/ at' = "exited")
  BY DEF Stop, Signal, Exit, BackendCounts, vars
<1>2. counter' \in [Servers -> 0..MaxTokens]
  BY UrlSetType DEF Stop, Signal, Exit, BackendCounts, vars, CollectorInv, TypeOK
<1>3. {listening', stopping', canceled'} \subseteq BOOLEAN
  BY DEF Stop, Signal, Exit, BackendCounts, vars, CollectorInv, TypeOK
<1>4. TypeOK'
  BY <1>1, <1>2, <1>3 DEF CollectorInv, TypeOK
<1>5. Shapes' /\ InProgress'
  <2>1. UNCHANGED at \/ (at = "select" /\ at' = "exited")
    BY DEF Stop, Signal, Exit, BackendCounts, vars
  <2> QED  BY <1>1, <2>1 DEF CollectorInv, Shapes, InProgress, Current
<1> QED  BY <1>4, <1>5 DEF CollectorInv

(* The steps of the loop between two URLs.                                 *)
LEMMA LoopCollector ==
  ASSUME CollectorInv, Tick \/ PassEnds \/ FetchFails
  PROVE  CollectorInv'
<1>1. /\ UNCHANGED <<data, prev, fetched, stopping, canceled, counter>>
      /\ at \in {"select", "loop"} /\ at' \in {"select", "loop"}
      /\ listening' \in BOOLEAN
  BY DEF Tick, PassEnds, FetchFails, CollectorInv, TypeOK
<1>2. todo' \in Seq(UrlSet) /\ todo' \in Seq(Servers)
  <2>1. todo' = Urls \/ todo' = <<>> \/ (todo # <<>> /\ todo' = Tail(todo))
    BY DEF Tick, PassEnds, FetchFails
  <2>2. todo' \in Seq(UrlSet)
    <3>1. <<>> \in Seq(UrlSet)
      OBVIOUS
    <3> QED  BY <2>1, <3>1, CurrentType, UrlSetType
  <2> QED  BY <2>2, UrlSetType
<1>3. TypeOK'
  BY <1>1, <1>2 DEF CollectorInv, TypeOK
<1>4. Shapes' /\ InProgress'
  BY <1>1, <1>2 DEF CollectorInv, Shapes, InProgress
<1> QED  BY <1>3, <1>4 DEF CollectorInv

LEMMA FetchReturnsCollector ==
  ASSUME CollectorInv, FetchReturns
  PROVE  CollectorInv'
<1>1. /\ UNCHANGED <<data, prev, todo, listening, stopping, canceled, counter>>
      /\ at = "loop" /\ at' = "rate" /\ todo # <<>>
  BY DEF FetchReturns
<1>2. /\ fetched' \in ServerMetrics /\ Timed(fetched')
      /\ fetched'.rate = "none" /\ ~fetched'.negative
  <2>1. Current \in Servers /\ fetched' \in Answers(Current) /\ TypeOK
    BY <1>1, CurrentType DEF FetchReturns, CollectorInv
  <2> QED  BY <2>1, AnswersTyped
<1>3. TypeOK'
  BY <1>1, <1>2 DEF CollectorInv, TypeOK
<1>4. Shapes' /\ InProgress'
  BY <1>1, <1>2 DEF CollectorInv, Shapes, InProgress, Timed
<1> QED  BY <1>3, <1>4 DEF CollectorInv

LEMMA ComputeRateCollector ==
  ASSUME CollectorInv, ComputeRate
  PROVE  CollectorInv'
<1> DEFINE u == Current
<1>0. /\ at = "rate" /\ todo # <<>>
      /\ UNCHANGED <<data, todo, listening, stopping, canceled, counter>>
  BY DEF ComputeRate, CollectorInv, TypeOK
<1>1. /\ u \in Servers /\ u' = u
      /\ fetched \in ServerMetrics /\ Timed(fetched) /\ fetched.rate = "none"
      /\ data \in [Servers -> ServerMetrics \cup {NoEntry}]
      /\ prev \in [Servers -> 0..MaxTokens \cup {NoEntry}]
  BY <1>0, CurrentType DEF CollectorInv, TypeOK, Shapes, InProgress, Current
<1>2. CASE at' = "panic" /\ UNCHANGED <<prev, fetched>>
  <2>1. TypeOK'
    BY <1>0, <1>2 DEF CollectorInv, TypeOK
  <2>2. Shapes' /\ InProgress'
    BY <1>0, <1>2 DEF CollectorInv, Shapes, InProgress
  <2> QED  BY <2>1, <2>2 DEF CollectorInv
<1>3. CASE /\ at' = "store" /\ prev' = [prev EXCEPT ![u] = fetched.tokens]
           /\ \/ fetched' = fetched
              \/ /\ prev[u] # NoEntry /\ data[u] # NoEntry /\ HasRate(prev[u], fetched)
                 /\ fetched' = [fetched EXCEPT
                                  !.rate = IF data[u].updated THEN "interval" ELSE "epoch",
                                  !.negative = fetched.tokens < prev[u]]
  <2>1. /\ fetched' \in ServerMetrics /\ fetched'.tokens = fetched.tokens
        /\ fetched'.updated = fetched.updated
    <3> DEFINE rate == IF data[u].updated THEN "interval" ELSE "epoch"
               negative == fetched.tokens < prev[u]
    <3>1. rate \in Rates /\ negative \in BOOLEAN
      BY DEF Rates
    <3>2. fetched' = fetched \/ fetched' = [fetched EXCEPT !.rate = rate, !.negative = negative]
      BY <1>3
    <3> HIDE DEF rate, negative
    <3> QED  BY <1>1, <3>1, <3>2 DEF ServerMetrics
  <2>3. fetched.tokens \in 0..MaxTokens /\ fetched.tokens # NoEntry
    BY <1>1, CollectorAssumption DEF ServerMetrics
  <2>4. \A v \in Servers : prev'[v] = IF v = u THEN fetched.tokens ELSE prev[v]
    BY <1>1, <1>3
  <2> HIDE DEF u
  <2>5. TypeOK'
    BY <1>0, <1>1, <1>3, <2>1, <2>3, <2>4 DEF CollectorInv, TypeOK
  <2>6. Shapes'
    BY <1>0, <1>1, <1>3, <2>3 DEF CollectorInv, Shapes
  <2>7. InProgress'
    BY <1>1, <1>3, <2>1, <2>4 DEF InProgress, Timed, u
  <2> QED  BY <2>5, <2>6, <2>7 DEF CollectorInv
<1>4. \/ at' = "panic" /\ UNCHANGED <<prev, fetched>>
      \/ /\ at' = "store" /\ prev' = [prev EXCEPT ![u] = fetched.tokens]
         /\ \/ fetched' = fetched
            \/ /\ prev[u] # NoEntry /\ data[u] # NoEntry /\ HasRate(prev[u], fetched)
               /\ fetched' = [fetched EXCEPT
                                !.rate = IF data[u].updated THEN "interval" ELSE "epoch",
                                !.negative = fetched.tokens < prev[u]]
  BY DEF ComputeRate
<1> QED  BY <1>2, <1>3, <1>4

LEMMA StoreMetricsCollector ==
  ASSUME CollectorInv, StoreMetrics
  PROVE  CollectorInv'
<1> DEFINE u == Current
<1>1. /\ at = "store" /\ at' = "loop" /\ todo # <<>> /\ todo' = Tail(todo) /\ fetched' = Zero
      /\ UNCHANGED <<prev, listening, stopping, canceled, counter>>
      /\ data' = [data EXCEPT ![u] = fetched]
  BY DEF StoreMetrics, CollectorInv, TypeOK
<1>2. /\ u \in Servers /\ fetched \in ServerMetrics /\ fetched # NoEntry
      /\ data \in [Servers -> ServerMetrics \cup {NoEntry}]
      /\ Tail(todo) \in Seq(UrlSet) /\ Tail(todo) \in Seq(Servers)
  BY <1>1, CurrentType, UrlSetType, CollectorAssumption DEF CollectorInv, TypeOK, Shapes
<1>3. \A v \in Servers : data'[v] = IF v = u THEN fetched ELSE data[v]
  BY <1>1, <1>2
<1>4. TypeOK'
  BY <1>1, <1>2, <1>3, ZeroTyped DEF CollectorInv, TypeOK
<1>5. Shapes' /\ InProgress'
  BY <1>1, <1>2, ZeroTyped DEF CollectorInv, Shapes, InProgress
<1> QED  BY <1>4, <1>5 DEF CollectorInv

LEMMA SetServersCollector ==
  ASSUME CollectorInv, NEW us \in ServerSets, SetServers(us)
  PROVE  CollectorInv'
<1>1. /\ UNCHANGED <<prev, at, todo, fetched, listening, stopping, canceled, counter>>
      /\ \A u \in Servers : data'[u] = IF u \notin us THEN NoEntry
                                       ELSE IF data[u] = NoEntry THEN Zero ELSE data[u]
  BY DEF SetServers
<1>2. data' \in [Servers -> ServerMetrics \cup {NoEntry}]
  BY ZeroTyped DEF SetServers, CollectorInv, Shapes
<1>4. TypeOK'
  BY <1>1, <1>2 DEF CollectorInv, TypeOK
<1>5. Shapes' /\ InProgress'
  BY <1>1, <1>2 DEF CollectorInv, Shapes, InProgress, Current
<1> QED  BY <1>4, <1>5 DEF CollectorInv

LEMMA StepCollector ==
  ASSUME CollectorInv, [Next]_vars
  PROVE  CollectorInv'
BY OutsideCollector, LoopCollector, FetchReturnsCollector, ComputeRateCollector,
   StoreMetricsCollector, SetServersCollector DEF Next, FetchStep

-----------------------------------------------------------------------------
(* The two maps.                                                           *)

(* What holds of a server whose entry was not deleted, or was stored since *)
(* by a fetch: its tokens come with a time, and they are those in c.prev   *)
(* except between the two writes.                                          *)
Agrees(u) ==
  /\ data[u] # NoEntry /\ Timed(data[u])
  /\ prev[u] # NoEntry /\ ~(at = "store" /\ Current = u) => prev[u] = data[u].tokens

AgreeInv == CollectorInv /\ \A u \in UrlSet \ dropped : Agrees(u)

LEMMA InitAgree == HistoryInit => AgreeInv
<1> SUFFICES ASSUME HistoryInit PROVE AgreeInv
  OBVIOUS
<1>1. Init
  BY DEF HistoryInit
<1>2. ASSUME NEW u \in UrlSet
      PROVE  Agrees(u)
  <2>1. u \in Servers /\ data[u] = Zero /\ prev[u] = NoEntry
    BY <1>1, UrlSetType DEF Init
  <2> QED  BY <2>1, ZeroTyped DEF Agrees
<1> QED  BY <1>1, <1>2, InitCollector DEF AgreeInv

(* Steps that keep the server's entry.                                     *)
LEMMA QuietAgrees ==
  ASSUME NEW u, Agrees(u), data'[u] = data[u], UNCHANGED prev,
         \/ UNCHANGED <<at, todo>>
         \/ at # "store" /\ at' # "store"
  PROVE  Agrees(u)'
BY DEF Agrees, Current

LEMMA ComputeRateAgrees ==
  ASSUME CollectorInv, ComputeRate, NEW u \in UrlSet, Agrees(u)
  PROVE  Agrees(u)'
<1>1. /\ UNCHANGED <<data, todo>> /\ at = "rate" /\ at' \in {"store", "panic"}
      /\ Current' = Current /\ u \in Servers
  BY UrlSetType DEF ComputeRate, Current
<1>2. prev \in [Servers -> 0..MaxTokens \cup {NoEntry}]
  BY DEF CollectorInv, Shapes
<1>3. CASE at' = "panic"
  <2>1. UNCHANGED prev
    BY <1>1, <1>3 DEF ComputeRate
  <2> QED  BY <1>1, <1>3, <2>1 DEF Agrees
<1>4. CASE at' = "store" /\ Current # u
  <2>1. prev'[u] = prev[u]
    BY <1>1, <1>2, <1>4 DEF ComputeRate
  <2> QED  BY <1>1, <1>4, <2>1 DEF Agrees
<1>5. CASE at' = "store" /\ Current = u
  BY <1>1, <1>5 DEF Agrees
<1> QED  BY <1>1, <1>3, <1>4, <1>5

(* Storing an entry makes the two agree, also when it had been deleted.    *)
LEMMA StoreMetricsAgrees ==
  ASSUME CollectorInv, StoreMetrics, NEW u \in UrlSet, Current = u \/ Agrees(u)
  PROVE  Agrees(u)'
<1>1. /\ UNCHANGED prev /\ at = "store" /\ at' = "loop"
      /\ u \in Servers /\ data \in [Servers -> ServerMetrics \cup {NoEntry}]
      /\ data' = [data EXCEPT ![Current] = fetched]
  BY UrlSetType DEF StoreMetrics, CollectorInv, Shapes
<1>2. data'[u] = IF Current = u THEN fetched ELSE data[u]
  BY <1>1
<1>3. /\ fetched # NoEntry /\ Timed(fetched) /\ prev[Current] = fetched.tokens
  BY <1>1, CollectorAssumption DEF CollectorInv, TypeOK, InProgress
<1>4. CASE Current = u
  BY <1>1, <1>2, <1>3, <1>4 DEF Agrees, Timed
<1>5. CASE Current # u
  BY <1>1, <1>2, <1>5 DEF Agrees, Timed
<1> QED  BY <1>4, <1>5

LEMMA StepAgree ==
  ASSUME AgreeInv, [HistoryNext]_<<vars, historyVars>>
  PROVE  AgreeInv'
<1>1. [Next]_vars
  BY DEF HistoryNext
<1>2. CollectorInv /\ CollectorInv'
  BY <1>1, StepCollector DEF AgreeInv
<1>3. ASSUME NEW u \in UrlSet, u \notin dropped'
      PROVE  Agrees(u)'
  <2>1. CASE UNCHANGED <<vars, historyVars>>
    <3>1. Agrees(u) /\ UNCHANGED <<data, prev, at, todo>>
      BY <1>3, <2>1 DEF AgreeInv, vars, historyVars
    <3> QED  BY <3>1, QuietAgrees
  <2>2. CASE HistoryNext
    <3>0. u \in Servers /\ ((Agrees(u) /\ data'[u] # NoEntry) \/ Stored(u))
      BY <1>3, <2>2, UrlSetType DEF HistoryNext, AgreeInv
    <3>1. CASE \/ Stop \/ Signal \/ Exit \/ Tick \/ PassEnds \/ FetchFails \/ FetchReturns
               \/ \E v \in UrlSet : BackendCounts(v)
      <4>1. /\ UNCHANGED <<data, prev>>
            /\ UNCHANGED <<at, todo>> \/ (at # "store" /\ at' # "store")
        BY <3>1 DEF Stop, Signal, Exit, Tick, PassEnds, FetchFails, FetchReturns, BackendCounts
      <4>2. Agrees(u)
        BY <3>0, <4>1 DEF Stored
      <4> QED  BY <4>1, <4>2, QuietAgrees
    <3>2. CASE ComputeRate
      <4>1. Agrees(u)
        BY <3>0, <3>2 DEF ComputeRate, Stored
      <4> QED  BY <1>2, <3>2, <4>1, ComputeRateAgrees
    <3>3. CASE StoreMetrics
      <4>1. Current = u \/ Agrees(u)
        BY <3>0 DEF Stored
      <4> QED  BY <1>2, <3>3, <4>1, StoreMetricsAgrees
    <3>4. ASSUME NEW us \in ServerSets, SetServers(us)
          PROVE  Agrees(u)'
      <4>1. UNCHANGED <<at, todo, prev>>
        BY <3>4 DEF SetServers
      <4>2. Agrees(u) /\ data'[u] # NoEntry
        BY <3>0, <4>1 DEF Stored
      <4>3. data'[u] = data[u]
        BY <3>0, <3>4, <4>2 DEF SetServers, Agrees
      <4> QED  BY <4>1, <4>2, <4>3, QuietAgrees
    <3> QED  BY <2>2, <3>1, <3>2, <3>3, <3>4 DEF HistoryNext, Next, FetchStep
  <2> QED  BY <2>1, <2>2
<1> QED  BY <1>2, <1>3 DEF AgreeInv

(* A rate since the zero time is computed from a counter that has no entry *)
(* with a time beside it.                                                  *)
LEMMA EpochOnlyDropped ==
  ASSUME AgreeInv, Next, at = "rate", fetched'.rate = "epoch"
  PROVE  Current \in dropped
<1>0. /\ todo # <<>> /\ fetched \in ServerMetrics /\ fetched.rate = "none"
      /\ prev \in [Servers -> 0..MaxTokens \cup {NoEntry}]
  BY DEF AgreeInv, CollectorInv, TypeOK, Shapes, InProgress
<1>1. Current \in UrlSet /\ Current \in Servers
  BY <1>0, CurrentType DEF AgreeInv
<1>2. ComputeRate /\ fetched' # fetched
  <2>1. fetched' # fetched
    BY <1>0
  <2>2. ~(Tick \/ PassEnds \/ FetchFails \/ FetchReturns \/ StoreMetrics \/ Exit)
    BY DEF Tick, PassEnds, FetchFails, FetchReturns, StoreMetrics, Exit
  <2>3. Stop \/ Signal \/ (\E us \in ServerSets : SetServers(us)) \/ (\E u \in UrlSet : BackendCounts(u))
          => fetched' = fetched
    BY DEF Stop, Signal, SetServers, BackendCounts
  <2> QED  BY <2>1, <2>2, <2>3 DEF Next, FetchStep
<1> DEFINE u == Current
<1>3. /\ prev[u] # NoEntry /\ data[u] # NoEntry /\ HasRate(prev[u], fetched)
      /\ fetched' = [fetched EXCEPT
                       !.rate = IF data[u].updated THEN "interval" ELSE "epoch",
                       !.negative = fetched.tokens < prev[u]]
  BY <1>2 DEF ComputeRate
<1>4. ~data[u].updated
  BY <1>0, <1>3 DEF ServerMetrics
<1>5. prev[u] \in Nat /\ prev[u] > 0
  BY <1>0, <1>1, <1>3, CollectorAssumption DEF HasRate
<1> SUFFICES ASSUME u \notin dropped PROVE FALSE
  OBVIOUS
<1>6. Agrees(u)
  BY <1>1 DEF AgreeInv
<1>7. prev[u] = data[u].tokens /\ Timed(data[u])
  BY <1>3, <1>6 DEF Agrees
<1> QED  BY <1>4, <1>5, <1>7 DEF Timed

-----------------------------------------------------------------------------
(* Counters that are never taken back.                                     *)

(* What the collector knows of a backend that has only ever counted up and *)
(* left its counter out of no answer.                                      *)
Counted(u) ==
  /\ prev[u] # NoEntry => prev[u] <= counter[u]
  /\ data[u] # NoEntry => ~data[u].negative
  /\ at = "rate" /\ Current = u =>
       /\ fetched.tokens <= counter[u]
       /\ fetched.updated /\ prev[u] # NoEntry => prev[u] <= fetched.tokens
  /\ at = "store" /\ Current = u => ~fetched.negative

HistoryInv == CollectorInv /\ \A u \in UrlSet \ lapsed : Counted(u)

(* A step that leaves the fetch in progress alone, or ends it.             *)
LEMMA QuietCounted ==
  ASSUME CollectorInv, NEW u \in UrlSet, Counted(u), counter'[u] >= counter[u],
         counter'[u] \in Nat, UNCHANGED prev,
         data'[u] # NoEntry => data'[u] = Zero \/ (data[u] # NoEntry /\ data'[u] = data[u]),
         \/ UNCHANGED <<at, todo, fetched>>
         \/ at' \notin {"rate", "store"}
  PROVE  Counted(u)'
<1>1. /\ prev[u] # NoEntry => prev[u] \in Nat
      /\ counter[u] \in Nat /\ fetched.tokens \in Nat
  BY UrlSetType DEF CollectorInv, TypeOK, ServerMetrics
<1>2. (data[u] # NoEntry => ~data[u].negative)'
  BY ZeroTyped DEF Counted
<1>3. (prev[u] # NoEntry => prev[u] <= counter[u])'
  BY <1>1 DEF Counted
<1>4. CASE UNCHANGED <<at, todo, fetched>>
  BY <1>1, <1>2, <1>3, <1>4 DEF Counted, Current
<1>5. CASE at' \notin {"rate", "store"}
  BY <1>2, <1>3, <1>5 DEF Counted
<1> QED  BY <1>4, <1>5

LEMMA FetchReturnsCounted ==
  ASSUME CollectorInv, FetchReturns, NEW u \in UrlSet, Counted(u), ~LeavesOut(u)
  PROVE  Counted(u)'
<1>1. /\ UNCHANGED <<data, prev, todo, counter>> /\ at = "loop" /\ at' = "rate" /\ todo # <<>>
      /\ Current' = Current
  BY DEF FetchReturns, Current
<1>2. CASE Current # u
  BY <1>1, <1>2 DEF Counted
<1>3. CASE Current = u
  <2>1. /\ prev[u] # NoEntry => prev[u] \in Nat
        /\ counter[u] \in Nat /\ u \in Servers
    BY UrlSetType DEF CollectorInv, TypeOK
  <2>2. fetched' = Zero \/ fetched'.tokens \in {0, counter[u]}
    BY <1>3, <2>1, AnswersTyped DEF FetchReturns, CollectorInv
  <2>3. fetched'.tokens \in {0, counter[u]}
    BY <2>2, ZeroTyped
  <2>4. fetched'.updated => fetched'.tokens = counter[u]
    BY <1>1, <1>3, <2>1, <2>3 DEF LeavesOut
  <2> QED  BY <1>1, <1>3, <2>1, <2>3, <2>4 DEF Counted
<1> QED  BY <1>2, <1>3

LEMMA ComputeRateCounted ==
  ASSUME CollectorInv, ComputeRate, NEW u \in UrlSet, Counted(u)
  PROVE  Counted(u)'
<1>1. /\ UNCHANGED <<data, todo, counter>> /\ at = "rate" /\ at' \in {"store", "panic"}
      /\ Current' = Current /\ u \in Servers
  BY UrlSetType DEF ComputeRate, Current
<1>2. /\ prev \in [Servers -> 0..MaxTokens \cup {NoEntry}]
      /\ prev[u] # NoEntry => prev[u] \in Nat
      /\ fetched.tokens \in Nat /\ counter[u] \in Nat
      /\ fetched \in ServerMetrics /\ fetched.negative = FALSE
  BY <1>1 DEF CollectorInv, TypeOK, Shapes, InProgress, ServerMetrics
<1>3. CASE at' = "panic"
  <2>1. UNCHANGED prev
    BY <1>1, <1>3 DEF ComputeRate
  <2> QED  BY <1>1, <1>3, <2>1 DEF Counted
<1>4. CASE at' = "store" /\ Current # u
  <2>1. prev'[u] = prev[u]
    BY <1>1, <1>2, <1>4 DEF ComputeRate
  <2> QED  BY <1>1, <1>4, <2>1 DEF Counted
<1>5. CASE at' = "store" /\ Current = u
  <2>1. prev' = [prev EXCEPT ![u] = fetched.tokens]
    BY <1>5 DEF ComputeRate
  <2>2. prev'[u] = fetched.tokens /\ fetched.tokens <= counter[u]
    BY <1>1, <1>2, <1>5, <2>1 DEF Counted
  <2>3. \/ fetched' = fetched
        \/ /\ prev[u] # NoEntry /\ HasRate(prev[u], fetched)
           /\ fetched'.negative = (fetched.tokens < prev[u])
    BY <1>2, <1>5 DEF ComputeRate, ServerMetrics
  <2>4. HasRate(prev[u], fetched) /\ prev[u] # NoEntry => ~(fetched.tokens < prev[u])
    BY <1>1, <1>2, <1>5 DEF Counted, HasRate
  <2>5. ~fetched'.negative
    BY <1>2, <2>3, <2>4
  <2> QED  BY <1>1, <1>5, <2>2, <2>5 DEF Counted
<1> QED  BY <1>1, <1>3, <1>4, <1>5

LEMMA StoreMetricsCounted ==
  ASSUME CollectorInv, StoreMetrics, NEW u \in UrlSet, Counted(u)
  PROVE  Counted(u)'
<1>1. /\ UNCHANGED <<prev, counter>> /\ at = "store" /\ at' = "loop"
      /\ u \in Servers /\ data \in [Servers -> ServerMetrics \cup {NoEntry}]
      /\ data' = [data EXCEPT ![Current] = fetched]
  BY UrlSetType DEF StoreMetrics, CollectorInv, Shapes
<1>2. data'[u] = IF Current = u THEN fetched ELSE data[u]
  BY <1>1
<1> QED  BY <1>1, <1>2 DEF Counted

LEMMA StepHistory ==
  ASSUME HistoryInv, [HistoryNext]_<<vars, historyVars>>
  PROVE  HistoryInv'
<1>1. [Next]_vars
  BY DEF HistoryNext
<1>2. CollectorInv /\ CollectorInv'
  BY <1>1, StepCollector DEF HistoryInv
<1>3. ASSUME NEW u \in UrlSet, u \notin lapsed'
      PROVE  Counted(u)'
  <2>1. /\ u \in Servers /\ counter[u] \in Nat /\ counter'[u] \in Nat
        /\ counter \in [Servers -> 0..MaxTokens]
    BY <1>2, UrlSetType DEF CollectorInv, TypeOK
  <2>2. Counted(u) /\ counter'[u] >= counter[u]
    <3>1. CASE HistoryNext
      <4>1. u \notin lapsed /\ ~(counter'[u] < counter[u])
        BY <1>3, <3>1 DEF HistoryNext
      <4> QED  BY <2>1, <4>1 DEF HistoryInv
    <3>2. CASE UNCHANGED <<vars, historyVars>>
      BY <1>3, <2>1, <3>2 DEF HistoryInv, vars, historyVars
    <3> QED  BY <3>1, <3>2
  <2>3. FetchReturns => ~LeavesOut(u)
    <3>1. HistoryNext => ~LeavesOut(u)
      BY <1>3 DEF HistoryNext
    <3>2. FetchReturns => HistoryNext
      BY DEF FetchReturns, vars
    <3> QED  BY <3>1, <3>2
  <2>4. CASE \/ Stop \/ Signal \/ Exit \/ UNCHANGED vars
             \/ \E v \in UrlSet : BackendCounts(v)
    <3>1. /\ UNCHANGED <<data, prev>>
          /\ UNCHANGED <<at, todo, fetched>> \/ at' = "exited"
      BY <2>4 DEF Stop, Signal, Exit, BackendCounts, vars
    <3> QED  BY <1>2, <2>1, <2>2, <3>1, QuietCounted
  <2>5. CASE Tick \/ PassEnds \/ FetchFails
    <3>1. UNCHANGED <<data, prev>> /\ at' \notin {"rate", "store"}
      BY <2>5 DEF Tick, PassEnds, FetchFails
    <3> QED  BY <1>2, <2>1, <2>2, <3>1, QuietCounted
  <2>6. ASSUME NEW us \in ServerSets, SetServers(us)
        PROVE  Counted(u)'
    <3>1. UNCHANGED <<at, todo, fetched, prev>>
      BY <2>6 DEF SetServers
    <3>2. data'[u] # NoEntry => data'[u] = Zero \/ (data[u] # NoEntry /\ data'[u] = data[u])
      BY <2>1, <2>6 DEF SetServers
    <3> QED  BY <1>2, <2>1, <2>2, <3>1, <3>2, QuietCounted
  <2> QED  BY <1>1, <1>2, <2>2, <2>3, <2>4, <2>5, <2>6, FetchReturnsCounted,
              ComputeRateCounted, StoreMetricsCounted DEF Next, FetchStep
<1> QED  BY <1>2, <1>3 DEF HistoryInv

LEMMA InitHistory == HistoryInit => HistoryInv
<1> SUFFICES ASSUME HistoryInit PROVE HistoryInv
  OBVIOUS
<1>1. Init
  BY DEF HistoryInit
<1>2. ASSUME NEW u \in UrlSet
      PROVE  Counted(u)
  <2>1. u \in Servers /\ data[u] = Zero /\ prev[u] = NoEntry /\ at = "loop"
    BY <1>1, UrlSetType DEF Init
  <2> QED  BY <2>1, ZeroTyped DEF Counted
<1> QED  BY <1>1, <1>2, InitCollector DEF HistoryInv

-----------------------------------------------------------------------------
(* The theorems.                                                           *)

(* The collector's maps and local variables keep their types, and a URL is *)
(* there at every point that uses one.                                     *)
THEOREM CollectorTypeCorrect == Spec => []TypeOK
<1>1. CollectorInv /\ [Next]_vars => CollectorInv'
  BY StepCollector
<1>2. CollectorInv => TypeOK
  BY DEF CollectorInv
<1> QED  BY <1>1, <1>2, InitCollector, PTL DEF Spec

(* A throughput over the time since year 1 is computed only for a server   *)
(* whose entry was deleted and made again since its last stored fetch,     *)
(* whatever backends answer and whenever SetServers comes.                 *)
THEOREM NoRateSinceZeroTime == HistorySpec => RateAfterSuccess
<1>1. AgreeInv /\ [HistoryNext]_<<vars, historyVars>> => AgreeInv'
  BY StepAgree
<1>2. AgreeInv /\ [HistoryNext]_<<vars, historyVars>> =>
        [at = "rate" /\ fetched'.rate = "epoch" => Current \in dropped]_<<vars, historyVars>>
  BY EpochOnlyDropped DEF HistoryNext
<1> QED  BY <1>1, <1>2, InitAgree, PTL DEF HistorySpec, RateAfterSuccess

(* c.prev and c.data, written under different locks at different moments,  *)
(* hold the same fetch's counter whenever a throughput may be computed,    *)
(* unless the entry was deleted and no fetch has stored one since.         *)
THEOREM PrevMatchesData == HistorySpec => []PrevIsPublished
<1>1. AgreeInv /\ [HistoryNext]_<<vars, historyVars>> => AgreeInv'
  BY StepAgree
<1>2. AgreeInv => PrevIsPublished
  BY DEF AgreeInv, Agrees, PrevIsPublished
<1> QED  BY <1>1, <1>2, InitAgree, PTL DEF HistorySpec

(* A negative throughput is the backend's doing: it counted back or left   *)
(* its counter out of an answer.  Failed fetches, other statuses and       *)
(* entries deleted and made again never cause one.                         *)
THEOREM NegativeOnlyForCause == HistorySpec => []NegativeForCause
<1>1. HistoryInv /\ [HistoryNext]_<<vars, historyVars>> => HistoryInv'
  BY StepHistory
<1>2. HistoryInv => NegativeForCause
  BY DEF HistoryInv, Counted, NegativeForCause
<1> QED  BY <1>1, <1>2, InitHistory, PTL DEF HistorySpec
=============================================================================
