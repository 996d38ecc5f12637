------------------------------ MODULE Collector ------------------------------
(***************************************************************************)
(* metrics.Collector (src/metrics/metrics.go): a goroutine that fetches    *)
(* /metrics from the URLs given to Start and publishes the parsed values,  *)
(* with a throughput computed from the counters of the fetch before, while *)
(* the administration handlers change the set of entries (SetServers).     *)
(*                                                                         *)
(* One counter stands for the prompt and generation counters, which the    *)
(* code treats alike; the gauges beside them are left out.  Of UpdatedAt   *)
(* only whether it is set matters: a later time.Now() is later, and a set  *)
(* time minus the zero time is large.                                      *)
(***************************************************************************)
EXTENDS Sequences, Naturals, FiniteSets

CONSTANTS
  Servers,     \* the URLs that may be configured
  Urls,        \* the URLs Start is given, fixed for the goroutine's life
  ServerSets,  \* the sets of URLs SetServers may be given
  MaxTokens,   \* bound on the counters a backend reports
  NoEntry,     \* no entry in a map
  Bad          \* a value that is no number

(* How a published throughput came about: it was not computed, it is over  *)
(* the interval since the last successful fetch, or since the zero time.   *)
Rates == {"none", "interval", "epoch"}

ServerMetrics == [updated : BOOLEAN, tokens : 0..MaxTokens, rate : Rates,
                  negative : BOOLEAN]   \* whether the throughput is below zero

ASSUME CollectorAssumption ==
  /\ Urls \in Seq(Servers)
  /\ ServerSets \subseteq SUBSET Servers
  /\ MaxTokens \in Nat
  /\ NoEntry \notin Nat /\ NoEntry \notin ServerMetrics
  /\ Bad \notin Nat

VARIABLES
  data,       \* Collector.data
  prev,       \* Collector.prev: the counter of the last fetch
  at,         \* where fetchAll and Start's loop are
  todo,       \* the URLs left in this fetchAll, the one fetched first
  fetched,    \* m, the result of fetchOne
  listening,  \* whether the HTTP server, and so SetServers, is running
  stopping,   \* whether Stop closed stopCh
  canceled,   \* whether main's context is done: SIGTERM or SIGINT came
  counter     \* external: the tokens each backend has counted

vars == <<data, prev, at, todo, fetched, listening, stopping, canceled, counter>>

Metrics(tokens) == [updated |-> TRUE, tokens |-> tokens, rate |-> "none", negative |-> FALSE]

Zero == [updated |-> FALSE, tokens |-> 0, rate |-> "none", negative |-> FALSE]

UrlSet == {Urls[i] : i \in DOMAIN Urls}

(* Start has made an entry for each URL and begins the first fetchAll.     *)
Init ==
  /\ data = [u \in Servers |-> IF u \in UrlSet THEN Zero ELSE NoEntry]
  /\ prev = [u \in Servers |-> NoEntry]
  /\ at = "loop"
  /\ todo = Urls
  /\ fetched = Zero
  /\ listening = FALSE
  /\ stopping = FALSE
  /\ canceled = FALSE
  /\ counter = [u \in Servers |-> 0]

Current == Head(todo)

(* The ticker fires.                                                       *)
Tick ==
  /\ at = "select"
  /\ at' = "loop"
  /\ todo' = Urls
  /\ UNCHANGED <<data, prev, fetched, listening, stopping, canceled, counter>>

(* fetchAll returns, early when the context is done; after the first one   *)
(* Start returns to main, which goes on to serve.                          *)
PassEnds ==
  /\ at = "loop"
  /\ todo = <<>> \/ canceled
  /\ at' = "select"
  /\ todo' = <<>>
  /\ listening' = TRUE
  /\ UNCHANGED <<data, prev, fetched, stopping, canceled, counter>>

(* fetchOne returns an error: nothing changes for this URL.                *)
FetchFails ==
  /\ at = "loop"
  /\ todo # <<>>
  /\ todo' = Tail(todo)
  /\ UNCHANGED <<data, prev, at, fetched, listening, stopping, canceled, counter>>

(* A line of a body names the counter or anything else (another metric, a  *)
(* comment, too few fields); its last field is the value.                  *)
Line(name, value) == [name |-> name, value |-> value]

(* The lines that are looked at: the counter with a value that parses.     *)
(* With several, one per set of labels, the last one counts.               *)
parsePrometheus(body) ==
  LET good == {i \in DOMAIN body : body[i].name = "tokens" /\ body[i].value # Bad} IN
  IF good = {} THEN 0
  ELSE body[CHOOSE i \in good : \A j \in good : j <= i].value

(* External: the bodies a backend may answer with.                         *)
Bodies(u) ==
  {<<Line("other", 0)>>,
   <<Line("other", Bad), Line("tokens", counter[u])>>,
   <<Line("tokens", counter[u]), Line("tokens", Bad)>>}

(* fetchOne: zero metrics for a status other than 200, without a time.     *)
Answers(u) == {Zero} \cup {Metrics(parsePrometheus(body)) : body \in Bodies(u)}

(* Mutant of FetchReturns: there may be no URL left.                       *)
FetchReturnsUnchecked ==
  /\ at = "loop"
  /\ ~canceled
  /\ fetched' \in UNION {Answers(u) : u \in UrlSet}
  /\ at' = "rate"
  /\ UNCHANGED <<data, prev, todo, listening, stopping, canceled, counter>>

(* fetchOne returns metrics.                                               *)
FetchReturns ==
  /\ at = "loop"
  /\ todo # <<>> /\ ~canceled
  /\ fetched' \in Answers(Current)
  /\ at' = "rate"
  /\ UNCHANGED <<data, prev, todo, listening, stopping, canceled, counter>>

(* Mutant of HasRate: a previous counter of zero is taken for a reading.   *)
HasRateAnyBase(base, m) == m.updated

(* Mutant of HasRate: the time between the fetches is not looked at.       *)
HasRateAnyTime(base, m) == base > 0

(* dt > 0 holds exactly when the new metrics carry a time.                 *)
HasRate(base, m) == m.updated /\ base > 0

(* The throughput, from c.prev[u] and, without c.mu, c.data[u].  With no   *)
(* entry c.data[u] is a nil pointer and the process dies.                  *)
ComputeRate ==
  /\ at = "rate"
  /\ LET u == Current IN
     \/ /\ prev[u] # NoEntry /\ data[u] = NoEntry
        /\ at' = "panic"
        /\ UNCHANGED <<prev, fetched>>
     \/ /\ prev[u] # NoEntry /\ data[u] # NoEntry
        /\ at' = "store"
        /\ prev' = [prev EXCEPT ![u] = fetched.tokens]
        /\ fetched' = IF HasRate(prev[u], fetched)
                      THEN [fetched EXCEPT
                              !.rate = IF data[u].updated THEN "interval" ELSE "epoch",
                              !.negative = fetched.tokens < prev[u]]
                      ELSE fetched
     \/ /\ prev[u] = NoEntry
        /\ at' = "store"
        /\ prev' = [prev EXCEPT ![u] = fetched.tokens]
        /\ UNCHANGED fetched
  /\ UNCHANGED <<data, todo, listening, stopping, canceled, counter>>

(* c.data[u] = m under c.mu.                                               *)
StoreMetrics ==
  /\ at = "store"
  /\ data' = [data EXCEPT ![Current] = fetched]
  /\ todo' = Tail(todo)
  /\ fetched' = Zero
  /\ at' = "loop"
  /\ UNCHANGED <<prev, listening, stopping, canceled, counter>>

(* Mutant of SetServers: every entry is made anew.                         *)
SetServersAnew(us) ==
  /\ listening
  /\ at # "panic"
  /\ data' = [u \in Servers |-> IF u \in us THEN Zero ELSE NoEntry]
  /\ UNCHANGED <<prev, at, todo, fetched, listening, stopping, canceled, counter>>

(* syncServers: entries are made for new URLs and stale ones are deleted.  *)
SetServers(us) ==
  /\ listening
  /\ at # "panic"
  /\ data' = [u \in Servers |-> IF u \notin us THEN NoEntry
                                ELSE IF data[u] = NoEntry THEN Zero ELSE data[u]]
  /\ UNCHANGED <<prev, at, todo, fetched, listening, stopping, canceled, counter>>

(* Stop closes stopCh and waits for the goroutine.                         *)
Stop ==
  /\ listening
  /\ at # "panic"
  /\ ~stopping
  /\ stopping' = TRUE
  /\ UNCHANGED <<data, prev, at, todo, fetched, listening, canceled, counter>>

(* Mutant of Exit: the loop does not look at stopCh.                       *)
ExitNever == FALSE /\ UNCHANGED vars

(* A signal ends main's context.                                           *)
Signal ==
  /\ at # "panic"
  /\ ~canceled
  /\ canceled' = TRUE
  /\ UNCHANGED <<data, prev, at, todo, fetched, listening, stopping, counter>>

(* case <-ctx.Done(), case <-c.stopCh; fetchAll does not look at stopCh.   *)
Exit ==
  /\ at = "select"
  /\ stopping \/ canceled
  /\ at' = "exited"
  /\ UNCHANGED <<data, prev, todo, fetched, listening, stopping, canceled, counter>>

(* External: a backend generates tokens, or restarts and counts from zero. *)
BackendCounts(u) ==
  /\ \E n \in {0, counter[u] + 1} \cap 0..MaxTokens : counter' = [counter EXCEPT ![u] = n]
  /\ UNCHANGED <<data, prev, at, todo, fetched, listening, stopping, canceled>>

FetchStep ==
  Tick \/ PassEnds \/ FetchFails \/ FetchReturns \/ ComputeRate \/ StoreMetrics

Next ==
  \/ FetchStep \/ Exit \/ Stop \/ Signal
  \/ \E us \in ServerSets : SetServers(us)
  \/ \E u \in UrlSet : BackendCounts(u)

Spec == Init /\ [][Next]_vars

(* Whether fetches fail is up to the backends, that they end is not; a     *)
(* select that finds stopCh closed again and again takes it.               *)
Fairness == WF_vars(FetchStep) /\ SF_vars(Exit)

-----------------------------------------------------------------------------
(* Every variable has its type; a URL is being fetched at the points that  *)
(* use one.                                                                *)
TypeOK ==
  /\ \A u \in Servers : data[u] # NoEntry => data[u] \in ServerMetrics
  /\ \A u \in Servers : prev[u] # NoEntry => prev[u] \in 0..MaxTokens
  /\ at \in {"select", "loop", "rate", "store", "panic", "exited"}
  /\ todo \in Seq(Servers)
  /\ at \in {"rate", "store"} => todo # <<>>
  /\ fetched \in ServerMetrics
  /\ {listening, stopping, canceled} \subseteq BOOLEAN
  /\ counter \in [Servers -> 0..MaxTokens]

(* The goroutine ends on a signal and on Stop, which waits for it although *)
(* fetchAll runs to its end first.                                         *)
StopReturns == stopping \/ canceled ~> at \in {"exited", "panic"}

(* metrics.go: the collector runs until it is stopped.                     *)
CollectorRuns == at # "panic"
=============================================================================
