---------------------------- MODULE AdminProofs ----------------------------
(***************************************************************************)
(* Theorems about Admin, for any number of administration requests, any    *)
(* servers, settings and environment, and any number of crashes.           *)
(***************************************************************************)
EXTENDS MCAdmin, SequenceTheorems, WellFoundedInduction, TLAPS

Files == [servers : Seq(ServerConfig), global : GlobalConfig]

NoOp == [kind |-> "none"]

Local ==
  [op : Ops \cup {NoOp}, cfg : Config, idx : Nat, updated : ServerConfig \cup {NoServer},
   data : Files \cup {Missing}, urls : Seq(Urls)]

(* The control points before a handler makes its array, those where it     *)
(* still has its request, and all.                                         *)
Early == {"new", "get", "scan", "append", "write", "shift"}
WithOp == {"get", "scan", "append", "write", "shift", "set", "commit", "save", "remove"}
Points == Early \cup WithOp \cup {"sync", "pool", "disc", "metrics", "done"}

Arrays == [Requests \cup {Boot} -> Seq(ServerConfig \cup {NoServer})]

(* A slice shows servers only, none of append's spare room.                *)
SliceIn(hp, c) ==
  /\ c.len <= Len(hp[c.array])
  /\ \A i \in 1..c.len : hp[c.array][i] \in ServerConfig

(* What a handler at point l promises about its local variables.           *)
Promise(l, r) ==
  /\ l \in WithOp => r.op \in Ops
  /\ l \in {"get", "scan"} => r.op.kind # "put"
  /\ l \in {"scan", "pool"} => r.idx >= 1
  /\ l = "append" => r.op.kind = "add"
  /\ l \in {"write", "shift"} => r.idx \in 1..r.cfg.len
  /\ l = "write" => r.updated \in ServerConfig
  /\ l = "save" => r.data \in Files
  /\ l = "remove" => r.op.kind \in {"update", "delete"}

Shapes ==
  /\ pc \in [Requests -> Points]
  /\ local \in [Requests -> Local]

Slices == SliceIn(heap, store) /\ \A h \in Requests : SliceIn(heap, cfg(h))

(* The array a handler may still make is in nobody's slice.                *)
Unshared ==
  \A h \in Requests : pc[h] \in Early =>
    store.array # h /\ \A g \in Requests : cfg(g).array # h

Promises == \A h \in Requests : Promise(pc[h], local[h])

Locked == \A h \in Requests : pc[h] \in {"commit", "save"} <=> mu = h

TypeInv == TypeOK /\ Shapes /\ Slices /\ Unshared /\ Promises /\ Locked

-----------------------------------------------------------------------------
(* The constants.                                                          *)

LEMMA Names ==
  Boot \notin Requests /\ NoOne \notin Requests /\ NoClient \notin ServerConfig
BY AdminAssumption

LEMMA FileNames == Missing # Truncated /\ Missing \notin Files /\ Truncated \notin Files
BY AdminAssumption DEF Files

LEMMA ServerUrl == \A sc \in ServerConfig : sc.url \in Urls
BY DEF ServerConfig

LEMMA OpTypes ==
  ASSUME NEW o \in Ops
  PROVE  /\ o.kind \in {"put", "add", "update", "delete"}
         /\ o.kind = "put" => o.servers \in Seq(ServerConfig) /\ o.global \in GlobalConfig
         /\ o.kind = "add" => o.fields \in ServerConfig
         /\ o.kind \in {"update", "delete"} => o.id \in Urls
         /\ o.kind = "update" => \A sc \in ServerConfig : o.fields @@ sc \in ServerConfig
<1>1. Globals \subseteq GlobalConfig
  BY AdminAssumption
<1>2. \/ o.kind = "put" /\ o.servers \in Seq(ServerConfig) /\ o.global \in Globals
      \/ o.kind = "add" /\ o.id = o.fields.url /\ o.fields \in ServerConfig
      \/ o.kind = "delete" /\ o.id \in Urls
      \/ /\ o.kind = "update" /\ o.id \in Urls
         /\ \A sc \in ServerConfig : o.fields @@ sc \in ServerConfig
  BY AdminAssumption
<1> QED  BY <1>1, <1>2

LEMMA EnvTypes ==
  /\ Env["strategy"] = Unset \/ Env["strategy"] \in {"error", "best_effort", "queue", "other"}
  /\ Env["timeout"] = Unset \/ Env["timeout"] \in Int
  /\ Env["output"] = Unset \/ Env["output"] \in Int
<1>1. \A k \in {"strategy", "timeout", "output"} :
        Env[k] = Unset \/ \E x \in GlobalConfig : x[k] = Env[k]
  BY AdminAssumption
<1> QED  BY <1>1 DEF GlobalConfig

LEMMA GlobalTypes ==
  ASSUME NEW g \in GlobalConfig
  PROVE  /\ DefaultGlobal \in GlobalConfig
         /\ Normalised(g) \in GlobalConfig
         /\ applyEnvOverrides(g) \in GlobalConfig
<1>1. ASSUME NEW x \in GlobalConfig
      PROVE  Normalised(x) \in GlobalConfig
  BY DEF Normalised, GlobalConfig, DefaultGlobal, ValidStrategy
<1>2. [k \in DOMAIN g |-> IF Env[k] = Unset THEN g[k] ELSE Env[k]] \in GlobalConfig
  BY EnvTypes DEF GlobalConfig
<1>3. DefaultGlobal \in GlobalConfig
  BY DEF DefaultGlobal, GlobalConfig
<1> QED  BY <1>1, <1>2, <1>3 DEF applyEnvOverrides

(* Load's defaults make no difference before the environment's settings,   *)
(* and applying those again changes nothing.                               *)
LEMMA EnvAbsorbs ==
  ASSUME NEW g \in GlobalConfig
  PROVE  /\ applyEnvOverrides(Normalised(g)) = applyEnvOverrides(g)
         /\ applyEnvOverrides(applyEnvOverrides(g)) = applyEnvOverrides(g)
<1> DEFINE ns(s) == IF ValidStrategy(s) THEN s ELSE DefaultGlobal.strategy
           nt(t) == IF t <= 0 THEN DefaultGlobal.timeout ELSE t
           no(t) == IF t <= 0 THEN DefaultGlobal.output ELSE t
           over(k, v) == IF Env[k] = Unset THEN v ELSE Env[k]
<1>1. \A x \in GlobalConfig :
        Normalised(x) = [strategy |-> ns(x.strategy), timeout |-> nt(x.timeout), output |-> no(x.output)]
  BY DEF Normalised
<1>2. \A x \in GlobalConfig :
        applyEnvOverrides(x) =
          [strategy |-> ns(over("strategy", x.strategy)),
           timeout |-> nt(over("timeout", x.timeout)), output |-> no(over("output", x.output))]
  BY DEF applyEnvOverrides, Normalised, GlobalConfig
<1>3. \A s : ns(ns(s)) = ns(s)
  BY DEF ValidStrategy, DefaultGlobal
<1>4. \A t \in Int : nt(nt(t)) = nt(t) /\ no(no(t)) = no(t)
  BY DEF DefaultGlobal
<1>5. Normalised(g) \in GlobalConfig /\ applyEnvOverrides(g) \in GlobalConfig
  BY GlobalTypes
<1>6. /\ Normalised(g).strategy = ns(g.strategy)
      /\ Normalised(g).timeout = nt(g.timeout)
      /\ Normalised(g).output = no(g.output)
      /\ applyEnvOverrides(g).strategy = ns(over("strategy", g.strategy))
      /\ applyEnvOverrides(g).timeout = nt(over("timeout", g.timeout))
      /\ applyEnvOverrides(g).output = no(over("output", g.output))
  BY <1>1, <1>2
<1>7. /\ g.timeout \in Int /\ over("timeout", g.timeout) \in Int
      /\ g.output \in Int /\ over("output", g.output) \in Int
  BY EnvTypes DEF GlobalConfig
<1> HIDE DEF ns, nt, no
<1> QED  BY <1>2, <1>3, <1>4, <1>5, <1>6, <1>7

(* What Load makes of a file is a configuration.                           *)
LEMMA LoadedType ==
  ASSUME NEW f, f \in Files \/ f = Missing \/ f = Truncated
  PROVE  /\ Loaded(f) \in Files
         /\ f \in Files => Loaded(f) = [servers |-> f.servers,
                                        global |-> applyEnvOverrides(f.global)]
         /\ f = Truncated => Loaded(f) = [servers |-> <<>>, global |-> applyEnvOverrides(DefaultGlobal)]
         /\ f = Missing => Loaded(f) = [servers |-> <<>>, global |-> DefaultGlobal]
<1>1. DefaultGlobal \in GlobalConfig
  BY DEF DefaultGlobal, GlobalConfig
<1>2. applyEnvOverrides(DefaultGlobal) \in GlobalConfig
  BY <1>1, GlobalTypes
<1>3. CASE f \in Files
  <2>1. f.global \in GlobalConfig /\ f.servers \in Seq(ServerConfig)
    BY <1>3 DEF Files
  <2>2. Loaded(f) = [f EXCEPT !.global = applyEnvOverrides(Normalised(@))]
    BY <1>3, FileNames DEF Loaded
  <2>3. applyEnvOverrides(f.global) \in GlobalConfig
    BY <2>1, GlobalTypes
  <2>4. [f EXCEPT !.global = applyEnvOverrides(Normalised(@))] =
          [servers |-> f.servers, global |-> applyEnvOverrides(f.global)]
    BY <1>3, <2>1, EnvAbsorbs DEF Files
  <2> QED  BY <1>3, <2>1, <2>2, <2>3, <2>4, FileNames DEF Files
<1>4. CASE f = Missing
  BY <1>1, <1>4, FileNames DEF Loaded, Files
<1>5. CASE f = Truncated
  BY <1>2, <1>5, FileNames DEF Loaded, Files
<1> QED  BY <1>3, <1>4, <1>5

-----------------------------------------------------------------------------
(* Slices and what is made of them.                                        *)

LEMMA LeastNat ==
  ASSUME NEW S, S \subseteq Nat, S # {}
  PROVE  \E d \in S : \A e \in S : ~(e < d)
<1>1. PICK d \in S : \A e \in S : <<e, d>> \notin OpToRel(<, Nat)
  BY NatLessThanWellFounded, WFMin
<1> QED  BY <1>1 DEF OpToRel

(* Among some indices of a list there is a last one.                       *)
LEMMA LastIndex ==
  ASSUME NEW n \in Nat, NEW at, at \subseteq 1..n, at # {}
  PROVE  \E i \in at : \A j \in at : j <= i
<1> DEFINE S == {n - i : i \in at}
<1>1. S \subseteq Nat /\ S # {}
  <2>1. \A i \in at : n - i \in Nat
    OBVIOUS
  <2>2. PICK i \in at : TRUE
    OBVIOUS
  <2>3. n - i \in S
    OBVIOUS
  <2> QED  BY <2>1, <2>3
<1>2. PICK d \in S : \A e \in S : ~(e < d)
  <2> HIDE DEF S
  <2> QED  BY <1>1, LeastNat
<1>3. PICK i \in at : d = n - i
  OBVIOUS
<1>4. ASSUME NEW j \in at
      PROVE  j <= i
  <2>1. n - j \in S /\ i \in 1..n /\ j \in 1..n
    BY <1>3, <1>4
  <2> QED  BY <1>2, <1>3, <2>1
<1> QED  BY <1>4

(* Adding servers in turn leaves a client for each, with the configuration *)
(* of the last one with its URL.                                           *)
LEMMA ClientsMade ==
  ASSUME NEW servers \in Seq(ServerConfig)
  PROVE  /\ Clients(servers) \in [Urls -> ServerConfig \cup {NoClient}]
         /\ \A i \in DOMAIN servers : Clients(servers)[servers[i].url] \in ServerConfig
         /\ \A i \in DOMAIN servers :
              (\A j \in DOMAIN servers : servers[j].url = servers[i].url => j <= i)
                => Clients(servers)[servers[i].url] = servers[i]
<1> DEFINE at(u) == {i \in DOMAIN servers : servers[i].url = u}
           last(u) == CHOOSE i \in at(u) : \A j \in at(u) : j <= i
<1>1. Len(servers) \in Nat /\ DOMAIN servers = 1..Len(servers)
  OBVIOUS
<1>2. \A i \in DOMAIN servers : servers[i] \in ServerConfig /\ servers[i].url \in Urls
  BY <1>1, ServerUrl
<1>3. ASSUME NEW u \in Urls, at(u) # {}
      PROVE  last(u) \in at(u) /\ \A j \in at(u) : j <= last(u)
  <2>1. at(u) \subseteq 1..Len(servers)
    BY <1>1
  <2> HIDE DEF at
  <2>2. \E i \in at(u) : \A j \in at(u) : j <= i
    BY <1>1, <1>3, <2>1, LastIndex
  <2> QED  BY <2>2
<1>4. Clients(servers) = [u \in Urls |-> IF at(u) = {} THEN NoClient ELSE servers[last(u)]]
  BY DEF Clients
<1>5. \A u \in Urls : at(u) # {} => servers[last(u)] \in ServerConfig
  BY <1>2, <1>3
<1>6. \A i \in DOMAIN servers : i \in at(servers[i].url)
  OBVIOUS
<1>7. \A i \in DOMAIN servers : Clients(servers)[servers[i].url] = servers[last(servers[i].url)]
  <2> HIDE DEF at, last
  <2> QED  BY <1>2, <1>4, <1>6
<1>8. ASSUME NEW i \in DOMAIN servers,
             \A j \in DOMAIN servers : servers[j].url = servers[i].url => j <= i
      PROVE  last(servers[i].url) = i
  <2>1. /\ last(servers[i].url) \in DOMAIN servers
        /\ servers[last(servers[i].url)].url = servers[i].url
        /\ i <= last(servers[i].url)
    <3>1. at(servers[i].url) # {} /\ servers[i].url \in Urls
      BY <1>2, <1>6
    <3> QED  BY <1>3, <1>6, <3>1
  <2> HIDE DEF last
  <2> QED  BY <1>1, <1>8, <2>1
<1>9. \A i \in DOMAIN servers : at(servers[i].url) # {}
  BY <1>6
<1> HIDE DEF at, last
<1> QED  BY <1>2, <1>4, <1>5, <1>7, <1>8, <1>9

LEMMA UrlsTyped ==
  ASSUME NEW servers \in Seq(ServerConfig)
  PROVE  UrlsOf(servers) \in Seq(Urls)
<1>1. /\ Len(servers) \in Nat /\ DOMAIN servers = 1..Len(servers)
      /\ \A i \in DOMAIN servers : servers[i] \in ServerConfig
  OBVIOUS
<1>2. \A i \in 1..Len(servers) : servers[i].url \in Urls
  BY <1>1, ServerUrl
<1> QED  BY <1>1, <1>2 DEF UrlsOf

(* What a slice shows.                                                     *)
LEMMA Shown ==
  ASSUME NEW hp \in Arrays, NEW c \in Config, SliceIn(hp, c)
  PROVE  /\ SubSeq(hp[c.array], 1, c.len) \in Seq(ServerConfig)
         /\ Len(SubSeq(hp[c.array], 1, c.len)) = c.len
         /\ DOMAIN SubSeq(hp[c.array], 1, c.len) = 1..c.len
         /\ \A i \in 1..c.len : SubSeq(hp[c.array], 1, c.len)[i] = hp[c.array][i]
<1> DEFINE a == hp[c.array]
           s == SubSeq(a, 1, c.len)
<1>1. c.len \in Nat /\ 1 \in Int /\ c.len \in Int /\ c.len - 1 + 1 = c.len
  BY DEF Config
<1>2. \A i \in 1..c.len : a[i] \in ServerConfig
  BY DEF SliceIn
<1> HIDE DEF a
<1>3. /\ s \in Seq(ServerConfig)
      /\ Len(s) = IF 1 <= c.len THEN c.len - 1 + 1 ELSE 0
      /\ \A i \in 1..(c.len - 1 + 1) : s[i] = a[1 + i - 1]
  BY <1>1, <1>2, SubSeqProperties
<1>4. Len(s) = c.len
  BY <1>1, <1>3
<1>5. \A i \in 1..c.len : s[i] = a[i]
  BY <1>1, <1>3
<1> HIDE DEF s
<1>6. DOMAIN s = 1..c.len
  BY <1>3, <1>4
<1> QED  BY <1>3, <1>4, <1>5, <1>6 DEF a, s

-----------------------------------------------------------------------------
(* The steps of handlers.                                                  *)

LEMMA TypeFacts ==
  ASSUME TypeInv
  PROVE  /\ heap \in Arrays /\ store \in Config /\ SliceIn(heap, store)
         /\ mu \in Requests \cup {NoOne}
         /\ file = Truncated \/ file \in Files
         /\ pool \in [Urls -> ServerConfig \cup {NoClient}]
         /\ discServers \in Seq(Urls) /\ metricServers \in Seq(Urls)
         /\ restarts \in 0..MaxRestarts
         /\ pc \in [Requests -> Points] /\ local \in [Requests -> Local]
BY DEF TypeInv, TypeOK, Arrays, Files, Shapes, Slices

LEMMA HandlerFacts ==
  ASSUME TypeInv, NEW h \in Requests
  PROVE  /\ pc[h] \in Points /\ local[h] \in Local
         /\ cfg(h) \in Config /\ SliceIn(heap, cfg(h))
         /\ idx(h) \in Nat
         /\ local[h].op = op(h) /\ local[h].cfg = cfg(h) /\ local[h].idx = idx(h)
         /\ Promise(pc[h], local[h])
         /\ pc[h] \in {"commit", "save"} <=> mu = h
         /\ pc[h] \in Early => store.array # h /\ \A g \in Requests : cfg(g).array # h
<1>1. pc[h] \in Points /\ local[h] \in Local
  BY TypeFacts
<1>2. cfg(h) \in Config /\ idx(h) \in Nat
  BY <1>1 DEF Local, cfg, idx
<1> QED  BY <1>1, <1>2 DEF TypeInv, Slices, Promises, Locked, Unshared, cfg, idx, op

LEMMA FreshTyped ==
  /\ Fresh \in Local /\ Fresh.cfg \in Config
  /\ Fresh.cfg.array = Boot /\ Fresh.cfg.len = 0
<1>1. /\ DefaultGlobal \in GlobalConfig /\ 0 \in Nat
      /\ <<>> \in Seq(Urls) /\ Boot \in Requests \cup {Boot}
  BY DEF DefaultGlobal, GlobalConfig
<1>2. [array |-> Boot, len |-> 0, global |-> DefaultGlobal] \in Config
  BY <1>1 DEF Config
<1>3. Fresh.cfg = [array |-> Boot, len |-> 0, global |-> DefaultGlobal]
  BY DEF Fresh
<1>4. Fresh \in Local
  BY <1>1, <1>2 DEF Fresh, Local, NoOp
<1> QED  BY <1>2, <1>3, <1>4

(* A handler goes to l with the local variables r: what it must leave      *)
(* behind so that every promise holds again.                               *)
LEMMA HandlerStep ==
  ASSUME TypeInv, NEW h \in Requests, NEW l \in Points, NEW r \in Local,
         pc' = [pc EXCEPT ![h] = l], local' = [local EXCEPT ![h] = r],
         heap' \in Arrays, store' \in Config, SliceIn(heap', store'), SliceIn(heap', r.cfg),
         \A g \in Requests \ {h} : SliceIn(heap', cfg(g)),
         \A g \in Requests \ {h} : pc[g] \in Early => store'.array # g /\ r.cfg.array # g,
         l \in Early => pc[h] \in Early /\ store'.array # h /\ r.cfg.array # h,
         mu' \in Requests \cup {NoOne},
         \A g \in Requests \ {h} : mu' = g <=> mu = g,
         l \in {"commit", "save"} <=> mu' = h,
         file' = Truncated \/ file' \in Files,
         pool' \in [Urls -> ServerConfig \cup {NoClient}],
         discServers' \in Seq(Urls), metricServers' \in Seq(Urls),
         restarts' = restarts, Promise(l, r)
  PROVE  TypeInv'
<1>1. /\ pc \in [Requests -> Points] /\ local \in [Requests -> Local]
      /\ restarts \in 0..MaxRestarts
  BY TypeFacts
<1>2. /\ \A g \in Requests : pc'[g] = IF g = h THEN l ELSE pc[g]
      /\ \A g \in Requests : local'[g] = IF g = h THEN r ELSE local[g]
  BY <1>1
<1>3. /\ pc' \in [Requests -> Points] /\ local' \in [Requests -> Local]
  BY <1>1
<1>4. \A g \in Requests : cfg(g)' = IF g = h THEN r.cfg ELSE cfg(g)
  BY <1>2 DEF cfg
<1>5. \A g \in Requests : cfg(g)' \in Config /\ SliceIn(heap', cfg(g)')
  <2>1. r.cfg \in Config /\ \A g \in Requests : cfg(g) \in Config
    BY HandlerFacts DEF Local
  <2> QED  BY <1>4, <2>1
<1>6. \A g \in Requests : Promise(pc'[g], local'[g])
  <2>1. \A g \in Requests : Promise(pc[g], local[g])
    BY HandlerFacts
  <2> QED  BY <1>2, <2>1
<1>7. \A g \in Requests : pc'[g] \in {"commit", "save"} <=> mu' = g
  <2>1. \A g \in Requests : pc[g] \in {"commit", "save"} <=> mu = g
    BY HandlerFacts
  <2> QED  BY <1>2, <2>1
<1>8. Unshared'
  <2>1. \A g \in Requests : pc[g] \in Early => store.array # g /\ \A k \in Requests : cfg(k).array # g
    BY HandlerFacts
  <2>2. \A g \in Requests : pc'[g] \in Early =>
           store'.array # g /\ \A k \in Requests : cfg(k)'.array # g
    BY <1>2, <1>4, <2>1
  <2> QED  BY <2>2 DEF Unshared
<1>9. Slices'
  BY <1>5 DEF Slices
<1>10. Promises' /\ Locked' /\ Shapes'
  BY <1>3, <1>6, <1>7 DEF Promises, Locked, Shapes
<1>11. TypeOK'
  <2>1. \A g \in Requests :
          /\ cfg(g)' \in Config
          /\ cfg(g)'.len <= Len(heap'[cfg(g)'.array])
          /\ pc'[g] \in {"write", "shift"} => idx(g)' \in 1..cfg(g)'.len
    <3>1. \A g \in Requests : idx(g)' = local'[g].idx /\ cfg(g)' = local'[g].cfg
      BY DEF idx, cfg
    <3>2. \A g \in Requests : pc'[g] \in {"write", "shift"} => idx(g)' \in 1..cfg(g)'.len
      BY <1>6, <3>1 DEF Promise
    <3> QED  BY <1>5, <3>2 DEF SliceIn
  <2>2. store'.len <= Len(heap'[store'.array])
    BY DEF SliceIn
  <2>3. mu' # NoOne => pc'[mu'] \in {"commit", "save"}
    BY <1>7
  <2> QED  BY <1>1, <2>1, <2>2, <2>3 DEF TypeOK, Arrays, Files
<1> QED  BY <1>8, <1>9, <1>10, <1>11 DEF TypeInv

(* A step that leaves the arrays, the store and s.mu alone.                *)
LEMMA QuietStep ==
  ASSUME TypeInv, NEW h \in Requests, NEW l \in Points, NEW r \in Local,
         pc' = [pc EXCEPT ![h] = l], local' = [local EXCEPT ![h] = r],
         heap' = heap, store' = store, mu' = mu, restarts' = restarts,
         r.cfg = cfg(h) \/ r.cfg = store \/ r.cfg = Fresh.cfg,
         l \in Early => pc[h] \in Early,
         l \in {"commit", "save"} <=> pc[h] \in {"commit", "save"},
         file' = Truncated \/ file' \in Files,
         pool' \in [Urls -> ServerConfig \cup {NoClient}],
         discServers' \in Seq(Urls), metricServers' \in Seq(Urls),
         Promise(l, r)
  PROVE  TypeInv'
<1>1. /\ heap \in Arrays /\ store \in Config /\ SliceIn(heap, store)
      /\ mu \in Requests \cup {NoOne}
  BY TypeFacts
<1>2. \A g \in Requests :
        /\ SliceIn(heap, cfg(g))
        /\ pc[g] \in {"commit", "save"} <=> mu = g
        /\ pc[g] \in Early => store.array # g /\ \A k \in Requests : cfg(k).array # g
  BY HandlerFacts
<1>3. SliceIn(heap, Fresh.cfg) /\ \A g \in Requests : Fresh.cfg.array # g
  <2>1. Len(heap[Boot]) \in Nat
    BY <1>1 DEF Arrays
  <2> QED  BY <2>1, FreshTyped, Names DEF SliceIn
<1>4. /\ SliceIn(heap, r.cfg)
      /\ \A g \in Requests : pc[g] \in Early => r.cfg.array # g
  BY <1>1, <1>2, <1>3
<1> QED  BY <1>1, <1>2, <1>4, HandlerStep

(* A handler's new array disturbs no slice.                                *)
LEMMA NewArray ==
  ASSUME TypeInv, NEW h \in Requests, pc[h] \in Early,
         NEW a \in Seq(ServerConfig \cup {NoServer}), heap' = [heap EXCEPT ![h] = a]
  PROVE  /\ heap' \in Arrays /\ heap'[h] = a
         /\ SliceIn(heap', store) /\ \A g \in Requests : SliceIn(heap', cfg(g))
<1>1. heap \in Arrays /\ SliceIn(heap, store) /\ store \in Config
  BY TypeFacts
<1>2. /\ \A g \in Requests : SliceIn(heap, cfg(g)) /\ cfg(g) \in Config
      /\ store.array # h /\ \A g \in Requests : cfg(g).array # h
  BY HandlerFacts
<1>3. heap' \in Arrays /\ heap'[h] = a /\ \A b \in Requests \cup {Boot} : b # h => heap'[b] = heap[b]
  BY <1>1 DEF Arrays
<1>4. ASSUME NEW c \in Config, c.array # h, SliceIn(heap, c)
      PROVE  SliceIn(heap', c)
  <2>1. c.array \in Requests \cup {Boot}
    BY DEF Config
  <2>2. heap'[c.array] = heap[c.array]
    BY <1>3, <1>4, <2>1
  <2> QED  BY <1>4, <2>2 DEF SliceIn
<1> QED  BY <1>1, <1>2, <1>3, <1>4

(* Neither does a server written to a shared one.                          *)
LEMMA SharedWrite ==
  ASSUME TypeInv, NEW a \in Requests \cup {Boot}, NEW b \in Seq(ServerConfig \cup {NoServer}),
         Len(b) = Len(heap[a]),
         \A i \in 1..Len(b) : b[i] = heap[a][i] \/ b[i] \in ServerConfig,
         heap' = [heap EXCEPT ![a] = b]
  PROVE  /\ heap' \in Arrays /\ heap'[a] = b
         /\ SliceIn(heap', store) /\ \A g \in Requests : SliceIn(heap', cfg(g))
<1>1. heap \in Arrays /\ SliceIn(heap, store) /\ store \in Config
  BY TypeFacts
<1>2. \A g \in Requests : SliceIn(heap, cfg(g)) /\ cfg(g) \in Config
  BY HandlerFacts
<1>3. heap' \in Arrays /\ heap'[a] = b /\ \A d \in Requests \cup {Boot} : d # a => heap'[d] = heap[d]
  BY <1>1 DEF Arrays
<1>4. ASSUME NEW c \in Config, SliceIn(heap, c)
      PROVE  SliceIn(heap', c)
  <2>1. c.array \in Requests \cup {Boot} /\ c.len \in Nat
    BY DEF Config
  <2>2. CASE c.array # a
    <3>1. heap'[c.array] = heap[c.array]
      BY <1>3, <2>1, <2>2
    <3> QED  BY <1>4, <3>1 DEF SliceIn
  <2>3. CASE c.array = a
    <3>1. heap'[c.array] = b /\ c.len <= Len(b) /\ Len(b) \in Nat
      BY <1>3, <1>4, <2>3 DEF SliceIn
    <3>2. \A i \in 1..c.len : i \in 1..Len(b) /\ heap[a][i] \in ServerConfig
      BY <1>4, <2>1, <2>3, <3>1 DEF SliceIn
    <3> QED  BY <3>1, <3>2 DEF SliceIn
  <2> QED  BY <2>2, <2>3
<1> QED  BY <1>1, <1>2, <1>3, <1>4

LEMMA ReceiveType ==
  ASSUME TypeInv, NEW h \in Requests, Receive(h)
  PROVE  TypeInv'
<1>1. PICK o \in Ops :
        \/ /\ o.kind = "put"
           /\ heap' = [heap EXCEPT ![h] = o.servers]
           /\ local' = [local EXCEPT ![h].op = o,
                          ![h].cfg = [array |-> h, len |-> Len(o.servers), global |-> o.global]]
           /\ Goto(h, "set")
        \/ /\ o.kind # "put"
           /\ local' = [local EXCEPT ![h].op = o]
           /\ Goto(h, "get")
           /\ UNCHANGED heap
  BY DEF Receive
<1>2. /\ pc[h] = "new" /\ store' = store /\ mu' = mu /\ file' = file /\ restarts' = restarts
      /\ pool' = pool /\ discServers' = discServers /\ metricServers' = metricServers
  BY DEF Receive, runtime
<1>3. /\ local[h] \in Local /\ pc[h] \in Early
      /\ store.array # h /\ \A g \in Requests : cfg(g).array # h
      /\ mu # h /\ mu \in Requests \cup {NoOne}
  BY <1>2, HandlerFacts, TypeFacts DEF Early
<1>4. CASE o.kind = "put"
  <2> DEFINE c == [array |-> h, len |-> Len(o.servers), global |-> o.global]
             r == [local[h] EXCEPT !.op = o, !.cfg = c]
  <2>1. o.servers \in Seq(ServerConfig) /\ o.global \in GlobalConfig
    BY <1>4, OpTypes
  <2>2. o.servers \in Seq(ServerConfig \cup {NoServer}) /\ Len(o.servers) \in Nat
    BY <2>1
  <2>3. c \in Config /\ c.array = h /\ c.len = Len(o.servers)
    BY <2>1, <2>2 DEF Config
  <2> HIDE DEF c
  <2>4. r \in Local /\ r.op = o /\ r.cfg = c
    BY <1>3, <2>3 DEF Local
  <2>5. heap' = [heap EXCEPT ![h] = o.servers] /\ pc' = [pc EXCEPT ![h] = "set"]
    BY <1>1, <1>4 DEF Goto
  <2>6. local' = [local EXCEPT ![h] = r]
    BY <1>1, <1>4 DEF c
  <2>7. /\ heap' \in Arrays /\ heap'[h] = o.servers
        /\ SliceIn(heap', store) /\ \A g \in Requests : SliceIn(heap', cfg(g))
    BY <1>3, <2>2, <2>5, NewArray
  <2>8. SliceIn(heap', c)
    BY <2>1, <2>3, <2>7 DEF SliceIn
  <2>9. Promise("set", r) /\ "set" \in Points /\ "set" \notin Early
    BY <2>4 DEF Promise, WithOp, Points, Early
  <2> HIDE DEF r
  <2>10. \A g \in Requests : pc[g] \in Early => store.array # g
    BY HandlerFacts
  <2> QED  BY <1>2, <1>3, <2>3, <2>4, <2>5, <2>6, <2>7, <2>8, <2>9, <2>10, TypeFacts, HandlerStep
<1>5. CASE o.kind # "put"
  <2> DEFINE r == [local[h] EXCEPT !.op = o]
  <2>1. r \in Local /\ r.op = o /\ r.cfg = cfg(h)
    BY <1>3 DEF Local, cfg
  <2>2. pc' = [pc EXCEPT ![h] = "get"] /\ local' = [local EXCEPT ![h] = r] /\ heap' = heap
    BY <1>1, <1>5 DEF Goto
  <2>3. Promise("get", r) /\ "get" \in Points
    BY <1>5, <2>1 DEF Promise, WithOp, Points, Early
  <2> HIDE DEF r
  <2> QED  BY <1>2, <1>3, <2>1, <2>2, <2>3, TypeFacts, QuietStep
<1> QED  BY <1>4, <1>5

LEMMA ReplyType ==
  ASSUME TypeInv, NEW h \in Requests, Reply(h), pc[h] \notin {"commit", "save"},
         heap' = heap, store' = store, mu' = mu, file' = file, restarts' = restarts,
         pool' = pool, discServers' = discServers, metricServers' \in Seq(Urls)
  PROVE  TypeInv'
<1>1. /\ pc' = [pc EXCEPT ![h] = "done"] /\ local' = [local EXCEPT ![h] = Fresh]
      /\ "done" \in Points /\ "done" \notin Early
  BY DEF Reply, Goto, Points, Early
<1>2. Promise("done", Fresh)
  BY DEF Promise, WithOp
<1> QED  BY <1>1, <1>2, FreshTyped, TypeFacts, QuietStep

LEMMA GetType ==
  ASSUME TypeInv, NEW h \in Requests, Get(h)
  PROVE  TypeInv'
<1> DEFINE r == [local[h] EXCEPT !.cfg = store, !.idx = 1]
<1>1. /\ pc[h] = "get" /\ pc' = [pc EXCEPT ![h] = "scan"] /\ local' = [local EXCEPT ![h] = r]
      /\ heap' = heap /\ store' = store /\ mu' = mu /\ file' = file /\ restarts' = restarts
      /\ pool' = pool /\ discServers' = discServers /\ metricServers' = metricServers
  BY DEF Get, runtime, Goto
<1>2. /\ local[h] \in Local /\ store \in Config
      /\ op(h) \in Ops /\ op(h).kind # "put"
  BY <1>1, HandlerFacts, TypeFacts DEF Promise, WithOp, op
<1>3. r \in Local /\ r.op = op(h) /\ r.cfg = store /\ r.idx = 1
  BY <1>2 DEF Local, op
<1>4. Promise("scan", r) /\ "scan" \in Points
  BY <1>2, <1>3 DEF Promise, WithOp, Points, Early
<1> HIDE DEF r
<1> QED  BY <1>1, <1>3, <1>4, TypeFacts, QuietStep DEF Early

LEMMA ElementTyped ==
  ASSUME TypeInv, NEW h \in Requests, idx(h) >= 1, idx(h) <= cfg(h).len
  PROVE  Element(h) \in ServerConfig /\ Element(h).url \in Urls
<1>1. idx(h) \in Nat /\ cfg(h) \in Config /\ SliceIn(heap, cfg(h))
  BY HandlerFacts
<1>2. cfg(h).len \in Nat
  BY <1>1 DEF Config
<1>3. idx(h) \in 1..cfg(h).len
  BY <1>1, <1>2
<1> QED  BY <1>1, <1>3, ServerUrl DEF SliceIn, Element

LEMMA ExamineType ==
  ASSUME TypeInv, NEW h \in Requests, Examine(h)
  PROVE  TypeInv'
<1>1. /\ pc[h] = "scan" /\ idx(h) <= cfg(h).len
      /\ heap' = heap /\ store' = store /\ mu' = mu /\ file' = file /\ restarts' = restarts
      /\ pool' = pool /\ discServers' = discServers /\ metricServers' = metricServers
  BY DEF Examine, runtime
<1>2. /\ local[h] \in Local /\ op(h) \in Ops /\ op(h).kind # "put" /\ idx(h) >= 1
      /\ idx(h) \in Nat /\ cfg(h) \in Config
      /\ local[h].op = op(h) /\ local[h].cfg = cfg(h) /\ local[h].idx = idx(h)
  BY <1>1, HandlerFacts DEF Promise, WithOp
<1>3. idx(h) \in 1..cfg(h).len
  BY <1>1, <1>2 DEF Config
<1>4. CASE Element(h).url # op(h).id
  <2> DEFINE r == [local[h] EXCEPT !.idx = idx(h) + 1]
  <2>1. local' = [local EXCEPT ![h] = r] /\ pc' = pc
    BY <1>2, <1>4 DEF Examine, idx
  <2>2. pc' = [pc EXCEPT ![h] = "scan"]
    BY <1>1, <2>1, TypeFacts
  <2>3. r \in Local /\ r.op = op(h) /\ r.cfg = cfg(h) /\ r.idx = idx(h) + 1
    BY <1>2 DEF Local
  <2>4. Promise("scan", r) /\ "scan" \in Points
    BY <1>2, <2>3 DEF Promise, WithOp, Points, Early
  <2> HIDE DEF r
  <2> QED  BY <1>1, <2>1, <2>2, <2>3, <2>4, TypeFacts, QuietStep
<1>5. CASE Element(h).url = op(h).id /\ op(h).kind = "add"
  <2>1. Reply(h)
    BY <1>5 DEF Examine
  <2> QED  BY <1>1, <2>1, TypeFacts, ReplyType
<1>6. CASE Element(h).url = op(h).id /\ op(h).kind = "update"
  <2> DEFINE e == op(h).fields @@ Element(h)
             r == [local[h] EXCEPT !.updated = e]
  <2>1. local' = [local EXCEPT ![h].updated = op(h).fields @@ Element(h)] /\ Goto(h, "write")
    BY <1>6 DEF Examine
  <2>2. e \in ServerConfig
    BY <1>1, <1>2, <1>6, OpTypes, ElementTyped
  <2> HIDE DEF e
  <2>3. local' = [local EXCEPT ![h] = r] /\ pc' = [pc EXCEPT ![h] = "write"]
    BY <2>1 DEF Goto, e
  <2>4. r \in Local /\ r.op = op(h) /\ r.cfg = cfg(h) /\ r.idx = idx(h) /\ r.updated = e
    BY <1>2, <2>2 DEF Local
  <2>5. Promise("write", r) /\ "write" \in Points /\ "scan" \in Early
    BY <1>2, <1>3, <2>2, <2>4 DEF Promise, WithOp, Points, Early
  <2> HIDE DEF r
  <2> QED  BY <1>1, <2>3, <2>4, <2>5, TypeFacts, QuietStep
<1>7. CASE Element(h).url = op(h).id /\ op(h).kind = "delete"
  <2>1. local' = local /\ pc' = [pc EXCEPT ![h] = "shift"]
    BY <1>7 DEF Examine, Goto
  <2>2. local' = [local EXCEPT ![h] = local[h]]
    BY <2>1, TypeFacts
  <2>3. Promise("shift", local[h]) /\ "shift" \in Points /\ "scan" \in Early
    BY <1>2, <1>3 DEF Promise, WithOp, Points, Early
  <2> QED  BY <1>1, <1>2, <2>1, <2>2, <2>3, TypeFacts, QuietStep
<1> QED  BY <1>2, <1>4, <1>5, <1>6, <1>7, OpTypes

LEMMA NotFoundType ==
  ASSUME TypeInv, NEW h \in Requests, NotFound(h)
  PROVE  TypeInv'
<1>1. /\ pc[h] = "scan"
      /\ heap' = heap /\ store' = store /\ mu' = mu /\ file' = file /\ restarts' = restarts
      /\ pool' = pool /\ discServers' = discServers /\ metricServers' = metricServers
  BY DEF NotFound, runtime
<1>2. CASE op(h).kind = "add"
  <2>1. local' = local /\ pc' = [pc EXCEPT ![h] = "append"]
    BY <1>2 DEF NotFound, Goto
  <2>2. local' = [local EXCEPT ![h] = local[h]]
    BY <2>1, TypeFacts
  <2>3. local[h] \in Local /\ local[h].op = op(h) /\ op(h) \in Ops /\ local[h].cfg = cfg(h)
    BY <1>1, HandlerFacts DEF Promise, WithOp
  <2>4. Promise("append", local[h]) /\ "append" \in Points /\ "scan" \in Early
    BY <1>2, <2>3 DEF Promise, WithOp, Points, Early
  <2> QED  BY <1>1, <2>1, <2>2, <2>3, <2>4, TypeFacts, QuietStep
<1>3. CASE op(h).kind # "add"
  <2>1. Reply(h)
    BY <1>3 DEF NotFound
  <2> QED  BY <1>1, <2>1, TypeFacts, ReplyType
<1> QED  BY <1>2, <1>3

(* A handler that has changed its slice goes on to Set.                    *)
LEMMA ToSetType ==
  ASSUME TypeInv, NEW h \in Requests, pc[h] \in Early,
         NEW r \in Local, r.op \in Ops,
         pc' = [pc EXCEPT ![h] = "set"], local' = [local EXCEPT ![h] = r],
         heap' \in Arrays, SliceIn(heap', store), SliceIn(heap', r.cfg),
         \A g \in Requests : SliceIn(heap', cfg(g)),
         r.cfg.array = h \/ r.cfg.array = cfg(h).array,
         UNCHANGED <<store, mu, file, runtime, restarts, failed>>
  PROVE  TypeInv'
<1>1. /\ store' = store /\ mu' = mu /\ file' = file /\ restarts' = restarts
      /\ pool' = pool /\ discServers' = discServers /\ metricServers' = metricServers
  BY DEF runtime
<1>2. Promise("set", r) /\ "set" \in Points /\ "set" \notin Early
  BY DEF Promise, WithOp, Points, Early
<1>3. \A g \in Requests : pc[g] \in Early => store.array # g /\ \A k \in Requests : cfg(k).array # g
  BY HandlerFacts
<1>4. \A g \in Requests \ {h} : pc[g] \in Early => r.cfg.array # g
  BY <1>3
<1>5. mu # h
  BY HandlerFacts DEF Early
<1> QED  BY <1>1, <1>2, <1>3, <1>4, <1>5, TypeFacts, HandlerStep

LEMMA GrownTyped ==
  ASSUME NEW S, NEW a \in Seq(S), NEW sc \in S, NoServer \in S
  PROVE  /\ Grown(a, sc) \in Seq(S) /\ Len(a) + 1 <= Len(Grown(a, sc))
         /\ \A i \in 1..Len(a) : Grown(a, sc)[i] = a[i]
         /\ Grown(a, sc)[Len(a) + 1] = sc
<1> DEFINE n == Len(a)
           m == IF n = 0 THEN 1 ELSE 2 * n
           e(i) == IF i <= n THEN a[i] ELSE IF i = n + 1 THEN sc ELSE NoServer
<1>1. n \in Nat /\ \A i \in 1..n : a[i] \in S
  OBVIOUS
<1> HIDE DEF n
<1>2. m \in Nat /\ n + 1 <= m
  BY <1>1
<1> HIDE DEF m
<1>3. \A i \in 1..m : e(i) \in S
  BY <1>1, <1>2
<1>4. Grown(a, sc) = [i \in 1..m |-> e(i)]
  BY DEF Grown, n, m
<1>5. \A i \in 1..n : i \in 1..m /\ e(i) = a[i]
  BY <1>1, <1>2
<1>6. n + 1 \in 1..m /\ e(n + 1) = sc
  BY <1>1, <1>2
<1> HIDE DEF e
<1>7. Grown(a, sc) \in Seq(S) /\ Len(Grown(a, sc)) = m
  BY <1>2, <1>3, <1>4
<1> QED  BY <1>2, <1>4, <1>5, <1>6, <1>7 DEF n

LEMMA AppendServerType ==
  ASSUME TypeInv, NEW h \in Requests, AppendServer(h)
  PROVE  TypeInv'
<1> DEFINE c == cfg(h)
           a == heap[c.array]
           f == op(h).fields
           S == ServerConfig \cup {NoServer}
<1>1. /\ pc[h] = "append" /\ pc' = [pc EXCEPT ![h] = "set"]
      /\ UNCHANGED <<store, mu, file, runtime, restarts, failed>>
  BY DEF AppendServer, Goto
<1>2. /\ local[h] \in Local /\ c \in Config /\ SliceIn(heap, c) /\ pc[h] \in Early
      /\ local[h].cfg = c /\ op(h) \in Ops /\ local[h].op = op(h) /\ op(h).kind = "add"
  BY <1>1, HandlerFacts DEF Promise, WithOp, Early
<1>3. f \in ServerConfig /\ f \in S /\ NoServer \in S
  BY <1>2, OpTypes
<1>4. /\ c.array \in Requests \cup {Boot} /\ c.len \in Nat /\ c.global \in GlobalConfig
      /\ a \in Seq(S) /\ Len(a) \in Nat /\ c.len <= Len(a)
      /\ \A i \in 1..c.len : a[i] \in ServerConfig
  BY <1>2, TypeFacts DEF Config, Arrays, SliceIn
<1>5. CASE c.len < Len(a)
  <2> DEFINE b == [a EXCEPT ![c.len + 1] = f]
             d == [c EXCEPT !.len = c.len + 1]
             r == [local[h] EXCEPT !.cfg = d]
  <2>1. /\ heap' = [heap EXCEPT ![c.array] = b]
        /\ local' = [local EXCEPT ![h].cfg.len = @ + 1]
    BY <1>4, <1>5 DEF AppendServer
  <2>2. c.len + 1 \in 1..Len(a)
    BY <1>4, <1>5
  <2>3. /\ b \in Seq(S) /\ Len(b) = Len(a)
        /\ \A i \in 1..Len(a) : b[i] = IF i = c.len + 1 THEN f ELSE a[i]
    BY <1>3, <1>4, <2>2, ExceptSeq
  <2>4. d \in Config /\ d.array = c.array /\ d.len = c.len + 1
    BY <1>2, <1>4 DEF Config
  <2>5. local' = [local EXCEPT ![h] = r]
    BY <1>2, <2>1 DEF cfg
  <2> HIDE DEF d, b
  <2>6. r \in Local /\ r.op = op(h) /\ r.cfg = d
    BY <1>2, <2>4 DEF Local
  <2> HIDE DEF r
  <2>7. /\ heap' \in Arrays /\ heap'[c.array] = b
        /\ SliceIn(heap', store) /\ \A g \in Requests : SliceIn(heap', cfg(g))
    <3>1. \A i \in 1..Len(b) : b[i] = a[i] \/ b[i] \in ServerConfig
      BY <1>3, <2>3
    <3> QED  BY <1>4, <2>1, <2>3, <3>1, SharedWrite
  <2>8. SliceIn(heap', d)
    <3>1. \A i \in 1..(c.len + 1) : b[i] \in ServerConfig
      BY <1>3, <1>4, <2>2, <2>3
    <3> QED  BY <2>2, <2>3, <2>4, <2>7, <3>1 DEF SliceIn
  <2> QED  BY <1>1, <1>2, <2>4, <2>5, <2>6, <2>7, <2>8, ToSetType
<1>6. CASE ~(c.len < Len(a))
  <2> DEFINE b == Grown(a, f)
             d == [array |-> h, len |-> c.len + 1, global |-> c.global]
             r == [local[h] EXCEPT !.cfg = d]
  <2>1. /\ heap' = [heap EXCEPT ![h] = b]
        /\ local' = [local EXCEPT ![h].cfg.len = @ + 1, ![h].cfg.array = h]
        /\ c.len = Len(a)
    BY <1>4, <1>6 DEF AppendServer
  <2>2. /\ b \in Seq(S) /\ c.len + 1 <= Len(b)
        /\ \A i \in 1..c.len : b[i] = a[i]
        /\ b[c.len + 1] = f
    <3> HIDE DEF a, f, S
    <3> QED  BY <1>3, <1>4, <2>1, GrownTyped
  <2>3. d \in Config /\ d.array = h /\ d.len = c.len + 1
    <3>1. c.len + 1 \in Nat /\ h \in Requests \cup {Boot}
      BY <1>4
    <3> QED  BY <1>4, <3>1 DEF Config
  <2>4. local' = [local EXCEPT ![h] = r]
    <3> DEFINE longer == [local EXCEPT ![h].cfg.len = @ + 1]
    <3>1. local' = [longer EXCEPT ![h].cfg.array = h]
      BY <2>1
    <3>2. longer = [local EXCEPT ![h] = [local[h] EXCEPT !.cfg = [c EXCEPT !.len = c.len + 1]]]
      BY <1>2
    <3>3. c = [array |-> c.array, len |-> c.len, global |-> c.global]
      BY <1>2 DEF Config
    <3> HIDE DEF longer
    <3>4. longer[h] = [local[h] EXCEPT !.cfg = [c EXCEPT !.len = c.len + 1]]
      BY <3>2, TypeFacts
    <3>5. longer[h].cfg = [array |-> c.array, len |-> c.len + 1, global |-> c.global]
      BY <1>2, <3>3, <3>4 DEF Local
    <3>6. [longer[h] EXCEPT !.cfg.array = h] = r
      <4> DEFINE y == longer[h].cfg
      <4>1. [y EXCEPT !.array = h] = d
        BY <3>5
      <4>2. [longer[h] EXCEPT !.cfg.array = h] = [longer[h] EXCEPT !.cfg = [y EXCEPT !.array = h]]
        OBVIOUS
      <4>3. longer[h] = [local[h] EXCEPT !.cfg = y]
        BY <1>2, <3>4 DEF Local
      <4> HIDE DEF y, d
      <4> QED  BY <1>2, <4>1, <4>2, <4>3 DEF Local
    <3>7. local' = [longer EXCEPT ![h] = [longer[h] EXCEPT !.cfg.array = h]]
      BY <3>1
    <3> HIDE DEF r
    <3> QED  BY <3>2, <3>6, <3>7, TypeFacts
  <2> HIDE DEF d, b
  <2>5. r \in Local /\ r.op = op(h) /\ r.cfg = d
    BY <1>2, <2>3 DEF Local
  <2> HIDE DEF r
  <2>6. /\ heap' \in Arrays /\ heap'[h] = b
        /\ SliceIn(heap', store) /\ \A g \in Requests : SliceIn(heap', cfg(g))
    BY <1>2, <2>1, <2>2, NewArray
  <2>7. SliceIn(heap', d)
    <3>1. \A i \in 1..(c.len + 1) : i \in 1..c.len \/ i = c.len + 1
      BY <1>4
    <3>2. \A i \in 1..(c.len + 1) : b[i] \in ServerConfig
      BY <1>3, <1>4, <2>2, <3>1
    <3> QED  BY <2>2, <2>3, <2>6, <3>2 DEF SliceIn
  <2> QED  BY <1>1, <1>2, <2>3, <2>4, <2>5, <2>6, <2>7, ToSetType
<1> QED  BY <1>5, <1>6

LEMMA WriteBackType ==
  ASSUME TypeInv, NEW h \in Requests, WriteBack(h)
  PROVE  TypeInv'
<1> DEFINE c == cfg(h)
           a == heap[c.array]
           f == local[h].updated
           b == [a EXCEPT ![idx(h)] = f]
           S == ServerConfig \cup {NoServer}
<1>1. /\ pc[h] = "write" /\ pc' = [pc EXCEPT ![h] = "set"] /\ local' = local
      /\ heap' = [heap EXCEPT ![c.array] = b]
      /\ UNCHANGED <<store, mu, file, runtime, restarts, failed>>
  BY DEF WriteBack, Goto
<1>2. /\ local[h] \in Local /\ c \in Config /\ SliceIn(heap, c) /\ pc[h] \in Early
      /\ local[h].cfg = c /\ op(h) \in Ops /\ local[h].op = op(h)
      /\ f \in ServerConfig /\ idx(h) \in 1..c.len
  BY <1>1, HandlerFacts DEF Promise, WithOp, Early
<1>3. /\ c.array \in Requests \cup {Boot} /\ c.len \in Nat
      /\ a \in Seq(S) /\ Len(a) \in Nat /\ c.len <= Len(a)
  BY <1>2, TypeFacts DEF Config, Arrays, SliceIn
<1>4. idx(h) \in 1..Len(a) /\ f \in S
  BY <1>2, <1>3
<1>5. /\ b \in Seq(S) /\ Len(b) = Len(a)
      /\ \A i \in 1..Len(a) : b[i] = IF i = idx(h) THEN f ELSE a[i]
  BY <1>3, <1>4, ExceptSeq
<1> HIDE DEF b
<1>6. \A i \in 1..Len(b) : b[i] = a[i] \/ b[i] \in ServerConfig
  BY <1>2, <1>5
<1>7. /\ heap' \in Arrays
      /\ SliceIn(heap', store) /\ \A g \in Requests : SliceIn(heap', cfg(g))
  BY <1>1, <1>3, <1>5, <1>6, SharedWrite
<1>8. local' = [local EXCEPT ![h] = local[h]]
  BY <1>1, TypeFacts
<1> QED  BY <1>1, <1>2, <1>7, <1>8, ToSetType

LEMMA ShiftType ==
  ASSUME TypeInv, NEW h \in Requests, Shift(h)
  PROVE  TypeInv'
<1> DEFINE c == cfg(h)
           a == heap[c.array]
           b == [i \in DOMAIN a |-> IF i \in idx(h)..(c.len - 1) THEN a[i + 1] ELSE a[i]]
           d == [c EXCEPT !.len = c.len - 1]
           r == [local[h] EXCEPT !.cfg = d]
           S == ServerConfig \cup {NoServer}
<1>1. /\ pc[h] = "shift" /\ pc' = [pc EXCEPT ![h] = "set"]
      /\ local' = [local EXCEPT ![h].cfg.len = @ - 1]
      /\ heap' = [heap EXCEPT ![c.array] = b]
      /\ UNCHANGED <<store, mu, file, runtime, restarts, failed>>
  BY DEF Shift, Goto
<1>2. /\ local[h] \in Local /\ c \in Config /\ SliceIn(heap, c) /\ pc[h] \in Early
      /\ local[h].cfg = c /\ op(h) \in Ops /\ local[h].op = op(h)
      /\ idx(h) \in 1..c.len
  BY <1>1, HandlerFacts DEF Promise, WithOp, Early
<1>3. /\ c.array \in Requests \cup {Boot} /\ c.len \in Nat /\ c.len - 1 \in Nat
      /\ c.global \in GlobalConfig
      /\ a \in Seq(S) /\ Len(a) \in Nat /\ c.len <= Len(a) /\ DOMAIN a = 1..Len(a)
      /\ \A i \in 1..c.len : a[i] \in ServerConfig
  <2>1. c.array \in Requests \cup {Boot} /\ c.len \in Nat /\ c.global \in GlobalConfig
    BY <1>2 DEF Config
  <2>2. a \in Seq(S)
    BY <2>1, TypeFacts DEF Arrays
  <2>3. c.len <= Len(a) /\ \A i \in 1..c.len : a[i] \in ServerConfig
    BY <1>2 DEF SliceIn
  <2>4. c.len - 1 \in Nat
    BY <1>2, <2>1
  <2> HIDE DEF a, S
  <2> QED  BY <2>1, <2>2, <2>3, <2>4
<1>4. d \in Config /\ d.array = c.array /\ d.len = c.len - 1
  BY <1>2, <1>3 DEF Config
<1>5. local' = [local EXCEPT ![h] = r]
  BY <1>1, <1>2 DEF cfg
<1> HIDE DEF d
<1>6. r \in Local /\ r.op = op(h) /\ r.cfg = d
  BY <1>2, <1>4 DEF Local
<1> HIDE DEF a, r
<1>7. \A i \in 1..Len(a) : a[i] \in S
  BY <1>3
<1>8. \A i \in idx(h)..(c.len - 1) : i + 1 \in 1..c.len /\ i \in 1..Len(a)
  BY <1>2, <1>3
<1>9. /\ b \in Seq(S) /\ Len(b) = Len(a)
      /\ \A i \in 1..Len(a) : b[i] = a[i] \/ b[i] \in ServerConfig
  <2>1. \A i \in 1..Len(a) :
          (IF i \in idx(h)..(c.len - 1) THEN a[i + 1] ELSE a[i]) \in S
    BY <1>3, <1>7, <1>8
  <2>2. b \in [1..Len(a) -> S]
    BY <1>3, <2>1
  <2>3. b \in Seq(S) /\ Len(b) = Len(a)
    BY <1>3, <2>2
  <2>4. \A i \in 1..Len(a) : b[i] = a[i] \/ b[i] \in ServerConfig
    BY <1>3, <1>8
  <2> QED  BY <2>3, <2>4
<1> HIDE DEF b
<1>10. /\ heap' \in Arrays /\ heap'[c.array] = b
       /\ SliceIn(heap', store) /\ \A g \in Requests : SliceIn(heap', cfg(g))
  BY <1>1, <1>3, <1>9, SharedWrite DEF a
<1>11. SliceIn(heap', d)
  <2>1. SliceIn(heap', c)
    BY <1>10
  <2>2. d.len <= c.len /\ \A i \in 1..d.len : i \in 1..c.len
    BY <1>3, <1>4
  <2>3. d.len <= Len(heap'[d.array])
    BY <1>3, <1>4, <1>9, <1>10
  <2> QED  BY <1>4, <2>1, <2>2, <2>3 DEF SliceIn
<1> QED  BY <1>1, <1>2, <1>4, <1>5, <1>6, <1>10, <1>11, ToSetType

-----------------------------------------------------------------------------
LEMMA SetCheckType ==
  ASSUME TypeInv, NEW h \in Requests, SetCheck(h)
  PROVE  TypeInv'
<1>1. /\ pc[h] = "set" /\ mu = NoOne
      /\ heap' = heap /\ store' = store /\ file' = file /\ restarts' = restarts
      /\ pool' = pool /\ discServers' = discServers /\ metricServers' = metricServers
  BY DEF SetCheck, runtime
<1>2. CASE Valid(cfg(h))
  <2> DEFINE l == "commit"
  <2>1. mu' = h /\ pc' = [pc EXCEPT ![h] = l] /\ local' = local
    BY <1>2 DEF SetCheck, Goto
  <2>2. local' = [local EXCEPT ![h] = local[h]]
    BY <2>1, TypeFacts
  <2>3. local[h] \in Local /\ local[h].op \in Ops /\ local[h].cfg = cfg(h)
    BY <1>1, HandlerFacts DEF Promise, WithOp
  <2>4. Promise(l, local[h]) /\ l \in Points /\ l \notin Early /\ l \in {"commit", "save"}
    BY <2>3 DEF Promise, WithOp, Points, Early
  <2> HIDE DEF l
  <2>5. \A g \in Requests :
          /\ SliceIn(heap, cfg(g))
          /\ pc[g] \in Early => store.array # g /\ \A k \in Requests : cfg(k).array # g
    BY HandlerFacts
  <2>6. \A g \in Requests \ {h} : mu' = g <=> mu = g
    BY <1>1, <2>1, Names
  <2>7. /\ heap' \in Arrays /\ store' \in Config /\ SliceIn(heap', store')
        /\ SliceIn(heap', local[h].cfg)
        /\ \A g \in Requests \ {h} : SliceIn(heap', cfg(g))
        /\ \A g \in Requests \ {h} : pc[g] \in Early => store'.array # g /\ local[h].cfg.array # g
    BY <1>1, <2>3, <2>5, TypeFacts
  <2>8. /\ file' = Truncated \/ file' \in Files
        /\ pool' \in [Urls -> ServerConfig \cup {NoClient}]
        /\ discServers' \in Seq(Urls) /\ metricServers' \in Seq(Urls)
    BY <1>1, TypeFacts
  <2> QED  BY <1>1, <2>1, <2>2, <2>3, <2>4, <2>6, <2>7, <2>8, HandlerStep
<1>3. CASE ~Valid(cfg(h))
  <2>1. Reply(h) /\ mu' = mu
    BY <1>3 DEF SetCheck
  <2> QED  BY <1>1, <2>1, TypeFacts, ReplyType
<1> QED  BY <1>2, <1>3

LEMMA SettledTyped ==
  ASSUME NEW c \in Config
  PROVE  /\ Settled(c) \in Config
         /\ Settled(c).array = c.array /\ Settled(c).len = c.len
<1> DEFINE g == c.global
           o == IF g.output = 0 THEN DefaultGlobal.output ELSE g.output
           n == [g EXCEPT !.output = o]
<1>1. c.array \in Requests \cup {Boot} /\ c.len \in Nat /\ g \in GlobalConfig
  BY DEF Config
<1>2. n \in GlobalConfig
  BY <1>1 DEF GlobalConfig, DefaultGlobal
<1>3. Settled(c) = [c EXCEPT !.global = n]
  BY DEF Settled
<1> HIDE DEF n
<1> QED  BY <1>1, <1>2, <1>3 DEF Config

(* What saveLocked marshals is a configuration.                            *)
LEMMA ContentsTyped ==
  ASSUME TypeInv, NEW c \in Config, SliceIn(heap, c)
  PROVE  /\ Contents(c) \in Files
         /\ Contents(c).global = c.global /\ c.global \in GlobalConfig
         /\ Contents(c).servers \in Seq(ServerConfig)
         /\ Len(Contents(c).servers) = c.len /\ DOMAIN Contents(c).servers = 1..c.len
         /\ \A i \in 1..c.len : Contents(c).servers[i] = heap[c.array][i]
<1> DEFINE s == SubSeq(heap[c.array], 1, c.len)
<1>1. /\ s \in Seq(ServerConfig) /\ Len(s) = c.len /\ DOMAIN s = 1..c.len
      /\ \A i \in 1..c.len : s[i] = heap[c.array][i]
  BY TypeFacts, Shown
<1>2. c.global \in GlobalConfig
  BY DEF Config
<1> HIDE DEF s
<1>3. Contents(c) = [servers |-> s, global |-> c.global]
  BY DEF Contents, s
<1> QED  BY <1>1, <1>2, <1>3 DEF Files

(* Set returns an error and unlocks s.mu; store' is the old configuration  *)
(* or the new one.                                                         *)
LEMMA SetFailsType ==
  ASSUME TypeInv, NEW h \in Requests, Reply(h), mu = h, mu' = NoOne,
         heap' = heap, file' = file, restarts' = restarts,
         pool' = pool, discServers' = discServers, metricServers' = metricServers,
         store' \in Config, SliceIn(heap, store'),
         \A g \in Requests : pc[g] \in Early => store'.array # g
  PROVE  TypeInv'
<1> DEFINE l == "done"
<1>1. /\ pc' = [pc EXCEPT ![h] = l] /\ local' = [local EXCEPT ![h] = Fresh]
      /\ l \in Points /\ l \notin Early /\ l \notin {"commit", "save"}
  BY DEF Reply, Goto, Points, Early
<1>2. Promise(l, Fresh)
  BY DEF Promise, WithOp
<1> HIDE DEF l
<1>3. SliceIn(heap, Fresh.cfg) /\ \A g \in Requests : Fresh.cfg.array # g
  <2>1. Len(heap[Boot]) \in Nat
    BY TypeFacts DEF Arrays
  <2> QED  BY <2>1, FreshTyped, Names DEF SliceIn
<1>4. \A g \in Requests : SliceIn(heap, cfg(g))
  BY HandlerFacts
<1>5. mu' \notin Requests /\ mu' \in Requests \cup {NoOne}
  BY Names
<1>6. \A g \in Requests \ {h} : mu' = g <=> mu = g
  BY <1>5
<1>7. l \in {"commit", "save"} <=> mu' = h
  BY <1>1, <1>5
<1> QED  BY <1>1, <1>2, <1>3, <1>4, <1>5, <1>6, <1>7, FreshTyped, TypeFacts, HandlerStep

LEMMA CommitType ==
  ASSUME TypeInv, NEW h \in Requests, Commit(h)
  PROVE  TypeInv'
<1>1. /\ pc[h] = "commit" /\ store' = Settled(cfg(h))
      /\ heap' = heap /\ restarts' = restarts
      /\ pool' = pool /\ discServers' = discServers /\ metricServers' = metricServers
  BY DEF Commit, runtime
<1>2. /\ local[h] \in Local /\ cfg(h) \in Config /\ SliceIn(heap, cfg(h)) /\ mu = h
      /\ local[h].op \in Ops /\ local[h].cfg = cfg(h)
  BY <1>1, HandlerFacts DEF Promise, WithOp
<1>3. /\ store' \in Config /\ store'.array = cfg(h).array /\ store'.len = cfg(h).len
  BY <1>1, <1>2, SettledTyped
<1>4. SliceIn(heap, store')
  BY <1>2, <1>3 DEF SliceIn
<1>5. \A g \in Requests :
        /\ SliceIn(heap, cfg(g))
        /\ pc[g] \in Early => store'.array # g /\ \A k \in Requests : cfg(k).array # g
  BY <1>3, HandlerFacts
<1>6. CASE /\ local' = [local EXCEPT ![h].data = Contents(Settled(cfg(h)))]
           /\ file' = Truncated /\ Goto(h, "save") /\ mu' = mu
  <2> DEFINE d == Contents(Settled(cfg(h)))
             r == [local[h] EXCEPT !.data = d]
  <2>1. d \in Files
    <3>1. Settled(cfg(h)) \in Config /\ SliceIn(heap, Settled(cfg(h)))
      BY <1>1, <1>3, <1>4
    <3> QED  BY <3>1, ContentsTyped
  <2> HIDE DEF d
  <2>2. local' = [local EXCEPT ![h] = r] /\ pc' = [pc EXCEPT ![h] = "save"]
    BY <1>6 DEF d, Goto
  <2>3. r \in Local /\ r.cfg = cfg(h) /\ r.op \in Ops /\ r.data = d
    BY <1>2, <2>1 DEF Local
  <2>4. Promise("save", r) /\ "save" \in Points /\ "save" \notin Early
    BY <2>1, <2>3 DEF Promise, WithOp, Points, Early
  <2> HIDE DEF r
  <2>5. /\ heap' \in Arrays /\ SliceIn(heap', store') /\ SliceIn(heap', r.cfg)
        /\ \A g \in Requests \ {h} : SliceIn(heap', cfg(g))
        /\ \A g \in Requests \ {h} : pc[g] \in Early => store'.array # g /\ r.cfg.array # g
    BY <1>1, <1>2, <1>4, <1>5, <2>3, TypeFacts
  <2>6. /\ mu' \in Requests \cup {NoOne} /\ mu' = h
        /\ \A g \in Requests \ {h} : mu' = g <=> mu = g
        /\ file' = Truncated \/ file' \in Files
        /\ pool' \in [Urls -> ServerConfig \cup {NoClient}]
        /\ discServers' \in Seq(Urls) /\ metricServers' \in Seq(Urls)
    BY <1>1, <1>2, <1>6, TypeFacts
  <2> QED  BY <1>1, <1>3, <2>2, <2>3, <2>4, <2>5, <2>6, HandlerStep
<1>7. CASE Reply(h) /\ mu' = NoOne /\ file' = file
  BY <1>1, <1>2, <1>3, <1>4, <1>5, <1>7, SetFailsType
<1> QED  BY <1>6, <1>7 DEF Commit

LEMMA SaveType ==
  ASSUME TypeInv, NEW h \in Requests, Save(h)
  PROVE  TypeInv'
<1>1. /\ pc[h] = "save" /\ mu' = NoOne
      /\ heap' = heap /\ store' = store /\ restarts' = restarts
      /\ pool' = pool /\ discServers' = discServers /\ metricServers' = metricServers
  BY DEF Save, runtime
<1>2. /\ local[h] \in Local /\ mu = h
      /\ local[h].op = op(h) /\ op(h) \in Ops /\ local[h].cfg = cfg(h) /\ local[h].data \in Files
  BY <1>1, HandlerFacts DEF Promise, WithOp
<1>3. /\ \A g \in Requests \ {h} : mu' = g <=> mu = g
      /\ mu' # h
  BY <1>1, <1>2, Names
<1>4. \A g \in Requests :
        /\ SliceIn(heap, cfg(g))
        /\ pc[g] \in Early => store.array # g /\ \A k \in Requests : cfg(k).array # g
  BY HandlerFacts
<1>5. CASE /\ file' = local[h].data /\ local' = local
           /\ Goto(h, IF Removes(h) THEN "remove" ELSE "sync")
  <2> DEFINE l == IF Removes(h) THEN "remove" ELSE "sync"
  <2>1. pc' = [pc EXCEPT ![h] = l] /\ local' = [local EXCEPT ![h] = local[h]]
    BY <1>5, TypeFacts DEF Goto
  <2>2. Promise(l, local[h])
    BY <1>2 DEF Promise, WithOp, Removes
  <2>3. l \in Points /\ l \notin Early /\ l \notin {"commit", "save"}
    BY DEF Points, WithOp, Early
  <2> HIDE DEF l
  <2>4. /\ heap' \in Arrays /\ store' \in Config /\ SliceIn(heap', store')
        /\ SliceIn(heap', local[h].cfg)
        /\ \A g \in Requests \ {h} : SliceIn(heap', cfg(g))
        /\ \A g \in Requests \ {h} : pc[g] \in Early => store'.array # g /\ local[h].cfg.array # g
    BY <1>1, <1>2, <1>4, TypeFacts
  <2>5. /\ mu' \in Requests \cup {NoOne}
        /\ file' = Truncated \/ file' \in Files
        /\ pool' \in [Urls -> ServerConfig \cup {NoClient}]
        /\ discServers' \in Seq(Urls) /\ metricServers' \in Seq(Urls)
    BY <1>1, <1>2, <1>5, TypeFacts
  <2> QED  BY <1>1, <1>2, <1>3, <2>1, <2>2, <2>3, <2>4, <2>5, HandlerStep
<1>6. CASE Reply(h) /\ file' = file
  BY <1>1, <1>2, <1>4, <1>6, TypeFacts, SetFailsType
<1> QED  BY <1>5, <1>6 DEF Save

-----------------------------------------------------------------------------
LEMMA RemoveServerType ==
  ASSUME TypeInv, NEW h \in Requests, RemoveServer(h)
  PROVE  TypeInv'
<1>1. /\ pc[h] = "remove" /\ pc' = [pc EXCEPT ![h] = "sync"] /\ local' = local
      /\ pool' = [pool EXCEPT ![op(h).id] = NoClient]
      /\ heap' = heap /\ store' = store /\ mu' = mu /\ file' = file /\ restarts' = restarts
      /\ discServers' = discServers /\ metricServers' = metricServers
  BY DEF RemoveServer, Goto
<1>2. pool' \in [Urls -> ServerConfig \cup {NoClient}]
  BY <1>1, TypeFacts
<1>3. local' = [local EXCEPT ![h] = local[h]]
  BY <1>1, TypeFacts
<1>4. Promise("sync", local[h]) /\ "sync" \in Points /\ "sync" \notin Early
  BY DEF Promise, WithOp, Points, Early
<1> QED  BY <1>1, <1>2, <1>3, <1>4, TypeFacts, HandlerFacts, QuietStep

LEMMA SyncGetType ==
  ASSUME TypeInv, NEW h \in Requests, SyncGet(h)
  PROVE  TypeInv'
<1> DEFINE r == [Fresh EXCEPT !.cfg = store, !.idx = 1]
<1>1. /\ pc[h] = "sync" /\ pc' = [pc EXCEPT ![h] = "pool"] /\ local' = [local EXCEPT ![h] = r]
      /\ heap' = heap /\ store' = store /\ mu' = mu /\ file' = file /\ restarts' = restarts
      /\ pool' = pool /\ discServers' = discServers /\ metricServers' = metricServers
  BY DEF SyncGet, Goto, runtime
<1>2. store \in Config
  BY TypeFacts
<1>3. r \in Local /\ r.cfg = store /\ r.idx = 1
  BY <1>2, FreshTyped DEF Local
<1> HIDE DEF r
<1>4. Promise("pool", r) /\ "pool" \in Points /\ "pool" \notin Early
  BY <1>3 DEF Promise, WithOp, Points, Early
<1> QED  BY <1>1, <1>3, <1>4, TypeFacts, QuietStep

LEMMA SyncPoolType ==
  ASSUME TypeInv, NEW h \in Requests, SyncPool(h)
  PROVE  TypeInv'
<1> DEFINE r == [local[h] EXCEPT !.idx = idx(h) + 1]
<1>1. /\ pc[h] = "pool" /\ pc' = pc /\ idx(h) <= cfg(h).len
      /\ local' = [local EXCEPT ![h].idx = @ + 1]
      /\ pool' = [pool EXCEPT ![Element(h).url] = Element(h)]
      /\ heap' = heap /\ store' = store /\ mu' = mu /\ file' = file /\ restarts' = restarts
      /\ discServers' = discServers /\ metricServers' = metricServers
  BY DEF SyncPool
<1>2. /\ local[h] \in Local /\ local[h].cfg = cfg(h) /\ idx(h) \in Nat /\ idx(h) >= 1
      /\ local[h].idx = idx(h)
  BY <1>1, HandlerFacts DEF Promise
<1>3. pc' = [pc EXCEPT ![h] = "pool"] /\ local' = [local EXCEPT ![h] = r]
  BY <1>1, <1>2, TypeFacts
<1>4. r \in Local /\ r.cfg = cfg(h) /\ r.idx = idx(h) + 1
  BY <1>2 DEF Local
<1> HIDE DEF r
<1>5. Promise("pool", r) /\ "pool" \in Points /\ "pool" \notin Early
  BY <1>2, <1>4 DEF Promise, WithOp, Points, Early
<1>6. pool' \in [Urls -> ServerConfig \cup {NoClient}]
  BY <1>1, <1>2, ElementTyped, TypeFacts
<1> QED  BY <1>1, <1>3, <1>4, <1>5, <1>6, TypeFacts, QuietStep

LEMMA SyncUrlsType ==
  ASSUME TypeInv, NEW h \in Requests, SyncUrls(h)
  PROVE  TypeInv'
<1> DEFINE us == UrlsOf(Contents(cfg(h)).servers)
           r == [Fresh EXCEPT !.urls = us]
<1>1. /\ pc[h] = "pool" /\ pc' = [pc EXCEPT ![h] = "disc"] /\ local' = [local EXCEPT ![h] = r]
      /\ heap' = heap /\ store' = store /\ mu' = mu /\ file' = file /\ restarts' = restarts
      /\ pool' = pool /\ discServers' = discServers /\ metricServers' = metricServers
  BY DEF SyncUrls, Goto, runtime
<1>2. us \in Seq(Urls)
  BY HandlerFacts, ContentsTyped, UrlsTyped
<1> HIDE DEF us
<1>3. r \in Local /\ r.cfg = Fresh.cfg
  BY <1>2, FreshTyped DEF Local
<1> HIDE DEF r
<1>4. Promise("disc", r) /\ "disc" \in Points /\ "disc" \notin Early
  BY DEF Promise, WithOp, Points, Early
<1> QED  BY <1>1, <1>3, <1>4, TypeFacts, QuietStep

LEMMA SyncDiscoveryType ==
  ASSUME TypeInv, NEW h \in Requests, SyncDiscovery(h)
  PROVE  TypeInv'
<1>1. /\ pc[h] = "disc" /\ pc' = [pc EXCEPT ![h] = "metrics"] /\ local' = local
      /\ discServers' = local[h].urls
      /\ heap' = heap /\ store' = store /\ mu' = mu /\ file' = file /\ restarts' = restarts
      /\ pool' = pool /\ metricServers' = metricServers
  BY DEF SyncDiscovery, Goto
<1>2. local[h] \in Local /\ local[h].cfg = cfg(h)
  BY HandlerFacts
<1>3. discServers' \in Seq(Urls)
  BY <1>1, <1>2 DEF Local
<1>4. local' = [local EXCEPT ![h] = local[h]]
  BY <1>1, TypeFacts
<1>5. Promise("metrics", local[h]) /\ "metrics" \in Points /\ "metrics" \notin Early
  BY DEF Promise, WithOp, Points, Early
<1> QED  BY <1>1, <1>2, <1>3, <1>4, <1>5, TypeFacts, QuietStep

LEMMA SyncMetricsType ==
  ASSUME TypeInv, NEW h \in Requests, SyncMetrics(h)
  PROVE  TypeInv'
<1>1. /\ pc[h] = "metrics" /\ Reply(h) /\ metricServers' = local[h].urls
      /\ heap' = heap /\ store' = store /\ mu' = mu /\ file' = file /\ restarts' = restarts
      /\ pool' = pool /\ discServers' = discServers
  BY DEF SyncMetrics
<1>2. metricServers' \in Seq(Urls)
  BY <1>1, HandlerFacts DEF Local
<1> QED  BY <1>1, <1>2, ReplyType

-----------------------------------------------------------------------------
(* Starting and restarting.                                                *)

LEMMA StartedFacts ==
  ASSUME NEW c \in Files, NEW hp, NEW st, NEW pl, NEW ds, NEW ms, Started(c, hp, st, pl, ds, ms)
  PROVE  /\ hp \in Arrays /\ st \in Config /\ SliceIn(hp, st)
         /\ pl \in [Urls -> ServerConfig \cup {NoClient}] /\ ds \in Seq(Urls) /\ ms \in Seq(Urls)
         /\ st.array = Boot /\ st.len = Len(c.servers) /\ st.global = c.global
         /\ hp[Boot] = c.servers
         /\ pl = Clients(c.servers) /\ ds = UrlsOf(c.servers) /\ ms = UrlsOf(c.servers)
         /\ c.servers \in Seq(ServerConfig)
<1> DEFINE s == c.servers
           S == ServerConfig \cup {NoServer}
<1>1. s \in Seq(ServerConfig) /\ c.global \in GlobalConfig
  BY DEF Files
<1> HIDE DEF s
<1>2. s \in Seq(S) /\ <<>> \in Seq(S) /\ Len(s) \in Nat
  BY <1>1
<1>3. /\ hp = [a \in Requests \cup {Boot} |-> IF a = Boot THEN s ELSE <<>>]
      /\ st = [array |-> Boot, len |-> Len(s), global |-> c.global]
      /\ pl = Clients(s) /\ ds = UrlsOf(s) /\ ms = UrlsOf(s)
  BY DEF Started, s
<1>4. hp \in Arrays /\ hp[Boot] = s
  <2> HIDE DEF S
  <2> QED  BY <1>2, <1>3 DEF Arrays, S
<1>5. st \in Config /\ st.array = Boot /\ st.len = Len(s) /\ st.global = c.global
  BY <1>1, <1>2, <1>3 DEF Config
<1>6. SliceIn(hp, st)
  BY <1>1, <1>2, <1>4, <1>5 DEF SliceIn
<1> QED  BY <1>1, <1>3, <1>4, <1>5, <1>6, ClientsMade, UrlsTyped DEF s

(* A process that has just started keeps every promise.                    *)
JustStarted ==
  /\ heap \in Arrays /\ store \in Config /\ SliceIn(heap, store) /\ store.array = Boot
  /\ mu = NoOne /\ (file \in Files \/ file = Truncated)
  /\ pool \in [Urls -> ServerConfig \cup {NoClient}]
  /\ discServers \in Seq(Urls) /\ metricServers \in Seq(Urls) /\ restarts \in 0..MaxRestarts
  /\ pc \in [Requests -> {"new", "done"}] /\ local = [h \in Requests |-> Fresh]

LEMMA StartInv == JustStarted => TypeInv
<1> SUFFICES ASSUME JustStarted PROVE TypeInv
  OBVIOUS
<1> USE DEF JustStarted
<1>1. \A h \in Requests : local[h] = Fresh /\ cfg(h) = Fresh.cfg /\ pc[h] \in {"new", "done"}
  BY DEF cfg
<1>2. SliceIn(heap, Fresh.cfg) /\ Fresh.cfg.len <= Len(heap[Fresh.cfg.array])
  <2>1. Len(heap[Boot]) \in Nat
    BY DEF Arrays
  <2> QED  BY <2>1, FreshTyped DEF SliceIn
<1>3. pc \in [Requests -> Points] /\ local \in [Requests -> Local]
  BY FreshTyped DEF Points, Early
<1>4. Unshared
  BY <1>1, FreshTyped, Names DEF Unshared
<1>5. Promises
  BY <1>1 DEF Promises, Promise, WithOp
<1>6. Locked
  BY <1>1, Names DEF Locked
<1>7. Slices
  BY <1>1, <1>2 DEF Slices
<1>8. TypeOK
  <2>1. \A h \in Requests :
          /\ cfg(h) \in Config /\ cfg(h).len <= Len(heap[cfg(h).array])
          /\ pc[h] \notin {"write", "shift"}
    BY <1>1, <1>2, FreshTyped
  <2>2. store.len <= Len(heap[store.array])
    BY DEF SliceIn
  <2> QED  BY <2>1, <2>2 DEF TypeOK, Arrays, Files
<1> QED  BY <1>3, <1>4, <1>5, <1>6, <1>7, <1>8 DEF TypeInv, Shapes

LEMMA InitFacts ==
  ASSUME Init
  PROVE  \E f \in Files \cup {Missing} :
           /\ file = (IF f = Missing THEN Loaded(f) ELSE f)
           /\ Loaded(f) \in Files
           /\ Started(Loaded(f), heap, store, pool, discServers, metricServers)
<1>1. PICK f \in InitFiles :
        /\ file = (IF f = Missing THEN Loaded(f) ELSE f)
        /\ Started(Loaded(f), heap, store, pool, discServers, metricServers)
  BY DEF Init
<1>2. /\ InitFiles \subseteq [servers : Seq(ServerConfig), global : Globals] \cup {Missing}
      /\ Globals \subseteq GlobalConfig
  BY AdminAssumption
<1>3. f \in Files \cup {Missing}
  BY <1>2 DEF Files
<1>4. Loaded(f) \in Files
  BY <1>3, LoadedType
<1> QED  BY <1>1, <1>3, <1>4

LEMMA InitType ==
  ASSUME Init
  PROVE  TypeInv
<1>1. PICK f \in Files \cup {Missing} :
        /\ file = (IF f = Missing THEN Loaded(f) ELSE f)
        /\ Loaded(f) \in Files
        /\ Started(Loaded(f), heap, store, pool, discServers, metricServers)
  BY InitFacts
<1>2. file \in Files
  BY <1>1
<1>3. /\ mu = NoOne /\ restarts = 0 /\ pc \in [Requests -> {"new", "done"}]
      /\ local = [h \in Requests |-> Fresh]
  BY DEF Init
<1>4. restarts \in 0..MaxRestarts
  BY <1>3, AdminAssumption
<1>5. JustStarted
  BY <1>1, <1>2, <1>3, <1>4, StartedFacts DEF JustStarted
<1> QED  BY <1>5, StartInv

LEMMA RestartFacts ==
  ASSUME TypeInv, Restart
  PROVE  /\ file' = file /\ Loaded(file) \in Files
         /\ Started(Loaded(file), heap', store', pool', discServers', metricServers')
         /\ mu' = NoOne /\ restarts' \in 0..MaxRestarts
         /\ pc' \in [Requests -> {"new", "done"}] /\ local' = [h \in Requests |-> Fresh]
<1>1. file' = file /\ Loaded(file) \in Files
  BY TypeFacts, LoadedType DEF Restart
<1>2. restarts' \in 0..MaxRestarts
  <2>1. restarts \in 0..MaxRestarts /\ restarts < MaxRestarts /\ restarts' = restarts + 1
    BY TypeFacts DEF Restart
  <2>2. MaxRestarts \in Nat
    BY AdminAssumption
  <2> QED  BY <2>1, <2>2
<1>3. pc' \in [Requests -> {"new", "done"}]
  BY DEF Restart, Running
<1> QED  BY <1>1, <1>2, <1>3 DEF Restart

LEMMA RestartType ==
  ASSUME TypeInv, Restart
  PROVE  TypeInv'
<1>1. /\ heap' \in Arrays /\ store' \in Config /\ SliceIn(heap', store') /\ store'.array = Boot
      /\ pool' \in [Urls -> ServerConfig \cup {NoClient}]
      /\ discServers' \in Seq(Urls) /\ metricServers' \in Seq(Urls)
  BY RestartFacts, StartedFacts
<1>2. file' \in Files \/ file' = Truncated
  BY RestartFacts, TypeFacts
<1>3. JustStarted'
  BY <1>1, <1>2, RestartFacts DEF JustStarted
<1>4. JustStarted' => TypeInv'
  BY StartInv, PTL
<1> QED  BY <1>3, <1>4

LEMMA TypeStep ==
  ASSUME TypeInv, [Next]_vars
  PROVE  TypeInv'
<1>1. CASE UNCHANGED vars
  BY <1>1 DEF vars, runtime, TypeInv, TypeOK, Shapes, Slices, Unshared, Promises, Locked, cfg, idx
<1>2. ASSUME NEW h \in Requests, Handle(h)
      PROVE  TypeInv'
  BY <1>2, ReceiveType, GetType, ExamineType, NotFoundType, AppendServerType, WriteBackType,
     ShiftType, SetCheckType, CommitType, SaveType, RemoveServerType, SyncGetType, SyncPoolType,
     SyncUrlsType, SyncDiscoveryType, SyncMetricsType DEF Handle
<1> QED  BY <1>1, <1>2, RestartType DEF Next

(* Every variable keeps its type, every slice lies within its array, and   *)
(* s.mu is held by a handler inside Set, for all constants.                *)
THEOREM AdminTypeCorrect == Spec => []TypeOK
<1>1. Init => TypeInv
  BY InitType
<1>2. TypeInv /\ [Next]_vars => TypeInv'
  BY TypeStep
<1>3. TypeInv => TypeOK
  BY DEF TypeInv
<1> QED  BY <1>1, <1>2, <1>3, PTL DEF Spec

-----------------------------------------------------------------------------
(* What steps do to the state outside the handler.                         *)

(* Between the change of a slice and the end of Set.                       *)
Setting == {"set", "commit", "save"}

(* A step that touches nothing Set is about.                               *)
Aside(h) ==
  /\ heap' = heap /\ store' = store /\ file' = file /\ failed' = failed
  /\ pc[h] \notin Setting /\ pc'[h] \notin Setting

LEMMA OthersStay ==
  ASSUME TypeInv, NEW h \in Requests, Handle(h), NEW g \in Requests \ {h}
  PROVE  pc'[g] = pc[g] /\ local'[g] = local[g] /\ cfg(g)' = cfg(g) /\ idx(g)' = idx(g)
<1>1. pc \in [Requests -> Points] /\ local \in [Requests -> Local]
  BY TypeFacts
<1>2. pc'[g] = pc[g] /\ local'[g] = local[g]
  <2>1. CASE Receive(h)
    BY <1>1, <2>1 DEF Receive, Goto
  <2>2. CASE Get(h)
    BY <1>1, <2>2 DEF Get, Goto
  <2>3. CASE Examine(h)
    BY <1>1, <2>3 DEF Examine, Goto, Reply
  <2>4. CASE NotFound(h)
    BY <1>1, <2>4 DEF NotFound, Goto, Reply
  <2>5. CASE AppendServer(h)
    BY <1>1, <2>5 DEF AppendServer, Goto
  <2>6. CASE WriteBack(h) \/ Shift(h)
    BY <1>1, <2>6 DEF WriteBack, Shift, Goto
  <2>7. CASE SetCheck(h) \/ Commit(h) \/ Save(h)
    BY <1>1, <2>7 DEF SetCheck, Commit, Save, Goto, Reply
  <2>8. CASE RemoveServer(h) \/ SyncGet(h) \/ SyncPool(h) \/ SyncUrls(h)
    BY <1>1, <2>8 DEF RemoveServer, SyncGet, SyncPool, SyncUrls, Goto
  <2>9. CASE SyncDiscovery(h) \/ SyncMetrics(h)
    BY <1>1, <2>9 DEF SyncDiscovery, SyncMetrics, Goto, Reply
  <2> QED  BY <2>1, <2>2, <2>3, <2>4, <2>5, <2>6, <2>7, <2>8, <2>9 DEF Handle
<1> QED  BY <1>2 DEF cfg, idx

(* A handler still reads the configuration, has just changed its slice, is *)
(* in Set, or brings pool, discovery and collector up to date.             *)
LEMMA HandleCases ==
  ASSUME TypeInv, NEW h \in Requests, Handle(h)
  PROVE  \/ /\ Aside(h) /\ UNCHANGED runtime
            /\ pc[h] \in Early /\ pc'[h] \in (Early \ {"new"}) \cup {"done"}
            /\ pc[h] = "new" => pc'[h] = "get"
         \/ pc[h] \in Early /\ pc'[h] = "set" /\ file' = file /\ UNCHANGED runtime
         \/ SetCheck(h) \/ Commit(h) \/ Save(h)
         \/ Aside(h) /\ pc[h] = "remove" /\ pc'[h] = "sync" /\ RemoveServer(h)
         \/ Aside(h) /\ pc[h] = "sync" /\ pc'[h] = "pool" /\ SyncGet(h)
         \/ Aside(h) /\ pc[h] = "pool" /\ pc'[h] = "pool" /\ SyncPool(h)
         \/ Aside(h) /\ pc[h] = "pool" /\ pc'[h] = "disc" /\ SyncUrls(h)
         \/ Aside(h) /\ pc[h] = "disc" /\ pc'[h] = "metrics" /\ SyncDiscovery(h)
         \/ Aside(h) /\ pc[h] = "metrics" /\ pc'[h] = "done" /\ SyncMetrics(h)
<1>1. pc \in [Requests -> Points]
  BY TypeFacts
<1> USE DEF Aside, Setting, Early, runtime, Goto, Reply
<1>2. CASE Receive(h)
  BY <1>1, <1>2 DEF Receive
<1>3. CASE Get(h)
  BY <1>1, <1>3 DEF Get
<1>4. CASE Examine(h)
  BY <1>1, <1>4 DEF Examine
<1>5. CASE NotFound(h)
  BY <1>1, <1>5 DEF NotFound
<1>6. CASE AppendServer(h)
  BY <1>1, <1>6 DEF AppendServer
<1>7. CASE WriteBack(h) \/ Shift(h)
  BY <1>1, <1>7 DEF WriteBack, Shift
<1>8. CASE RemoveServer(h)
  BY <1>1, <1>8 DEF RemoveServer
<1>9. CASE SyncGet(h)
  BY <1>1, <1>9 DEF SyncGet
<1>10. CASE SyncPool(h)
  BY <1>1, <1>10 DEF SyncPool
<1>11. CASE SyncUrls(h)
  BY <1>1, <1>11 DEF SyncUrls
<1>12. CASE SyncDiscovery(h)
  BY <1>1, <1>12 DEF SyncDiscovery
<1>13. CASE SyncMetrics(h)
  BY <1>1, <1>13 DEF SyncMetrics
<1> QED  BY <1>2, <1>3, <1>4, <1>5, <1>6, <1>7, <1>8, <1>9, <1>10, <1>11, <1>12, <1>13 DEF Handle

-----------------------------------------------------------------------------
(* The file and the store.                                                 *)

(* When nobody is on the way to Set or in it, the file has what runs.      *)
FileCurrent ==
  (\A h \in Requests : pc[h] \notin Setting) /\ ~failed =>
    Loaded(file) = [Contents(store) EXCEPT !.global = applyEnvOverrides(@)]

(* What Set is about to write is what runs, unless a handler has changed   *)
(* the shared array since; that one is on its way to Set.                  *)
DataCurrent ==
  \A h \in Requests :
    pc[h] = "save" /\ (\A g \in Requests : pc[g] # "set") => local[h].data = Contents(store)

FileInv == TypeInv /\ FileCurrent /\ DataCurrent

(* A configuration is loaded as it was saved.                              *)
LEMMA SavedLoads ==
  ASSUME TypeInv
  PROVE  Loaded(Contents(store)) = [Contents(store) EXCEPT !.global = applyEnvOverrides(@)]
<1> DEFINE c == Contents(store)
<1>1. c \in Files
  BY TypeFacts, ContentsTyped
<1> HIDE DEF c
<1>2. Loaded(c) = [servers |-> c.servers, global |-> applyEnvOverrides(c.global)]
  BY <1>1, LoadedType
<1> QED  BY <1>1, <1>2 DEF Files, c

(* A process that has just started runs what it would load again.          *)
LEMMA StartedRuns ==
  ASSUME NEW f \in Files \cup {Missing, Truncated}, NEW g,
         f = Missing => g = Loaded(f), f # Missing => g = f,
         NEW hp, NEW st, NEW pl, NEW ds, NEW ms, Started(Loaded(f), hp, st, pl, ds, ms)
  PROVE  Loaded(g) = [servers |-> SubSeq(hp[st.array], 1, st.len),
                      global |-> applyEnvOverrides(st.global)]
<1> DEFINE c == Loaded(f)
<1>1. c \in Files
  BY LoadedType
<1>2. /\ st.array = Boot /\ st.len = Len(c.servers) /\ st.global = c.global /\ hp[Boot] = c.servers
      /\ c.servers \in Seq(ServerConfig)
  <2> HIDE DEF c
  <2> QED  BY <1>1, StartedFacts DEF c
<1>3. SubSeq(hp[st.array], 1, st.len) = c.servers
  BY <1>2, SubSeqFull
<1>4. Loaded(g) = [servers |-> c.servers, global |-> applyEnvOverrides(c.global)]
  <2>1. CASE f \in Files
    <3>1. g = f /\ c = [servers |-> f.servers, global |-> applyEnvOverrides(f.global)]
      BY <2>1, FileNames, LoadedType
    <3>2. f.global \in GlobalConfig
      BY <2>1 DEF Files
    <3>3. c.servers = f.servers /\ c.global = applyEnvOverrides(f.global)
      BY <3>1
    <3>4. applyEnvOverrides(c.global) = applyEnvOverrides(f.global)
      BY <3>2, <3>3, EnvAbsorbs
    <3> QED  BY <3>1, <3>3, <3>4
  <2>2. CASE f = Missing
    <3>1. g = c /\ c.global = DefaultGlobal
      BY <2>2, LoadedType
    <3> HIDE DEF c
    <3> QED  BY <1>1, <3>1, LoadedType
  <2>3. CASE f = Truncated
    <3>1. /\ g = f /\ c = [servers |-> <<>>, global |-> applyEnvOverrides(DefaultGlobal)]
      BY <2>3, FileNames, LoadedType
    <3>2. DefaultGlobal \in GlobalConfig
      BY DEF DefaultGlobal, GlobalConfig
    <3>3. c.servers = <<>> /\ c.global = applyEnvOverrides(DefaultGlobal)
      BY <3>1
    <3>4. applyEnvOverrides(c.global) = applyEnvOverrides(DefaultGlobal)
      BY <3>2, <3>3, EnvAbsorbs
    <3> QED  BY <3>1, <3>3, <3>4
  <2> QED  BY <2>1, <2>2, <2>3
<1> QED  BY <1>2, <1>3, <1>4

LEMMA FileHandle ==
  ASSUME FileInv, NEW h \in Requests, Handle(h)
  PROVE  FileCurrent' /\ DataCurrent'
<1>1. TypeInv /\ FileCurrent /\ DataCurrent
  BY DEF FileInv
<1>2. \A g \in Requests \ {h} : pc'[g] = pc[g] /\ local'[g] = local[g]
  BY <1>1, OthersStay
<1>3. pc \in [Requests -> Points] /\ local \in [Requests -> Local]
  BY <1>1, TypeFacts
<1>4. \A g \in Requests : pc[g] \in {"commit", "save"} <=> mu = g
  BY <1>1, HandlerFacts
<1>5. CASE Aside(h)
  <2>1. /\ file' = file /\ failed' = failed /\ Contents(store)' = Contents(store)
        /\ pc[h] \notin Setting /\ pc'[h] \notin Setting
    BY <1>5 DEF Aside, Contents
  <2>2. FileCurrent'
    <3>1. (\A g \in Requests : pc'[g] \notin Setting) => \A g \in Requests : pc[g] \notin Setting
      BY <1>2, <2>1
    <3>2. Loaded(file)' = Loaded(file)
      BY <2>1
    <3> QED  BY <1>1, <2>1, <3>1, <3>2 DEF FileCurrent
  <2>3. pc[h] \notin {"set", "save"} /\ pc'[h] \notin {"set", "save"}
    BY <2>1 DEF Setting
  <2>4. DataCurrent'
    BY <1>1, <1>2, <2>1, <2>3 DEF DataCurrent
  <2> QED  BY <2>2, <2>4
<1>6. CASE pc'[h] = "set"
  BY <1>6 DEF FileCurrent, DataCurrent, Setting
<1>7. CASE SetCheck(h)
  <2>1. mu = NoOne /\ pc[h] = "set"
    BY <1>7 DEF SetCheck
  <2>2. \A g \in Requests : pc[g] # "save"
    BY <1>4, <2>1, Names
  <2>3. pc'[h] = "commit" \/ (pc'[h] = "done" /\ failed')
    BY <1>3, <1>7 DEF SetCheck, Goto, Reply
  <2>4. DataCurrent'
    BY <1>2, <2>2, <2>3 DEF DataCurrent
  <2> QED  BY <2>3, <2>4 DEF FileCurrent, Setting
<1>8. CASE Commit(h)
  <2>1. pc[h] = "commit" /\ mu = h
    BY <1>4, <1>8 DEF Commit
  <2>2. \A g \in Requests \ {h} : pc'[g] # "save"
    BY <1>2, <1>4, <2>1
  <2>3. \/ pc'[h] = "save" /\ local'[h].data = Contents(Settled(cfg(h)))
        \/ pc'[h] = "done" /\ failed'
    BY <1>3, <1>8 DEF Commit, Goto, Reply, Local
  <2>4. Contents(store)' = Contents(Settled(cfg(h)))
    BY <1>8 DEF Commit, Contents
  <2>5. DataCurrent'
    BY <2>2, <2>3, <2>4 DEF DataCurrent
  <2> QED  BY <2>3, <2>5 DEF FileCurrent, Setting
<1>9. CASE Save(h)
  <2>1. pc[h] = "save" /\ mu = h
    BY <1>4, <1>9 DEF Save
  <2>2. Contents(store)' = Contents(store)
    BY <1>9 DEF Save, Contents
  <2>3. \/ pc'[h] \in {"remove", "sync"} /\ file' = local[h].data
        \/ pc'[h] = "done" /\ failed'
    BY <1>3, <1>9 DEF Save, Goto, Reply
  <2>4. \A g \in Requests : pc'[g] # "save"
    BY <1>2, <1>4, <2>1, <2>3
  <2>5. DataCurrent'
    BY <2>4 DEF DataCurrent
  <2>6. ASSUME \A g \in Requests : pc'[g] \notin Setting, ~failed'
        PROVE  Loaded(file)' = [Contents(store) EXCEPT !.global = applyEnvOverrides(@)]
    <3>1. \A g \in Requests : pc[g] # "set"
      BY <1>2, <2>1, <2>6 DEF Setting
    <3>2. file' = Contents(store)
      BY <1>1, <2>1, <2>3, <2>6, <3>1 DEF DataCurrent
    <3>3. Loaded(file)' = Loaded(Contents(store))
      BY <3>2 DEF Loaded
    <3> QED  BY <1>1, <3>3, SavedLoads
  <2> QED  BY <2>2, <2>5, <2>6 DEF FileCurrent
<1> QED  BY <1>1, <1>5, <1>6, <1>7, <1>8, <1>9, HandleCases

LEMMA GlobalReplaced ==
  ASSUME NEW sv, NEW gl, NEW c, c = [servers |-> sv, global |-> gl]
  PROVE  [c EXCEPT !.global = applyEnvOverrides(@)] =
           [servers |-> sv, global |-> applyEnvOverrides(gl)]
OBVIOUS

LEMMA FileRestart ==
  ASSUME FileInv, Restart
  PROVE  FileCurrent' /\ DataCurrent'
<1>1. TypeInv
  BY DEF FileInv
<1>2. \A h \in Requests : pc'[h] \in {"new", "done"}
  BY <1>1, RestartFacts
<1>3. DataCurrent'
  BY <1>2 DEF DataCurrent
<1>4. file \in Files \cup {Missing, Truncated} /\ file # Missing /\ file' = file
  BY <1>1, TypeFacts, FileNames, RestartFacts
<1>5. Loaded(file) = [servers |-> SubSeq(heap'[store'.array], 1, store'.len),
                      global |-> applyEnvOverrides(store'.global)]
  BY <1>1, <1>4, RestartFacts, StartedRuns
<1>6. Contents(store)' = [servers |-> SubSeq(heap'[store'.array], 1, store'.len),
                          global |-> store'.global]
  BY DEF Contents
<1>7. Loaded(file)' = [Contents(store)' EXCEPT !.global = applyEnvOverrides(@)]
  BY <1>4, <1>5, <1>6, GlobalReplaced
<1> QED  BY <1>3, <1>7 DEF FileCurrent

LEMMA FileInit ==
  ASSUME Init
  PROVE  FileInv
<1>1. PICK f \in Files \cup {Missing} :
        /\ file = (IF f = Missing THEN Loaded(f) ELSE f)
        /\ Started(Loaded(f), heap, store, pool, discServers, metricServers)
  BY InitFacts
<1>2. Loaded(file) = [servers |-> SubSeq(heap[store.array], 1, store.len),
                      global |-> applyEnvOverrides(store.global)]
  <2>1. f \in Files \cup {Missing, Truncated}
    OBVIOUS
  <2>2. f = Missing => file = Loaded(f)
    BY <1>1
  <2>3. f # Missing => file = f
    BY <1>1
  <2>4. Started(Loaded(f), heap, store, pool, discServers, metricServers)
    BY <1>1
  <2> QED  BY <2>1, <2>2, <2>3, <2>4, StartedRuns
<1>3. Contents(store) = [servers |-> SubSeq(heap[store.array], 1, store.len), global |-> store.global]
  BY DEF Contents
<1>4. FileCurrent
  BY <1>2, <1>3, GlobalReplaced DEF FileCurrent
<1>5. \A h \in Requests : pc[h] = "new"
  BY DEF Init
<1>6. DataCurrent
  BY <1>5 DEF DataCurrent
<1> QED  BY <1>4, <1>6, InitType DEF FileInv

LEMMA FileStep ==
  ASSUME FileInv, [Next]_vars
  PROVE  FileInv'
<1>1. TypeInv /\ FileCurrent /\ DataCurrent
  BY DEF FileInv
<1>2. TypeInv'
  BY <1>1, TypeStep
<1>3. CASE UNCHANGED vars
  <2>1. FileCurrent' /\ DataCurrent'
    BY <1>1, <1>3 DEF vars, FileCurrent, DataCurrent, Contents
  <2> QED  BY <1>2, <2>1 DEF FileInv
<1> QED  BY <1>2, <1>3, FileHandle, FileRestart DEF Next, FileInv

(* However administration requests interleave on the shared array, fail    *)
(* and crash: when none runs and the last Set succeeded, a restart would   *)
(* load the configuration that runs, up to the environment's settings.     *)
THEOREM RestartLoadsStore == Spec => []FileMatchesStore
<1>1. Init => FileInv
  BY FileInit
<1>2. FileInv /\ [Next]_vars => FileInv'
  BY FileStep
<1>3. FileInv => FileMatchesStore
  BY DEF FileInv, FileCurrent, FileMatchesStore, Quiet, Running, Setting
<1> QED  BY <1>1, <1>2, <1>3, PTL DEF Spec

-----------------------------------------------------------------------------
(* The pool and the store.                                                 *)

(* A handler in syncServers comes to the i-th configured server yet.       *)
WillPool(i) == \E h \in Requests : pc[h] = "pool" /\ cfg(h) = store /\ idx(h) <= i

(* Every configured server has a client or gets one: from a handler whose  *)
(* syncServers is to come, or from one whose loop has not reached it.      *)
Pooled ==
  \/ \E h \in Requests : pc[h] \in Setting \cup {"remove", "sync"}
  \/ failed
  \/ \A i \in 1..store.len : pool[heap[store.array][i].url] # NoClient \/ WillPool(i)

PoolInv == TypeInv /\ Pooled

LEMMA PoolHandle ==
  ASSUME PoolInv, NEW h \in Requests, Handle(h)
  PROVE  Pooled'
<1>1. TypeInv /\ Pooled
  BY DEF PoolInv
<1>2. \A g \in Requests \ {h} : pc'[g] = pc[g] /\ cfg(g)' = cfg(g) /\ idx(g)' = idx(g)
  BY <1>1, OthersStay
<1>3. pc \in [Requests -> Points] /\ local \in [Requests -> Local]
  BY <1>1, TypeFacts
<1>4. CASE pc'[h] \in Setting \cup {"remove", "sync"}
  BY <1>4 DEF Pooled
<1>5. CASE failed'
  BY <1>5 DEF Pooled
<1>6. CASE /\ Aside(h) /\ pool' = pool
           /\ pc[h] \notin {"remove", "sync", "pool"} /\ pc'[h] \notin {"remove", "sync", "pool"}
  <2>1. /\ heap' = heap /\ store' = store /\ failed' = failed
        /\ pc[h] \notin Setting /\ pc'[h] \notin Setting
    BY <1>6 DEF Aside
  <2>2. CASE \E g \in Requests : pc[g] \in Setting \cup {"remove", "sync"}
    BY <1>2, <1>6, <2>1, <2>2 DEF Pooled
  <2>3. CASE failed
    BY <2>1, <2>3 DEF Pooled
  <2>4. CASE \A i \in 1..store.len : pool[heap[store.array][i].url] # NoClient \/ WillPool(i)
    <3>1. \A i : WillPool(i) => WillPool(i)'
      BY <1>2, <1>6, <2>1 DEF WillPool
    <3> QED  BY <1>6, <2>1, <2>4, <3>1 DEF Pooled
  <2> QED  BY <1>1, <2>2, <2>3, <2>4 DEF Pooled
<1>7. CASE pc'[h] = "pool" /\ SyncGet(h)
  <2>1. /\ cfg(h)' = store /\ idx(h)' = 1 /\ store' = store
    BY <1>3, <1>7, FreshTyped DEF SyncGet, cfg, idx, Local
  <2>2. \A i \in 1..store.len : WillPool(i)'
    <3>1. \A i \in 1..store.len : 1 <= i
      OBVIOUS
    <3> QED  BY <1>7, <2>1, <3>1 DEF WillPool
  <2> QED  BY <2>1, <2>2 DEF Pooled
<1>8. CASE Aside(h) /\ pc[h] = "pool" /\ (SyncPool(h) \/ SyncUrls(h))
  <2>1. /\ heap' = heap /\ store' = store /\ failed' = failed /\ pc'[h] \notin Setting
    BY <1>8 DEF Aside
  <2>2. CASE \E g \in Requests : pc[g] \in Setting \cup {"remove", "sync"}
    <3>1. pc[h] \notin Setting \cup {"remove", "sync"}
      BY <1>8 DEF Setting
    <3> QED  BY <1>2, <2>2, <3>1 DEF Pooled
  <2>3. CASE failed
    BY <2>1, <2>3 DEF Pooled
  <2>4. CASE \A i \in 1..store.len : pool[heap[store.array][i].url] # NoClient \/ WillPool(i)
    <3>1. ASSUME NEW i \in 1..store.len
          PROVE  pool'[heap[store.array][i].url] # NoClient \/ WillPool(i)'
      <4> DEFINE u == heap[store.array][i].url
      <4>1. u \in Urls /\ i \in Nat /\ store.len \in Nat
        BY <1>1, TypeFacts, ServerUrl DEF SliceIn, Config
      <4>2. pool \in [Urls -> ServerConfig \cup {NoClient}]
        BY <1>1, TypeFacts
      <4>3. idx(h) \in Nat /\ idx(h) >= 1 /\ cfg(h) \in Config
        BY <1>1, <1>8, HandlerFacts DEF Promise
      <4>4. CASE SyncPool(h)
        <5>1. /\ idx(h)' = idx(h) + 1 /\ cfg(h)' = cfg(h) /\ pc'[h] = "pool"
              /\ idx(h) <= cfg(h).len
              /\ pool' = [pool EXCEPT ![Element(h).url] = Element(h)]
          BY <1>3, <1>8, <4>4 DEF SyncPool, idx, cfg, Local
        <5>2. Element(h) \in ServerConfig /\ Element(h).url \in Urls
          BY <1>1, <4>3, <5>1, ElementTyped
        <5>3. CASE pool[u] # NoClient
          BY <4>1, <4>2, <5>1, <5>2, <5>3, Names
        <5>4. CASE \E g \in Requests \ {h} : pc[g] = "pool" /\ cfg(g) = store /\ idx(g) <= i
          BY <1>2, <2>1, <5>4 DEF WillPool
        <5>5. CASE cfg(h) = store /\ idx(h) <= i
          <6>1. CASE idx(h) = i
            <7>1. Element(h).url = u
              BY <5>5, <6>1 DEF Element
            <7> QED  BY <4>2, <5>1, <5>2, <7>1, Names
          <6>2. CASE idx(h) # i
            <7>1. idx(h) + 1 <= i
              BY <4>1, <4>3, <5>5, <6>2
            <7> QED  BY <2>1, <5>1, <5>5, <7>1 DEF WillPool
          <6> QED  BY <6>1, <6>2
        <5> QED  BY <2>4, <5>3, <5>4, <5>5 DEF WillPool
      <4>5. CASE SyncUrls(h)
        <5>1. idx(h) > cfg(h).len /\ pool' = pool
          BY <4>5 DEF SyncUrls, runtime
        <5>2. ~(cfg(h) = store /\ idx(h) <= i)
          BY <4>1, <4>3, <5>1
        <5>3. WillPool(i) => WillPool(i)'
          BY <1>2, <2>1, <5>2 DEF WillPool
        <5> QED  BY <2>4, <5>1, <5>3
      <4> QED  BY <1>8, <4>4, <4>5
    <3> QED  BY <2>1, <3>1 DEF Pooled
  <2> QED  BY <1>1, <2>2, <2>3, <2>4 DEF Pooled
<1>9. CASE SetCheck(h)
  <2>1. pc'[h] = "commit" \/ failed'
    BY <1>3, <1>9 DEF SetCheck, Goto
  <2> QED  BY <1>4, <1>5, <2>1 DEF Setting
<1>10. CASE Commit(h)
  <2>1. pc'[h] = "save" \/ failed'
    BY <1>3, <1>10 DEF Commit, Goto
  <2> QED  BY <1>4, <1>5, <2>1 DEF Setting
<1>11. CASE Save(h)
  <2>1. pc'[h] \in {"remove", "sync"} \/ failed'
    BY <1>3, <1>11 DEF Save, Goto
  <2> QED  BY <1>4, <1>5, <2>1
<1>12. CASE /\ Aside(h) /\ UNCHANGED runtime
            /\ pc[h] \in Early /\ pc'[h] \in (Early \ {"new"}) \cup {"done"}
  BY <1>6, <1>12 DEF runtime, Early
<1>13. CASE pc'[h] = "set" \/ pc'[h] = "sync"
  BY <1>4, <1>13 DEF Setting
<1>14. CASE Aside(h) /\ pc[h] = "disc" /\ pc'[h] = "metrics" /\ SyncDiscovery(h)
  BY <1>6, <1>14 DEF SyncDiscovery
<1>15. CASE Aside(h) /\ pc[h] = "metrics" /\ pc'[h] = "done" /\ SyncMetrics(h)
  BY <1>6, <1>15 DEF SyncMetrics
<1> QED  BY <1>1, <1>7, <1>8, <1>9, <1>10, <1>11, <1>12, <1>13, <1>14, <1>15, HandleCases

(* Starting makes a client for every server.                               *)
LEMMA StartedPools ==
  ASSUME NEW c \in Files, NEW hp, NEW st, NEW pl, NEW ds, NEW ms, Started(c, hp, st, pl, ds, ms)
  PROVE  \A i \in 1..st.len : pl[hp[st.array][i].url] # NoClient
<1>1. /\ st.array = Boot /\ st.len = Len(c.servers) /\ hp[Boot] = c.servers
      /\ pl = Clients(c.servers) /\ c.servers \in Seq(ServerConfig)
  BY StartedFacts
<1>2. DOMAIN c.servers = 1..Len(c.servers)
  BY <1>1
<1> QED  BY <1>1, <1>2, ClientsMade, Names

LEMMA PoolStep ==
  ASSUME PoolInv, [Next]_vars
  PROVE  PoolInv'
<1>1. TypeInv /\ Pooled
  BY DEF PoolInv
<1>2. TypeInv'
  BY <1>1, TypeStep
<1>3. CASE UNCHANGED vars
  <2>1. Pooled'
    BY <1>1, <1>3 DEF vars, runtime, Pooled, WillPool, cfg, idx
  <2> QED  BY <1>2, <2>1 DEF PoolInv
<1>4. CASE Restart
  <2>1. \A i \in 1..store'.len : pool'[heap'[store'.array][i].url] # NoClient
    BY <1>1, <1>4, RestartFacts, StartedPools
  <2> QED  BY <1>2, <2>1 DEF PoolInv, Pooled
<1> QED  BY <1>2, <1>3, <1>4, PoolHandle DEF Next, PoolInv

(* When no administration request runs and the last Set succeeded, every   *)
(* configured server has a client, however the requests interleaved.       *)
THEOREM AllPooled == Spec => []ConfiguredArePooled
<1>1. Init => PoolInv
  <2> SUFFICES ASSUME Init PROVE PoolInv
    OBVIOUS
  <2>1. PICK f \in Files \cup {Missing} :
          /\ Loaded(f) \in Files
          /\ Started(Loaded(f), heap, store, pool, discServers, metricServers)
    BY InitFacts
  <2>2. \A i \in 1..store.len : pool[heap[store.array][i].url] # NoClient
    BY <2>1, StartedPools
  <2> QED  BY <2>2, InitType DEF PoolInv, Pooled
<1>2. PoolInv /\ [Next]_vars => PoolInv'
  BY PoolStep
<1>3. PoolInv => ConfiguredArePooled
  BY DEF PoolInv, Pooled, WillPool, ConfiguredArePooled, Quiet, Running, Setting
<1> QED  BY <1>1, <1>2, <1>3, PTL DEF Spec

-----------------------------------------------------------------------------
(* Requests that come in turn.                                             *)

Server(i) == heap[store.array][i]

(* The pool after the first n servers.                                     *)
PooledUpTo(n) ==
  \A i \in 1..n :
    (\A j \in (i + 1)..n : Server(j).url # Server(i).url) => pool[Server(i).url] = Server(i)

Configured == [i \in 1..store.len |-> Server(i).url]

Solo == \A g, h \in Requests : Running(g) /\ Running(h) => g = h

(* How far syncServers has come.                                           *)
Progress(h) ==
  /\ pc[h] = "pool" => cfg(h) = store /\ idx(h) <= store.len + 1 /\ PooledUpTo(idx(h) - 1)
  /\ pc[h] \in {"disc", "metrics"} => PooledUpTo(store.len) /\ local[h].urls = Configured
  /\ pc[h] = "metrics" => discServers = Configured

InStep == PooledUpTo(store.len) /\ discServers = Configured /\ metricServers = Configured

InTurn ==
  /\ Solo
  /\ ~failed /\ (\A h \in Requests : pc[h] \in Early \cup {"done"}) => InStep
  /\ \A h \in Requests : Progress(h)

TurnInv == TypeInv /\ (~overlapped => InTurn)

LEMMA Alone ==
  ASSUME TypeInv, Solo, Solo', NEW h \in Requests, Handle(h)
  PROVE  \A g \in Requests \ {h} : pc[g] \in {"new", "done"} /\ pc'[g] = pc[g]
<1>1. \A g \in Requests \ {h} : pc'[g] = pc[g]
  BY OthersStay
<1>2. pc[h] \notin {"new", "done"} \/ pc'[h] \notin {"new", "done"}
  BY HandleCases DEF Early, SetCheck, Commit, Save
<1>3. CASE pc[h] \notin {"new", "done"}
  BY <1>1, <1>3 DEF Solo, Running
<1>4. CASE pc'[h] \notin {"new", "done"}
  BY <1>1, <1>4 DEF Solo, Running
<1> QED  BY <1>2, <1>3, <1>4

(* Adding the next server.                                                 *)
LEMMA PoolNext ==
  ASSUME TypeInv, NEW n \in 1..store.len, PooledUpTo(n - 1),
         heap' = heap, store' = store, pool' = [pool EXCEPT ![Server(n).url] = Server(n)]
  PROVE  PooledUpTo(n)'
<1>1. /\ \A i \in 1..store.len : Server(i).url \in Urls
      /\ store.len \in Nat /\ n \in Nat
  BY TypeFacts, ServerUrl DEF SliceIn, Server, Config
<1>2. pool \in [Urls -> ServerConfig \cup {NoClient}]
  BY TypeFacts
<1>3. \A i : Server(i)' = Server(i)
  BY DEF Server
<1>4. ASSUME NEW i \in 1..n, \A j \in (i + 1)..n : Server(j).url # Server(i).url
      PROVE  pool'[Server(i).url] = Server(i)
  <2>1. i \in 1..store.len /\ Server(i).url \in Urls /\ Server(n).url \in Urls
    BY <1>1
  <2>2. CASE i = n
    BY <1>2, <2>1, <2>2
  <2>3. CASE i # n
    <3>1. i \in 1..(n - 1) /\ n \in (i + 1)..n
      BY <1>1, <2>3
    <3>2. Server(n).url # Server(i).url
      BY <1>4, <3>1
    <3>3. \A j \in (i + 1)..(n - 1) : j \in (i + 1)..n
      BY <1>1
    <3>4. pool[Server(i).url] = Server(i)
      BY <1>4, <3>1, <3>3 DEF PooledUpTo
    <3> QED  BY <1>2, <2>1, <3>2, <3>4
  <2> QED  BY <2>2, <2>3
<1> QED  BY <1>3, <1>4 DEF PooledUpTo

LEMMA ConfiguredIs ==
  ASSUME TypeInv
  PROVE  UrlsOf(Contents(store).servers) = Configured
<1> DEFINE s == Contents(store).servers
<1>1. DOMAIN s = 1..store.len /\ \A i \in 1..store.len : s[i] = Server(i)
  BY TypeFacts, ContentsTyped DEF Server
<1> HIDE DEF s
<1>2. UrlsOf(s) = Configured
  BY <1>1 DEF UrlsOf, Configured
<1> QED  BY <1>2 DEF s

LEMMA TurnHandle ==
  ASSUME TypeInv, InTurn, Solo', NEW h \in Requests, Handle(h)
  PROVE  InTurn'
<1>1. \A g \in Requests \ {h} : pc[g] \in {"new", "done"} /\ pc'[g] = pc[g]
  BY Alone DEF InTurn
<1>2. pc \in [Requests -> Points] /\ local \in [Requests -> Local]
  BY TypeFacts
<1>3. \A g \in Requests \ {h} : Progress(g)'
  BY <1>1 DEF Progress
<1>4. Aside(h) =>
        /\ heap' = heap /\ store' = store /\ failed' = failed
        /\ Configured' = Configured /\ \A i : Server(i)' = Server(i)
  BY DEF Aside, Configured, Server
<1>5. Aside(h) /\ pool' = pool => \A n : PooledUpTo(n) => PooledUpTo(n)'
  BY <1>4 DEF PooledUpTo
<1>6. CASE pc'[h] \in Setting \cup {"remove", "sync"}
  <2>1. Progress(h)' /\ pc'[h] \notin Early \cup {"done"}
    BY <1>6 DEF Progress, Setting, Early
  <2> QED  BY <1>3, <2>1 DEF InTurn
<1>7. CASE pc'[h] = "done" /\ failed'
  <2>1. Progress(h)'
    BY <1>7 DEF Progress
  <2> QED  BY <1>3, <1>7, <2>1 DEF InTurn
<1>8. CASE /\ Aside(h) /\ UNCHANGED runtime
           /\ pc[h] \in Early /\ pc'[h] \in (Early \ {"new"}) \cup {"done"}
  <2>1. Progress(h)'
    BY <1>8 DEF Progress, Early
  <2>2. \A g \in Requests : pc[g] \in Early \cup {"done"}
    BY <1>1, <1>8 DEF Early
  <2>3. ~failed => InStep
    BY <2>2 DEF InTurn
  <2>4. InStep => InStep'
    BY <1>4, <1>5, <1>8 DEF InStep, runtime
  <2>5. failed' = failed
    BY <1>4, <1>8
  <2> QED  BY <1>3, <2>1, <2>3, <2>4, <2>5 DEF InTurn
<1>9. CASE pc'[h] = "pool" /\ SyncGet(h)
  <2>1. /\ cfg(h)' = store /\ idx(h)' = 1 /\ store' = store
    BY <1>2, <1>9, FreshTyped DEF SyncGet, cfg, idx, Local
  <2>2. store.len \in Nat
    BY TypeFacts DEF Config
  <2>3. 1 <= store.len + 1 /\ 1..(1 - 1) = {}
    BY <2>2
  <2>4. Progress(h)'
    BY <1>9, <2>1, <2>3 DEF Progress, PooledUpTo
  <2> QED  BY <1>3, <1>9, <2>4 DEF InTurn, Early
<1>10. CASE Aside(h) /\ pc[h] = "pool" /\ pc'[h] = "pool" /\ SyncPool(h)
  <2>1. /\ idx(h)' = idx(h) + 1 /\ cfg(h)' = cfg(h) /\ idx(h) <= cfg(h).len
        /\ pool' = [pool EXCEPT ![Element(h).url] = Element(h)]
    BY <1>2, <1>10 DEF SyncPool, idx, cfg, Local
  <2>2. cfg(h) = store /\ PooledUpTo(idx(h) - 1)
    BY <1>10 DEF InTurn, Progress
  <2>3. Element(h) = Server(idx(h))
    BY <2>2 DEF Element, Server
  <2>4. idx(h) \in Nat /\ idx(h) >= 1 /\ store.len \in Nat
    BY <1>10, HandlerFacts, TypeFacts DEF Promise, Config
  <2>5. idx(h) \in 1..store.len /\ idx(h) + 1 <= store.len + 1 /\ idx(h) + 1 - 1 = idx(h)
    BY <2>1, <2>2, <2>4
  <2>7. \A n : n = idx(h) => PooledUpTo(n)'
    BY <1>4, <1>10, <2>1, <2>2, <2>3, <2>5, PoolNext
  <2>8. Progress(h)'
    BY <1>4, <1>10, <2>1, <2>2, <2>5, <2>7 DEF Progress
  <2> QED  BY <1>3, <1>10, <2>8 DEF InTurn, Early
<1>11. CASE Aside(h) /\ pc[h] = "pool" /\ pc'[h] = "disc" /\ SyncUrls(h)
  <2>1. /\ local'[h].urls = UrlsOf(Contents(cfg(h)).servers) /\ pool' = pool
        /\ idx(h) > cfg(h).len
    BY <1>2, <1>11, FreshTyped DEF SyncUrls, runtime, Local
  <2>2. cfg(h) = store /\ idx(h) <= store.len + 1 /\ PooledUpTo(idx(h) - 1)
    BY <1>11 DEF InTurn, Progress
  <2>3. idx(h) \in Nat /\ store.len \in Nat
    BY HandlerFacts, TypeFacts DEF Config
  <2>4. idx(h) - 1 = store.len
    BY <2>1, <2>2, <2>3
  <2>5. PooledUpTo(store.len)
    BY <2>2, <2>4
  <2>6. local'[h].urls = Configured
    BY <2>1, <2>2, ConfiguredIs
  <2>7. PooledUpTo(store.len)'
    BY <1>4, <1>5, <1>11, <2>1, <2>5
  <2>8. Progress(h)'
    BY <1>4, <1>11, <2>6, <2>7 DEF Progress
  <2> QED  BY <1>3, <1>11, <2>8 DEF InTurn, Early
<1>12. CASE Aside(h) /\ pc[h] = "disc" /\ pc'[h] = "metrics" /\ SyncDiscovery(h)
  <2>1. discServers' = local[h].urls /\ local' = local /\ pool' = pool
    BY <1>12 DEF SyncDiscovery
  <2>2. PooledUpTo(store.len) /\ local[h].urls = Configured
    BY <1>12 DEF InTurn, Progress
  <2>3. PooledUpTo(store.len)'
    BY <1>4, <1>5, <1>12, <2>1, <2>2
  <2>4. Progress(h)'
    BY <1>4, <1>12, <2>1, <2>2, <2>3 DEF Progress
  <2> QED  BY <1>3, <1>12, <2>4 DEF InTurn, Early
<1>13. CASE Aside(h) /\ pc[h] = "metrics" /\ pc'[h] = "done" /\ SyncMetrics(h)
  <2>1. metricServers' = local[h].urls /\ pool' = pool /\ discServers' = discServers
    BY <1>13 DEF SyncMetrics
  <2>2. PooledUpTo(store.len) /\ local[h].urls = Configured /\ discServers = Configured
    BY <1>13 DEF InTurn, Progress
  <2>3. PooledUpTo(store.len)'
    BY <1>4, <1>5, <1>13, <2>1, <2>2
  <2>4. InStep'
    BY <1>4, <1>13, <2>1, <2>2, <2>3 DEF InStep
  <2>5. Progress(h)'
    BY <1>13 DEF Progress
  <2> QED  BY <1>3, <2>4, <2>5 DEF InTurn
<1>14. CASE SetCheck(h) \/ Commit(h)
  BY <1>2, <1>6, <1>7, <1>14 DEF SetCheck, Commit, Goto, Reply, Setting
<1>15. CASE Save(h)
  BY <1>2, <1>6, <1>7, <1>15 DEF Save, Goto, Reply, Setting
<1>16. CASE pc'[h] = "set" \/ pc'[h] = "sync"
  BY <1>6, <1>16 DEF Setting
<1> QED  BY <1>8, <1>9, <1>10, <1>11, <1>12, <1>13, <1>14, <1>15, <1>16, HandleCases

StartedHere == \E c \in Files : Started(c, heap, store, pool, discServers, metricServers)

LEMMA StartedInStep == StartedHere => InStep
<1> SUFFICES ASSUME NEW c \in Files, Started(c, heap, store, pool, discServers, metricServers)
             PROVE  InStep
  BY DEF StartedHere
<1> DEFINE s == c.servers
<1>1. /\ store.array = Boot /\ store.len = Len(s) /\ heap[Boot] = s
      /\ pool = Clients(s) /\ discServers = UrlsOf(s) /\ metricServers = UrlsOf(s)
      /\ s \in Seq(ServerConfig)
  BY StartedFacts
<1> HIDE DEF s
<1>2. Len(s) \in Nat /\ DOMAIN s = 1..Len(s)
  BY <1>1
<1>3. \A i : Server(i) = s[i]
  BY <1>1 DEF Server
<1>4. UrlsOf(s) = Configured
  BY <1>1, <1>2, <1>3 DEF UrlsOf, Configured
<1>5. ASSUME NEW i \in 1..Len(s), \A j \in (i + 1)..Len(s) : s[j].url # s[i].url
      PROVE  Clients(s)[s[i].url] = s[i]
  <2>1. \A j \in 1..Len(s) : s[j].url = s[i].url => j <= i
    BY <1>2, <1>5
  <2> QED  BY <1>1, <1>2, <2>1, ClientsMade
<1>6. PooledUpTo(store.len)
  BY <1>1, <1>3, <1>5 DEF PooledUpTo
<1> QED  BY <1>1, <1>4, <1>6 DEF InStep

LEMMA TurnInit ==
  ASSUME HistoryInit
  PROVE  TurnInv
<1>1. Init
  BY DEF HistoryInit
<1>2. StartedHere
  BY <1>1, InitFacts DEF StartedHere
<1>3. \A h \in Requests : pc[h] = "new"
  BY <1>1 DEF Init
<1>4. Solo /\ \A h \in Requests : Progress(h)
  BY <1>3 DEF Solo, Running, Progress
<1> QED  BY <1>1, <1>2, <1>4, InitType, StartedInStep DEF TurnInv, InTurn

(* What the history variable remembers.                                    *)
LEMMA NotOverlapped ==
  ASSUME [HistoryNext]_<<vars, overlapped>>, ~overlapped'
  PROVE  ~overlapped /\ (UNCHANGED vars \/ (Next /\ Solo'))
<1>1. CASE UNCHANGED <<vars, overlapped>>
  BY <1>1
<1>2. CASE HistoryNext
  <2>1. Next /\ overlapped' = (overlapped \/ \E g, h \in Requests : g # h /\ Running(g)' /\ Running(h)')
    BY <1>2 DEF HistoryNext
  <2>2. ~overlapped /\ ~\E g, h \in Requests : g # h /\ Running(g)' /\ Running(h)'
    BY <2>1
  <2> QED  BY <2>1, <2>2 DEF Solo
<1> QED  BY <1>1, <1>2

LEMMA TurnStep ==
  ASSUME TurnInv, [HistoryNext]_<<vars, overlapped>>
  PROVE  TurnInv'
<1>1. TypeInv /\ (~overlapped => InTurn)
  BY DEF TurnInv
<1>2. [Next]_vars
  BY DEF HistoryNext
<1>3. TypeInv'
  BY <1>1, <1>2, TypeStep
<1>4. ASSUME ~overlapped'
      PROVE  InTurn'
  <2>1. InTurn /\ (UNCHANGED vars \/ (Next /\ Solo'))
    BY <1>1, <1>4, NotOverlapped
  <2>2. CASE UNCHANGED vars
    BY <2>1, <2>2 DEF vars, runtime, InTurn, Solo, Running, InStep, Progress, PooledUpTo, Server,
                      Configured, cfg, idx
  <2>3. CASE Restart
    <3>1. StartedHere'
      BY <1>1, <2>3, RestartFacts DEF StartedHere
    <3>2. StartedHere' => InStep'
      BY StartedInStep, PTL
    <3>3. \A h \in Requests : pc'[h] \in {"new", "done"}
      BY <1>1, <2>3, RestartFacts
    <3>4. Solo' /\ \A h \in Requests : Progress(h)'
      BY <3>3 DEF Solo, Running, Progress
    <3> QED  BY <3>1, <3>2, <3>4 DEF InTurn
  <2>4. ASSUME NEW h \in Requests, Handle(h), Solo'
        PROVE  InTurn'
    BY <1>1, <2>1, <2>4, TurnHandle
  <2> QED  BY <2>1, <2>2, <2>3, <2>4 DEF Next
<1> QED  BY <1>3, <1>4 DEF TurnInv

LEMMA InStepSynced ==
  ASSUME TypeInv, InStep, NEW u \in Urls
  PROVE  LET servers == Contents(store).servers
         IN  u \in {servers[i].url : i \in DOMAIN servers} => pool[u] = Clients(servers)[u]
<1> DEFINE s == Contents(store).servers
<1>1. /\ s \in Seq(ServerConfig) /\ DOMAIN s = 1..store.len
      /\ \A i \in 1..store.len : s[i] = Server(i)
  BY TypeFacts, ContentsTyped DEF Server
<1>2. store.len \in Nat
  BY TypeFacts DEF Config
<1> HIDE DEF s
<1> DEFINE at == {i \in 1..store.len : s[i].url = u}
<1>3. ASSUME u \in {s[i].url : i \in DOMAIN s}
      PROVE  pool[u] = Clients(s)[u]
  <2>1. at # {} /\ at \subseteq 1..store.len
    BY <1>1, <1>3
  <2>2. PICK i \in at : \A j \in at : j <= i
    <3> HIDE DEF at
    <3> QED  BY <1>2, <2>1, LastIndex
  <2>3. i \in 1..store.len /\ s[i].url = u /\ s[i] = Server(i)
    BY <1>1, <2>2
  <2>4. \A j \in (i + 1)..store.len : Server(j).url # Server(i).url
    <3>1. \A j \in (i + 1)..store.len : j \in 1..store.len /\ ~(j <= i)
      BY <1>2, <2>3
    <3> QED  BY <1>1, <2>2, <2>3, <3>1
  <2>5. pool[u] = s[i]
    BY <2>3, <2>4 DEF InStep, PooledUpTo
  <2>6. \A j \in DOMAIN s : s[j].url = s[i].url => j <= i
    BY <1>1, <2>2, <2>3
  <2>7. Clients(s)[u] = s[i]
    BY <1>1, <2>3, <2>6, ClientsMade
  <2> QED  BY <2>5, <2>7
<1> QED  BY <1>3 DEF s

(* Requests that come in turn, the last of which Set accepted, leave       *)
(* discovery and the collector with exactly the configured servers, and    *)
(* each of these with a client that has its configuration, also after      *)
(* requests whose Set failed and after crashes.                            *)
THEOREM TurnsLeaveInStep == HistorySpec => []SyncedInTurn
<1>1. HistoryInit => TurnInv
  BY TurnInit
<1>2. TurnInv /\ [HistoryNext]_<<vars, overlapped>> => TurnInv'
  BY TurnStep
<1>3. TurnInv => SyncedInTurn
  <2> SUFFICES ASSUME TurnInv, Quiet, ~failed, ~overlapped
               PROVE  LET servers == Contents(store).servers
                      IN  /\ discServers = UrlsOf(servers)
                          /\ metricServers = UrlsOf(servers)
                          /\ \A u \in Urls : u \in {servers[i].url : i \in DOMAIN servers}
                                               => pool[u] = Clients(servers)[u]
    BY DEF SyncedInTurn
  <2>1. TypeInv /\ InTurn
    BY DEF TurnInv
  <2>2. \A h \in Requests : pc[h] \in Early \cup {"done"}
    BY DEF Quiet, Running, Early
  <2>3. InStep
    BY <2>1, <2>2 DEF InTurn
  <2>4. /\ discServers = UrlsOf(Contents(store).servers)
        /\ metricServers = UrlsOf(Contents(store).servers)
    BY <2>1, <2>3, ConfiguredIs DEF InStep
  <2> QED  BY <2>1, <2>3, <2>4, InStepSynced
<1> QED  BY <1>1, <1>2, <1>3, PTL DEF HistorySpec

-----------------------------------------------------------------------------
(* What the file holds when requests come in turn.                         *)

InRange(servers) == \A i \in DOMAIN servers : servers[i].distance \in 1..10

(* From the validation to the write, the servers are those Set checked.    *)
Checked ==
  /\ file = Truncated \/ InRange(file.servers)
  /\ \A h \in Requests :
       /\ pc[h] = "commit" => Valid(cfg(h))
       /\ pc[h] = "save" => InRange(local[h].data.servers)

CheckedInv == TypeInv /\ (~overlapped => Solo /\ Checked)

LEMMA CheckedHandle ==
  ASSUME TypeInv, Solo, Checked, Solo', NEW h \in Requests, Handle(h)
  PROVE  Checked'
<1>1. \A g \in Requests \ {h} : pc[g] \in {"new", "done"} /\ pc'[g] = pc[g]
  BY Alone
<1>2. pc \in [Requests -> Points] /\ local \in [Requests -> Local]
  BY TypeFacts
<1>3. CASE pc'[h] \notin {"commit", "save"} /\ file' = file
  BY <1>1, <1>3 DEF Checked
<1>4. CASE SetCheck(h)
  <2>1. CASE Valid(cfg(h)) /\ Goto(h, "commit") /\ local' = local /\ heap' = heap /\ file' = file
    <3>1. pc'[h] = "commit" /\ Valid(cfg(h))'
      BY <1>2, <2>1 DEF Goto, Valid, cfg
    <3> QED  BY <1>1, <2>1, <3>1 DEF Checked
  <2>2. CASE Reply(h) /\ file' = file
    BY <1>2, <1>3, <2>2 DEF Reply, Goto
  <2> QED  BY <1>4, <2>1, <2>2 DEF SetCheck
<1>5. CASE Commit(h)
  <2> DEFINE c == Settled(cfg(h))
  <2>1. pc[h] = "commit" /\ Valid(cfg(h))
    BY <1>5 DEF Commit, Checked
  <2>2. cfg(h) \in Config /\ SliceIn(heap, cfg(h))
    BY HandlerFacts
  <2>3. c \in Config /\ c.array = cfg(h).array /\ c.len = cfg(h).len
    BY <2>2, SettledTyped
  <2> HIDE DEF c
  <2>4. SliceIn(heap, c)
    BY <2>2, <2>3 DEF SliceIn
  <2>5. InRange(Contents(c).servers)
    <3>1. /\ DOMAIN Contents(c).servers = 1..c.len
          /\ \A i \in 1..c.len : Contents(c).servers[i] = heap[c.array][i]
      BY <2>3, <2>4, ContentsTyped
    <3>2. \A i \in 1..c.len : heap[c.array][i].distance \in 1..10
      BY <2>1, <2>3 DEF Valid
    <3> QED  BY <3>1, <3>2 DEF InRange
  <2>6. CASE local' = [local EXCEPT ![h].data = Contents(c)] /\ file' = Truncated /\ Goto(h, "save")
    <3>1. pc'[h] = "save" /\ local'[h].data = Contents(c)
      BY <1>2, <2>6 DEF Goto, Local
    <3> QED  BY <1>1, <2>5, <2>6, <3>1 DEF Checked
  <2>7. CASE Reply(h) /\ file' = file
    BY <1>2, <1>3, <2>7 DEF Reply, Goto
  <2> QED  BY <1>5, <2>6, <2>7 DEF Commit, c
<1>6. CASE Save(h)
  <2>1. pc[h] = "save" /\ InRange(local[h].data.servers)
    BY <1>6 DEF Save, Checked
  <2>2. CASE file' = local[h].data /\ Goto(h, IF Removes(h) THEN "remove" ELSE "sync")
    <3>1. pc'[h] \notin {"commit", "save"}
      BY <1>2, <2>2 DEF Goto
    <3> QED  BY <1>1, <2>1, <2>2, <3>1 DEF Checked
  <2>3. CASE Reply(h) /\ file' = file
    BY <1>2, <1>3, <2>3 DEF Reply, Goto
  <2> QED  BY <1>6, <2>2, <2>3 DEF Save
<1>7. Aside(h) \/ (pc'[h] = "set" /\ file' = file) => pc'[h] \notin {"commit", "save"} /\ file' = file
  BY DEF Aside, Setting
<1> QED  BY <1>3, <1>4, <1>5, <1>6, <1>7, HandleCases

LEMMA CheckedStep ==
  ASSUME CheckedInv, [HistoryNext]_<<vars, overlapped>>
  PROVE  CheckedInv'
<1>1. TypeInv /\ (~overlapped => Solo /\ Checked)
  BY DEF CheckedInv
<1>2. [Next]_vars
  BY DEF HistoryNext
<1>3. TypeInv'
  BY <1>1, <1>2, TypeStep
<1>4. ASSUME ~overlapped'
      PROVE  Solo' /\ Checked'
  <2>1. Solo /\ Checked /\ (UNCHANGED vars \/ (Next /\ Solo'))
    BY <1>1, <1>4, NotOverlapped
  <2>2. CASE UNCHANGED vars
    BY <2>1, <2>2 DEF vars, Solo, Running, Checked, Valid, cfg
  <2>3. CASE Restart
    <3>1. file' = file /\ \A h \in Requests : pc'[h] \in {"new", "done"}
      BY <1>1, <2>3, RestartFacts
    <3> QED  BY <2>1, <3>1 DEF Solo, Running, Checked
  <2>4. ASSUME NEW h \in Requests, Handle(h), Solo'
        PROVE  Solo' /\ Checked'
    BY <1>1, <2>1, <2>4, CheckedHandle
  <2> QED  BY <2>1, <2>2, <2>3, <2>4 DEF Next
<1> QED  BY <1>3, <1>4 DEF CheckedInv

(* If the file of the first start had servers that Set accepts only, Load  *)
(* does not look, then requests that come in turn never leave another one  *)
(* in the file, although a rejected update stays in the shared array.      *)
THEOREM OnlyValidSaved ==
  ASSUME \A f \in InitFiles : f = Missing \/ InRange(f.servers)
  PROVE  HistorySpec => []SavedIsValid
<1>1. HistoryInit => CheckedInv
  <2> SUFFICES ASSUME HistoryInit PROVE CheckedInv
    OBVIOUS
  <2>1. Init
    BY DEF HistoryInit
  <2>2. PICK f \in InitFiles : file = IF f = Missing THEN Loaded(f) ELSE f
    BY <2>1 DEF Init
  <2>3. InRange(file.servers)
    <3>1. CASE f = Missing
      BY <2>2, <3>1 DEF Loaded, InRange
    <3>2. CASE f # Missing
      BY <2>2, <3>2
    <3> QED  BY <3>1, <3>2
  <2>4. \A h \in Requests : pc[h] = "new"
    BY <2>1 DEF Init
  <2>5. Solo /\ Checked
    BY <2>3, <2>4 DEF Solo, Running, Checked
  <2> QED  BY <2>1, <2>5, InitType DEF CheckedInv
<1>2. CheckedInv /\ [HistoryNext]_<<vars, overlapped>> => CheckedInv'
  BY CheckedStep
<1>3. CheckedInv => SavedIsValid
  <2> SUFFICES ASSUME CheckedInv, ~overlapped
               PROVE  InRange(Loaded(file).servers)
    BY DEF SavedIsValid, InRange
  <2>1. TypeInv /\ Checked
    BY DEF CheckedInv
  <2>2. CASE file \in Files
    <3>1. Loaded(file).servers = file.servers /\ file # Truncated
      BY <2>2, LoadedType, FileNames
    <3> QED  BY <2>1, <3>1 DEF Checked
  <2>3. CASE file = Truncated
    <3>1. Loaded(file).servers = <<>>
      BY <2>3, LoadedType
    <3> QED  BY <3>1 DEF InRange
  <2> QED  BY <2>1, <2>2, <2>3, TypeFacts
<1> QED  BY <1>1, <1>2, <1>3, PTL DEF HistorySpec
=============================================================================
