------------------------------ MODULE MCRoute ------------------------------
(***************************************************************************)
(* Dispatch with history variables: the group that calls for a model last  *)
(* drew a start from and the members they began at since, and whether      *)
(* calls have read the counters at the same time.                          *)
(***************************************************************************)
EXTENDS MCDispatch

VARIABLES
  ring,      \* per model, the members of the group last drawn from, by position
  starts,    \* per model, the members calls began at since that group is drawn from
  excused    \* a limit may be exceeded: calls overlapped or ignored it

historyVars == <<ring, starts, excused>>

(* The servers of the group frame f has entered, by their position in it.  *)
Ring(f) ==
  LET g == Group(f.infos, f.level) IN
  [k \in 0..(Cardinality(g) - 1) |->
     f.infos[CHOOSE i \in g : Position(f.infos, i) = k].url]

(* The calls for model m that draw a round-robin start in this step.       *)
Drawing(m) ==
  {c \in Calls : /\ ModelOf[c[2]] = m
                 /\ frame'[c[1]].level # frame[c[1]].level
                 /\ frame'[c[1]].level \in Distances}

(* The frame of such a call after the step.                                *)
Drawn(m) == frame'[(CHOOSE c \in Drawing(m) : TRUE)[1]]

(* The loop over the group begins at group[idx].                           *)
StartOf(f) == Ring(f)[f.idx]

(* Two calls hold a snapshot of the servers at once, or one asks for a     *)
(* slot of a server it saw full (best effort).                             *)
Excuse ==
  \/ \E p, q \in Procs : p # q /\ frame[p].infos # <<>> /\ frame[q].infos # <<>>
  \/ \E p \in Procs : frame[p].level = AnyGroup

HistoryInit ==
  /\ Init
  /\ ring = [m \in Models |-> <<>>]
  /\ starts = [m \in Models |-> <<>>]
  /\ excused = FALSE

HistoryNext ==
  /\ Serve
  /\ ring' = [m \in Models |-> IF Drawing(m) # {} THEN Ring(Drawn(m)) ELSE ring[m]]
  /\ starts' = [m \in Models |->
       IF Drawing(m) = {} THEN starts[m]
       ELSE IF Ring(Drawn(m)) = ring[m] THEN Append(starts[m], StartOf(Drawn(m)))
       ELSE <<StartOf(Drawn(m))>>]
  /\ excused' = (excused \/ Excuse')

HistorySpec == HistoryInit /\ [][HistoryNext]_<<vars, historyVars>>

(* docs/api.md: "Within each group, use round-robin selection."  As long   *)
(* as the calls for a model, from whichever goroutines and however they    *)
(* interleave, draw their starts from one group of different servers in    *)
(* one order, no server is begun at a second time before every other       *)
(* member was.  A draw from another group, of another distance or of a     *)
(* list that discovery reordered, starts the count anew: rrIndex has one   *)
(* entry per model, so that draw moves the index for all groups.           *)
EveryMemberInTurn ==
  \A m \in Models :
    (\A j, k \in DOMAIN ring[m] : ring[m][j] = ring[m][k] => j = k) =>
      \A a, b \in DOMAIN starts[m] : a < b /\ starts[m][a] = starts[m][b] =>
        \A k \in DOMAIN ring[m] : \E h \in a..(b - 1) : starts[m][h] = ring[m][k]

(* docs/configuration.md: at most max_concurrent_requests simultaneous     *)
(* requests to a server.  Calls that overlap may break it.                 *)
LimitKept == \A u \in Servers : Inflight(u) <= server[u].maxConn

(* route compares a server's limit with a counter it read earlier, and     *)
(* Acquire counts without looking at the limit.  As long as no two calls   *)
(* held a snapshot at once and none fell back to best effort, no server    *)
(* has more slots in use than its configuration allows, over all requests  *)
(* that come, leave, queue and are released in the meantime.               *)
LimitInTurn == ~excused => LimitKept
=============================================================================
