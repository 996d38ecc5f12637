----------------------------- MODULE MCCollector -----------------------------
(***************************************************************************)
(* Small instances of Collector for TLC, with history variables.           *)
(***************************************************************************)
EXTENDS Collector

CONSTANTS s1, s2

TwoUrls == <<s1, s2>>

AnySet == SUBSET Servers

VARIABLES
  lapsed,   \* the backends that restarted or left the counter out
  dropped   \* the URLs whose entry was deleted and not stored again since

historyVars == <<lapsed, dropped>>

HistoryInit == Init /\ lapsed = {} /\ dropped = {}

(* An answer with status 200 says less than the backend has counted.       *)
LeavesOut(u) ==
  /\ at = "loop" /\ at' = "rate" /\ todo # <<>> /\ Current = u
  /\ fetched'.updated /\ fetched'.tokens < counter[u]

(* The step stores u's metrics.                                            *)
Stored(u) == at = "store" /\ at' = "loop" /\ Current = u

HistoryNext ==
  /\ Next
  /\ lapsed' = lapsed \cup {u \in UrlSet : counter'[u] < counter[u] \/ LeavesOut(u)}
  /\ dropped' = {u \in UrlSet : /\ u \in dropped \/ data'[u] = NoEntry
                                /\ ~Stored(u)}

HistorySpec == HistoryInit /\ [][HistoryNext]_<<vars, historyVars>> /\ Fairness

(* A throughput is below zero only if the backend itself counted back or   *)
(* left its counter out of an answer: failed fetches, answers other than   *)
(* 200 and entries deleted and made again never show as tokens taken back. *)
NegativeForCause ==
  \A u \in UrlSet : data[u] # NoEntry /\ data[u].negative => u \in lapsed

(* metrics.go: a throughput is computed "only after the first successful   *)
(* poll (c.data[u].UpdatedAt non-zero)".  The code breaks this in one case *)
(* and no other: SetServers deleted the entry and made it again, c.prev    *)
(* kept the counter, and the next fetch divides by the time since year 1.  *)
(* Failed fetches, backends without /metrics and ones that lose it never   *)
(* lead to such a rate.                                                    *)
RateAfterSuccess ==
  [][at = "rate" /\ fetched'.rate = "epoch" => Current \in dropped]_<<vars, historyVars>>

(* The counter a throughput is computed from and the time it is divided by *)
(* belong to the same fetch: c.prev and c.data, written at different       *)
(* moments and cleared by different rules, agree whenever fetchAll may use *)
(* them, unless the entry was deleted and no fetch has stored one since.   *)
PrevIsPublished ==
  \A u \in UrlSet \ dropped :
    prev[u] # NoEntry /\ ~(at = "store" /\ Current = u) =>
      data[u] # NoEntry /\ prev[u] = data[u].tokens
=============================================================================
