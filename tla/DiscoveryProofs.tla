-------------------------- MODULE DiscoveryProofs --------------------------
(***************************************************************************)
(* Theorems about Discovery, for any number of servers and models and any  *)
(* lists of servers.                                                       *)
(***************************************************************************)
EXTENDS Discovery, SequenceTheorems, WellFoundedInduction, TLAPS

-----------------------------------------------------------------------------
(* What the loop of updateModels copies.  The recursion is unfolded and    *)
(* the induction over the list done by a least counterexample.             *)

LEMMA LeastNat ==
  ASSUME NEW S, S \subseteq Nat, S # {}
  PROVE  \E d \in S : \A e \in S : ~(e < d)
<1>1. PICK d \in S : \A e \in S : <<e, d>> \notin OpToRel(<, Nat)
  BY NatLessThanWellFounded, WFMin
<1> QED  BY <1>1 DEF OpToRel

(* One round of the loop.                                                  *)
Copy(list, u, g, i) ==
  IF i = 0 THEN <<>> ELSE IF list[i] # u THEN Append(g[i - 1], list[i]) ELSE g[i - 1]

LEMMA CopyDefined ==
  ASSUME NEW list, NEW u, NEW n \in Nat
  PROVE  \E g : g = [i \in 0..n |-> Copy(list, u, g, i)]
<1> DEFINE Undefined == {k \in Nat : ~\E g : g = [i \in 0..k |-> Copy(list, u, g, i)]}
<1> SUFFICES ASSUME Undefined # {} PROVE FALSE
  OBVIOUS
<1>1. PICK k \in Undefined : \A j \in Undefined : ~(j < k)
  <2>1. Undefined \subseteq Nat
    OBVIOUS
  <2> HIDE DEF Undefined
  <2> QED  BY <2>1, LeastNat
<1>2. CASE k = 0
  <2> DEFINE g == [i \in 0..k |-> <<>>]
  <2>1. g = [i \in 0..k |-> Copy(list, u, g, i)]
    BY <1>2 DEF Copy
  <2> QED  BY <1>1, <2>1
<1>3. CASE k # 0
  <2>1. k - 1 \in Nat /\ k - 1 < k
    BY <1>3
  <2>2. k - 1 \notin Undefined
    BY <1>1, <2>1
  <2>3. PICK g : g = [i \in 0..(k - 1) |-> Copy(list, u, g, i)]
    BY <2>1, <2>2
  <2> DEFINE h == [i \in 0..k |-> IF i = k THEN Copy(list, u, g, k) ELSE g[i]]
  <2>4. \A i \in 0..(k - 1) : h[i] = g[i]
    BY <2>1
  <2>5. \A i \in 0..k : h[i] = Copy(list, u, g, i)
    BY <2>1, <2>3
  <2>6. \A i \in 0..k : i # 0 => i - 1 \in 0..(k - 1)
    BY <2>1
  <2>7. \A i \in 0..k : Copy(list, u, h, i) = Copy(list, u, g, i)
    BY <2>4, <2>6 DEF Copy
  <2>8. h = [i \in 0..k |-> Copy(list, u, h, i)]
    <3>1. h = [i \in 0..k |-> h[i]]
      OBVIOUS
    <3> HIDE DEF h
    <3> QED  BY <2>5, <2>7, <3>1
  <2> HIDE DEF h
  <2> QED  BY <1>1, <2>8
<1> QED  BY <1>2, <1>3

NoRepeats(s) == \A i, j \in DOMAIN s : s[i] = s[j] => i = j

Members(s) == {s[i] : i \in DOMAIN s}

(* The copy has every other server of the list, and none twice if the list *)
(* has none twice.                                                         *)
LEMMA FilteredProperties ==
  ASSUME NEW S, NEW list \in Seq(S), NEW u
  PROVE  /\ Filtered(list, u) \in Seq(S)
         /\ Members(Filtered(list, u)) = Members(list) \ {u}
         /\ NoRepeats(list) => NoRepeats(Filtered(list, u))
<1> DEFINE n == Len(list)
           f == CHOOSE g : g = [i \in 0..n |-> Copy(list, u, g, i)]
           Good(i) == /\ f[i] \in Seq(S)
                      /\ Members(f[i]) = {list[k] : k \in 1..i} \ {u}
                      /\ NoRepeats(list) => NoRepeats(f[i])
<1>1. n \in Nat /\ DOMAIN list = 1..n
  OBVIOUS
<1>2. f = [i \in 0..n |-> Copy(list, u, f, i)]
  BY <1>1, CopyDefined
<1>3. Filtered(list, u) = f[n]
  BY DEF Filtered, Copy
<1> HIDE DEF f, n
<1>4. /\ f[0] = <<>>
      /\ \A i \in 1..n : f[i] = IF list[i] # u THEN Append(f[i - 1], list[i]) ELSE f[i - 1]
  <2>1. \A i \in 0..n : f[i] = Copy(list, u, f, i)
    BY <1>2
  <2>2. 0 \in 0..n /\ \A i \in 1..n : i \in 0..n /\ i # 0
    BY <1>1
  <2>3. Copy(list, u, f, 0) = <<>>
    BY DEF Copy
  <2>4. \A i \in 1..n :
          Copy(list, u, f, i) = IF list[i] # u THEN Append(f[i - 1], list[i]) ELSE f[i - 1]
    BY <2>2 DEF Copy
  <2> QED  BY <2>1, <2>2, <2>3, <2>4
<1>5. Good(0)
  BY <1>4 DEF Members, NoRepeats
<1>6. ASSUME NEW i \in 1..n, Good(i - 1)
      PROVE  Good(i)
  <2>1. /\ i \in Nat /\ i - 1 \in Nat /\ 1..i = 1..(i - 1) \cup {i} /\ i \notin 1..(i - 1)
        /\ 1..i \subseteq DOMAIN list /\ list[i] \in S
    BY <1>1, <1>6
  <2> DEFINE e == f[i - 1]
             x == list[i]
  <2>2. CASE x = u
    <3>1. f[i] = e
      BY <1>4, <1>6, <2>2
    <3> QED  BY <1>6, <2>1, <2>2, <3>1
  <2>3. CASE x # u
    <3>1. f[i] = Append(e, x) /\ e \in Seq(S) /\ x \in S
      BY <1>4, <1>6, <2>1, <2>3
    <3>2. /\ Append(e, x) \in Seq(S) /\ Len(e) \in Nat
          /\ DOMAIN e = 1..Len(e) /\ DOMAIN Append(e, x) = DOMAIN e \cup {Len(e) + 1}
          /\ Len(e) + 1 \notin DOMAIN e
          /\ \A k \in DOMAIN e : Append(e, x)[k] = e[k]
          /\ Append(e, x)[Len(e) + 1] = x
      BY <3>1
    <3>3. Members(Append(e, x)) = Members(e) \cup {x}
      BY <3>2 DEF Members
    <3>4. Members(f[i]) = {list[k] : k \in 1..i} \ {u}
      BY <1>6, <2>1, <2>3, <3>1, <3>3
    <3>5. ASSUME NoRepeats(list)
          PROVE  NoRepeats(Append(e, x))
      <4>1. x \notin Members(e)
        BY <1>6, <2>1, <3>5 DEF NoRepeats
      <4>2. NoRepeats(e)
        BY <1>6, <3>5
      <4> HIDE DEF e, x
      <4> QED  BY <3>2, <4>1, <4>2 DEF NoRepeats, Members
    <3> QED  BY <3>1, <3>2, <3>4, <3>5
  <2> QED  BY <2>2, <2>3
<1>7. Good(n)
  <2> DEFINE Bad == {i \in 0..n : ~Good(i)}
  <2> HIDE DEF Good
  <2> SUFFICES ASSUME Bad # {} PROVE FALSE
    <3>1. n \in 0..n
      BY <1>1
    <3> QED  BY <3>1
  <2>1. PICK i \in Bad : \A j \in Bad : ~(j < i)
    <3>1. Bad \subseteq Nat
      BY <1>1
    <3> HIDE DEF Bad
    <3> QED  BY <3>1, LeastNat
  <2>2. i \in 1..n
    BY <1>1, <1>5, <2>1
  <2>3. i - 1 \in 0..n /\ i - 1 < i
    BY <1>1, <2>2
  <2>4. Good(i - 1)
    BY <2>1, <2>3
  <2> QED  BY <1>6, <2>1, <2>2, <2>4
<1>8. {list[k] : k \in 1..n} = Members(list)
  BY <1>1 DEF Members
<1> QED  BY <1>3, <1>7, <1>8

-----------------------------------------------------------------------------
(* A poll.                                                                 *)

(* While the models of an answer are looked at, those done already have a  *)
(* description too; otherwise none is left to be looked at.                *)
Described ==
  /\ at = "details" =>
       \A m \in Models :
         modelDetails[m] # NoDetails <=> models[m] # <<>> \/ m \in modelIDs \ ids
  /\ at # "details" => ids = {}

DiscoveryInv == TypeOK /\ ListedOnce /\ DetailsMatchModels /\ Described

LEMMA PolledType ==
  ASSUME TypeOK, at \in {"request", "details", "mark"}
  PROVE  Polled \in Servers /\ Tail(todo) \in Seq(Servers)
<1>1. todo \in Seq(Servers) /\ todo # <<>>
  BY DEF TypeOK
<1> QED  BY <1>1 DEF Polled

(* The lists after updateModels.                                           *)
LEMMA RelistedProperties ==
  ASSUME TypeOK, ListedOnce, at = "details", NEW m \in Models
  PROVE  LET l == Relisted(m, Polled, modelIDs) IN
         /\ l \in Seq(Servers)
         /\ NoRepeats(l)
         /\ Members(l) = (Listed(m) \ {Polled}) \cup (IF m \in modelIDs THEN {Polled} ELSE {})
<1> DEFINE u == Polled
           l == Relisted(m, u, modelIDs)
           f == Filtered(models[m], u)
<1>1. u \in Servers /\ models[m] \in Seq(Servers)
  BY PolledType DEF TypeOK
<1>2. Listed(m) = Members(models[m]) /\ NoRepeats(models[m])
  BY DEF Listed, Members, ListedOnce, NoRepeats
<1> HIDE DEF u
<1>3. f \in Seq(Servers) /\ Members(f) = Listed(m) \ {u} /\ NoRepeats(f)
  BY <1>1, <1>2, FilteredProperties
<1>4. l = IF m \in modelIDs THEN Append(f, u) ELSE f
  BY DEF Relisted
<1> HIDE DEF f, l
<1>5. /\ Append(f, u) \in Seq(Servers) /\ Len(f) \in Nat
      /\ DOMAIN f = 1..Len(f) /\ DOMAIN Append(f, u) = DOMAIN f \cup {Len(f) + 1}
      /\ \A k \in DOMAIN f : Append(f, u)[k] = f[k]
      /\ Append(f, u)[Len(f) + 1] = u
  BY <1>1, <1>3
<1>6. Members(Append(f, u)) = Members(f) \cup {u}
  BY <1>5 DEF Members
<1>7. u \notin Members(f)
  BY <1>3
<1>8. NoRepeats(Append(f, u))
  BY <1>3, <1>5, <1>7 DEF NoRepeats, Members
<1>9. /\ l \in Seq(Servers) /\ NoRepeats(l)
      /\ Members(l) = (Listed(m) \ {u}) \cup (IF m \in modelIDs THEN {u} ELSE {})
  BY <1>3, <1>4, <1>5, <1>6, <1>8
<1> QED  BY <1>9 DEF l, u

LEMMA EmptyIff ==
  ASSUME NEW S, NEW s \in Seq(S)
  PROVE  s = <<>> <=> Members(s) = {}
<1>1. s = <<>> <=> Len(s) = 0
  OBVIOUS
<1>2. Len(s) # 0 => 1 \in DOMAIN s
  OBVIOUS
<1> QED  BY <1>1, <1>2 DEF Members

LEMMA UpdateModelsInv ==
  ASSUME DiscoveryInv, UpdateModels
  PROVE  DiscoveryInv'
<1>1. /\ at = "details" /\ ids = {} /\ at' = "mark"
      /\ UNCHANGED <<servers, healthy, todo, ids, modelIDs, ctx, advert>>
      /\ models' = [m \in Models |-> Relisted(m, Polled, modelIDs)]
      /\ modelDetails' = [m \in Models |->
           IF models[m] # <<>> /\ models'[m] = <<>> THEN NoDetails ELSE modelDetails[m]]
  BY DEF UpdateModels
<1>2. ASSUME NEW m \in Models
      PROVE  /\ models[m] \in Seq(Servers) /\ models'[m] \in Seq(Servers)
             /\ NoRepeats(models'[m])
             /\ Members(models'[m]) = (Members(models[m]) \ {Polled})
                                        \cup (IF m \in modelIDs THEN {Polled} ELSE {})
  <2>1. models'[m] = Relisted(m, Polled, modelIDs)
    BY <1>1
  <2>2. Listed(m) = Members(models[m])
    BY DEF Listed, Members
  <2>3. models[m] \in Seq(Servers)
    BY DEF DiscoveryInv, TypeOK
  <2> QED  BY <1>1, <2>1, <2>2, <2>3, RelistedProperties DEF DiscoveryInv
<1>3. models' \in [Models -> Seq(Servers)]
  BY <1>1, <1>2
<1>4. modelDetails' \in [Models -> Servers \cup {NoDetails}]
  BY <1>1 DEF DiscoveryInv, TypeOK
<1>5. TypeOK'
  BY <1>1, <1>3, <1>4 DEF DiscoveryInv, TypeOK
<1>6. ListedOnce'
  BY <1>2 DEF ListedOnce, NoRepeats
<1>7. ASSUME NEW m \in Models
      PROVE  modelDetails'[m] # NoDetails <=> models'[m] # <<>>
  <2>1. /\ models[m] = <<>> <=> Members(models[m]) = {}
        /\ models'[m] = <<>> <=> Members(models'[m]) = {}
    BY <1>2, EmptyIff
  <2>2. modelDetails[m] # NoDetails <=> models[m] # <<>> \/ m \in modelIDs
    BY <1>1 DEF DiscoveryInv, Described
  <2>3. modelDetails'[m] = IF models[m] # <<>> /\ models'[m] = <<>> THEN NoDetails
                                                                  ELSE modelDetails[m]
    BY <1>1
  <2>4. CASE m \in modelIDs
    BY <1>2, <2>1, <2>2, <2>3, <2>4
  <2>5. CASE m \notin modelIDs
    BY <1>2, <2>1, <2>2, <2>3, <2>5
  <2> QED  BY <2>4, <2>5
<1>8. DetailsMatchModels' /\ Described'
  BY <1>1, <1>7 DEF DetailsMatchModels, Described
<1> QED  BY <1>5, <1>6, <1>8 DEF DiscoveryInv

LEMMA StoreDetailsInv ==
  ASSUME DiscoveryInv, NEW m \in Models, StoreDetails(m)
  PROVE  DiscoveryInv'
<1>1. /\ at = "details" /\ m \in ids /\ ids' = ids \ {m}
      /\ UNCHANGED <<servers, models, healthy, at, todo, modelIDs, ctx, advert>>
  BY DEF StoreDetails
<1>2. modelDetails \in [Models -> Servers \cup {NoDetails}] /\ ids \subseteq modelIDs
  BY DEF DiscoveryInv, TypeOK
<1>3. Polled \in Servers /\ Polled # NoDetails
  BY <1>1, PolledType, DiscoveryAssumption DEF DiscoveryInv
<1>4. \A n \in Models : modelDetails'[n] =
        IF n = m /\ modelDetails[m] = NoDetails THEN Polled ELSE modelDetails[n]
  BY <1>2 DEF StoreDetails
<1>5. modelDetails' \in [Models -> Servers \cup {NoDetails}]
  BY <1>2, <1>3 DEF StoreDetails
<1>6. TypeOK'
  BY <1>1, <1>5 DEF DiscoveryInv, TypeOK
<1>7. ListedOnce' /\ DetailsMatchModels'
  BY <1>1 DEF DiscoveryInv, ListedOnce, DetailsMatchModels
<1>8. Described'
  BY <1>1, <1>2, <1>3, <1>4 DEF DiscoveryInv, Described
<1> QED  BY <1>6, <1>7, <1>8 DEF DiscoveryInv

LEMMA PollAnswersInv ==
  ASSUME DiscoveryInv, PollAnswers
  PROVE  DiscoveryInv'
<1>1. /\ at = "request" /\ at' = "details" /\ ids' = advert[Polled] /\ modelIDs' = advert[Polled]
      /\ advert[Polled] # Down
      /\ UNCHANGED <<servers, models, modelDetails, healthy, todo, ctx, advert>>
  BY DEF PollAnswers
<1>2. advert[Polled] \subseteq Models
  <2>1. Polled \in Servers /\ advert \in [Servers -> (SUBSET Models) \cup {Down}]
    BY <1>1, PolledType DEF DiscoveryInv, TypeOK
  <2> QED  BY <1>1, <2>1
<1>3. TypeOK'
  BY <1>1, <1>2 DEF DiscoveryInv, TypeOK
<1>4. ListedOnce' /\ DetailsMatchModels' /\ Described'
  BY <1>1 DEF DiscoveryInv, ListedOnce, DetailsMatchModels, Described
<1> QED  BY <1>3, <1>4 DEF DiscoveryInv

(* The steps that leave models and descriptions alone.                     *)
LEMMA OtherInv ==
  ASSUME DiscoveryInv, TypeOK', UNCHANGED <<models, modelDetails>>,
         at' # "details", at # "details", ids' = ids
  PROVE  DiscoveryInv'
BY DEF DiscoveryInv, ListedOnce, DetailsMatchModels, Described

(* The steps that leave the poll alone.                                    *)
LEMMA OutsideInv ==
  ASSUME DiscoveryInv, TypeOK', UNCHANGED <<models, modelDetails, at, modelIDs, ids>>
  PROVE  DiscoveryInv'
BY DEF DiscoveryInv, ListedOnce, DetailsMatchModels, Described

LEMMA InitDiscovery == Init => DiscoveryInv
<1> SUFFICES ASSUME Init PROVE DiscoveryInv
  OBVIOUS
<1>1. <<>> \in Seq(Servers)
  OBVIOUS
<1>2. TypeOK
  BY <1>1, DiscoveryAssumption DEF Init, TypeOK
<1>3. ListedOnce /\ DetailsMatchModels /\ Described
  BY DEF Init, ListedOnce, DetailsMatchModels, Described
<1> QED  BY <1>2, <1>3 DEF DiscoveryInv

LEMMA StepDiscovery ==
  ASSUME DiscoveryInv, [Next]_vars
  PROVE  DiscoveryInv'
<1>0. TypeOK /\ <<>> \in Seq(Servers)
  BY DEF DiscoveryInv
<1>1. CASE Start \/ Exit \/ Request
  <2>1. TypeOK'
    BY <1>0, <1>1 DEF Start, Exit, Request, TypeOK
  <2> QED  BY <1>1, <2>1, OtherInv DEF Start, Exit, Request
<1>2. CASE Tick \/ PassEnds
  <2>1. TypeOK'
    BY <1>0, <1>2 DEF Tick, PassEnds, TypeOK
  <2> QED  BY <1>2, <2>1, OtherInv DEF Tick, PassEnds
<1>3. CASE PollFails \/ MarkHealthy
  <2>1. Polled \in Servers /\ Tail(todo) \in Seq(Servers)
    BY <1>0, <1>3, PolledType DEF PollFails, MarkHealthy
  <2>2. CASE PollFails
    <3>1. TypeOK'
      BY <1>0, <2>1, <2>2 DEF PollFails, TypeOK
    <3> QED  BY <2>2, <3>1, OtherInv DEF PollFails
  <2>3. CASE MarkHealthy
    <3>1. ids = {}
      BY <2>3 DEF MarkHealthy, DiscoveryInv, Described
    <3>2. TypeOK'
      BY <1>0, <2>1, <2>3, <3>1 DEF MarkHealthy, TypeOK
    <3> QED  BY <2>3, <3>2, OtherInv DEF MarkHealthy
  <2> QED  BY <1>3, <2>2, <2>3
<1>4. CASE Stop \/ UNCHANGED vars \/ \E l \in ServerLists : SetServers(l)
  <2>1. TypeOK'
    BY <1>0, <1>4, DiscoveryAssumption DEF Stop, vars, SetServers, TypeOK
  <2> QED  BY <1>4, <2>1, OutsideInv DEF Stop, vars, SetServers
<1>5. ASSUME NEW u \in Servers, BackendChanges(u)
      PROVE  DiscoveryInv'
  <2>1. advert' \in [Servers -> (SUBSET Models) \cup {Down}]
    BY <1>0, <1>5 DEF BackendChanges, TypeOK
  <2>2. TypeOK'
    BY <1>0, <1>5, <2>1 DEF BackendChanges, TypeOK
  <2> QED  BY <1>5, <2>2, OutsideInv DEF BackendChanges
<1> QED  BY <1>1, <1>2, <1>3, <1>4, <1>5, PollAnswersInv, StoreDetailsInv, UpdateModelsInv
         DEF Next, PollStep

-----------------------------------------------------------------------------
(* The theorems.                                                           *)

(* Discovery's maps and the poll's local state keep their types, and no    *)
(* point of Discover uses a server when none is left.                      *)
THEOREM DiscoveryTypeCorrect == Spec => []TypeOK
<1>1. DiscoveryInv /\ [Next]_vars => DiscoveryInv'
  BY StepDiscovery
<1>2. DiscoveryInv => TypeOK
  BY DEF DiscoveryInv
<1> QED  BY <1>1, <1>2, InitDiscovery, PTL DEF Spec

(* updateModels keeps every list free of repeats, whatever servers answer  *)
(* and however often they are configured again.                            *)
THEOREM NoServerListedTwice == Spec => []ListedOnce
<1>1. DiscoveryInv /\ [Next]_vars => DiscoveryInv'
  BY StepDiscovery
<1>2. DiscoveryInv => ListedOnce
  BY DEF DiscoveryInv
<1> QED  BY <1>1, <1>2, InitDiscovery, PTL DEF Spec

(* Between two answers the models with a description are exactly those     *)
(* with a server: the d.mu sections of Discover, taken one by one, bring   *)
(* the two maps back in line.                                              *)
THEOREM ModelsDescribed == Spec => []DetailsMatchModels
<1>1. DiscoveryInv /\ [Next]_vars => DiscoveryInv'
  BY StepDiscovery
<1>2. DiscoveryInv => DetailsMatchModels
  BY DEF DiscoveryInv
<1> QED  BY <1>1, <1>2, InitDiscovery, PTL DEF Spec

(* No step takes a server away from the router but the one that handles    *)
(* this server's own failure or its own answer without the model.          *)
THEOREM LeftForCause == Spec => LeavesForCause
<1> DEFINE Cause == \A m \in Models : \A u \in ServersForModel(m) :
                      u \notin ServersForModel(m)' =>
                        /\ todo # <<>> /\ Polled = u
                        /\ \/ at = "request" /\ at' = "loop"
                           \/ at = "details" /\ m \notin modelIDs
<1>1. ASSUME DiscoveryInv, [Next]_vars
      PROVE  Cause
  <2> SUFFICES ASSUME NEW m \in Models, NEW u \in ServersForModel(m), u \notin ServersForModel(m)'
               PROVE  /\ todo # <<>> /\ Polled = u
                      /\ \/ at = "request" /\ at' = "loop"
                         \/ at = "details" /\ m \notin modelIDs
    OBVIOUS
  <2>0. TypeOK /\ u \in Listed(m) /\ healthy[u] /\ u \in Servers
    <3>1. u \in Listed(m) /\ healthy[u]
      BY DEF ServersForModel
    <3>2. models[m] \in Seq(Servers)
      BY <1>1 DEF DiscoveryInv, TypeOK
    <3> QED  BY <1>1, <3>1, <3>2 DEF DiscoveryInv, Listed
  <2>1. CASE PollFails
    <3>1. healthy' = [healthy EXCEPT ![Polled] = FALSE] /\ UNCHANGED models
      BY <2>1 DEF PollFails
    <3>2. u # Polled => healthy'[u]
      BY <2>0, <3>1 DEF TypeOK
    <3>3. u = Polled
      BY <2>0, <3>1, <3>2 DEF ServersForModel, Listed
    <3> QED  BY <2>0, <2>1, <3>3 DEF PollFails, TypeOK
  <2>2. CASE UpdateModels
    <3>1. at = "details" /\ UNCHANGED healthy /\ models'[m] = Relisted(m, Polled, modelIDs)
      BY <2>2 DEF UpdateModels
    <3>2. Listed(m)' = Members(Relisted(m, Polled, modelIDs))
      BY <3>1 DEF Listed, Members
    <3>3. u \notin Listed(m)'
      BY <2>0, <3>1 DEF ServersForModel
    <3>4. Listed(m)' = (Listed(m) \ {Polled}) \cup (IF m \in modelIDs THEN {Polled} ELSE {})
      BY <1>1, <3>1, <3>2, RelistedProperties DEF DiscoveryInv
    <3> QED  BY <2>0, <3>1, <3>3, <3>4 DEF TypeOK
  <2>3. CASE MarkHealthy
    <3>1. healthy' = [healthy EXCEPT ![Polled] = TRUE] /\ UNCHANGED models
      BY <2>3 DEF MarkHealthy
    <3>2. healthy'[u]
      BY <2>0, <3>1 DEF TypeOK
    <3> QED  BY <2>0, <3>1, <3>2 DEF ServersForModel, Listed
  <2>4. CASE UNCHANGED <<models, healthy>>
    BY <2>0, <2>4 DEF ServersForModel, Listed
  <2>5. PollFails \/ UpdateModels \/ MarkHealthy \/ UNCHANGED <<models, healthy>>
    BY <1>1 DEF Next, PollStep, Start, Tick, Exit, PassEnds, Request, PollAnswers, StoreDetails,
       SetServers, Stop, BackendChanges, vars
  <2> QED  BY <2>1, <2>2, <2>3, <2>4, <2>5
<1>2. DiscoveryInv /\ [Next]_vars => DiscoveryInv'
  BY StepDiscovery
<1>3. DiscoveryInv /\ [Next]_vars => [Cause]_vars
  BY <1>1
<1> QED  BY <1>2, <1>3, InitDiscovery, PTL DEF Spec, LeavesForCause
=============================================================================
