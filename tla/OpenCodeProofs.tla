--------------------------- MODULE OpenCodeProofs ---------------------------
(***************************************************************************)
(* Proofs about OpenCode: the limits the handlers compute and publish, and *)
(* what they find for a model although discovery goes on between two reads.*)
(***************************************************************************)
EXTENDS MCOpenCode, DiscoveryProofs

(* A context length is positive, or a sum that was too large for int.      *)
LEMMA ContextPositive ==
  ASSUME NEW raw \in Meta \cup {Unreadable}
  PROVE  /\ extractMaxModelLen(raw) \in GoInt
         /\ \/ extractMaxModelLen(raw) > 0
            \/ raw # Unreadable /\ raw.max_tokens > MaxInt - defaultGenerationLimit
<1>0. MaxInt \in Nat /\ MaxInt > 8192
  BY OpenCodeAssumption
<1>1. CASE raw = Unreadable
  BY <1>0, <1>1 DEF extractMaxModelLen, defaultMaxModelLen, GoInt
<1>2. CASE raw # Unreadable
  <2>1. /\ raw.max_model_len \in GoInt /\ raw.max_context_length \in GoInt
        /\ raw.max_tokens \in GoInt /\ raw.context_length \in GoInt
    BY <1>2 DEF Meta
  <2>2. raw.max_tokens > 0 =>
          /\ Wrap(raw.max_tokens + defaultGenerationLimit) \in GoInt
          /\ \/ Wrap(raw.max_tokens + defaultGenerationLimit) > 0
             \/ raw.max_tokens > MaxInt - defaultGenerationLimit
    BY <1>0, <2>1 DEF Wrap, GoInt, defaultGenerationLimit
  <2>3. defaultMaxModelLen \in GoInt /\ defaultMaxModelLen > 0
    BY <1>0 DEF defaultMaxModelLen, GoInt
  <2> QED
    BY <1>0, <1>2, <2>1, <2>2, <2>3 DEF extractMaxModelLen
<1> QED  BY <1>1, <1>2

(* Limits divides the context exactly: input and output are what the       *)
(* buffer leaves of it, or nothing when the buffer takes it all.           *)
LEMMA LimitsExact ==
  ASSUME NEW context \in GoInt, context > 0, NEW out \in GoInt, NEW buf \in GoInt,
         InRange(context, out, buf)
  PROVE  LET e == Limits(context, out, buf)
             room == context - Positive(buf, defaultBuffer)
         IN  /\ e.context = context
             /\ e.input \in Int /\ e.output \in Int
             /\ e.input >= 0 /\ e.output >= 0
             /\ e.input + e.output = IF room < 0 THEN 0 ELSE room
<1> DEFINE o == Positive(out, defaultOutput)
           b == Positive(buf, defaultBuffer)
<1>0. MaxInt \in Nat /\ MaxInt > 8192
  BY OpenCodeAssumption
<1>1. o \in Int /\ o > 0 /\ o <= MaxInt
  BY <1>0 DEF Positive, defaultOutput, GoInt
<1>2. b \in Int /\ b > 0 /\ b <= MaxInt
  BY <1>0 DEF Positive, defaultBuffer, GoInt
<1>3. context \in Int /\ context <= MaxInt /\ context - o - b \in GoInt
  BY <1>0 DEF InRange, GoInt
<1> HIDE DEF o, b
<1>4. /\ Wrap(context - o) = context - o
      /\ Wrap(context - b) = context - b
      /\ Wrap(context - o - b) = context - o - b
  BY <1>0, <1>1, <1>2, <1>3 DEF Wrap, GoInt
<1>5. Limits(context, out, buf) =
        [context |-> context,
         input |-> IF (IF context - o - b < 0 THEN context - b ELSE o) >= 0
                   THEN IF context - o - b < 0 THEN 0 ELSE context - o - b
                   ELSE IF context - b < 0 THEN 0 ELSE context - b,
         output |-> IF (IF context - o - b < 0 THEN context - b ELSE o) < 0 THEN 0
                    ELSE IF context - o - b < 0 THEN context - b ELSE o]
  BY <1>4 DEF Limits, o, b
<1>6. CASE context - o - b >= 0
  BY <1>1, <1>2, <1>3, <1>5, <1>6 DEF b
<1>7. CASE context - o - b < 0
  BY <1>1, <1>2, <1>3, <1>5, <1>7 DEF b
<1> QED  BY <1>1, <1>2, <1>3, <1>6, <1>7

(* So an entry fits into its context.                                      *)
LEMMA LimitsFit ==
  ASSUME NEW context \in GoInt, context > 0, NEW out \in GoInt, NEW buf \in GoInt,
         InRange(context, out, buf)
  PROVE  Fits(Limits(context, out, buf))
<1> DEFINE e == Limits(context, out, buf)
           b == Positive(buf, defaultBuffer)
<1>1. b \in Int /\ b > 0 /\ context \in Int
  BY OpenCodeAssumption DEF Positive, defaultBuffer, GoInt
<1>2. /\ e.context = context /\ e.input \in Int /\ e.output \in Int
      /\ e.input >= 0 /\ e.output >= 0
      /\ e.input + e.output = IF context - b < 0 THEN 0 ELSE context - b
  BY LimitsExact
<1> HIDE DEF e, b
<1>3. e.input + e.output < e.context
  BY <1>1, <1>2
<1> QED  BY <1>2, <1>3 DEF Fits, e

(* The numbers a handler will use are Go integers.                         *)
CatalogInv ==
  /\ output \in GoInt /\ buffer \in GoInt /\ outLimit \in GoInt
  /\ DOMAIN entries = Models

LEMMA CatalogInvInit == CatalogInit => CatalogInv
<1>1. 0 \in GoInt
  BY OpenCodeAssumption DEF GoInt
<1> QED  BY <1>1, OpenCodeAssumption DEF CatalogInit, CatalogInv, NoEntries

LEMMA CatalogInvNext ==
  ASSUME CatalogInv, [CatalogNext]_<<vars, catalogVars>>
  PROVE  CatalogInv'
<1>0. 0 \in GoInt
  BY OpenCodeAssumption DEF GoInt
<1>1. CASE UNCHANGED catalogVars
  BY <1>1 DEF CatalogInv, catalogVars, handlerVars
<1>2. CASE SetLimits
  BY <1>2, OpenCodeAssumption DEF SetLimits, CatalogInv, handlerVars
<1>3. CASE HandlerStep /\ UNCHANGED <<vars, output, buffer>>
  <2>1. CASE \E m \in Models : MakeEntry(m)
    BY <1>0, <1>3, <2>1 DEF MakeEntry, CatalogInv
  <2>2. CASE ReadOutput
    BY <1>3, <2>2 DEF ReadOutput, CatalogInv
  <2>3. CASE Reply
    BY <1>3, <2>3 DEF Reply, NoEntries, CatalogInv
  <2>4. CASE UNCHANGED <<outLimit, entries>>
    BY <1>3, <2>4 DEF CatalogInv
  <2> QED
    BY <1>3, <2>1, <2>2, <2>3, <2>4
       DEF HandlerStep, Get, Post, Parse, ReadModels, ReadDetails
<1> QED  BY <1>1, <1>2, <1>3 DEF CatalogNext

(* The entry made for m is right.                                          *)
Right(e, out, buf) ==
  /\ e.context > 0 \/ Overflown(e.context)
  /\ e.context > 0 /\ InRange(e.context, out, buf) => Fits(e)

LEMMA EntryRight ==
  ASSUME CatalogInv, NEW n \in Models, MakeEntry(n), NEW m \in Models, entries'[m] # entries[m]
  PROVE  Right(entries'[m], outLimit, buffer)
<1>1. PICK context \in Contexts(n) :
        entries' = [entries EXCEPT ![n] = Limits(context, outLimit, buffer)]
  BY DEF MakeEntry
<1>2. entries'[m] = Limits(context, outLimit, buffer)
  BY <1>1 DEF CatalogInv
<1>3. entries'[m].context = context
  BY <1>2 DEF Limits
<1>4. context \in GoInt /\ (context > 0 \/ Overflown(context))
  <2>1. CASE context = defaultMaxModelLen
    BY <2>1, OpenCodeAssumption DEF defaultMaxModelLen, GoInt
  <2>2. ASSUME NEW raw \in Metas, context = extractMaxModelLen(raw)
        PROVE  context \in GoInt /\ (context > 0 \/ Overflown(context))
    <3>1. raw \in Meta \cup {Unreadable}
      BY OpenCodeAssumption
    <3> QED  BY <2>2, <3>1, ContextPositive DEF Overflown
  <2> QED  BY <2>1, <2>2 DEF Contexts
<1>5. context > 0 /\ InRange(context, outLimit, buffer) => Fits(Limits(context, outLimit, buffer))
  BY <1>4, LimitsFit DEF CatalogInv
<1> QED  BY <1>2, <1>3, <1>4, <1>5 DEF Right

(* The limits buildModelEntries publishes are no negative numbers and fit  *)
(* into the context, for every description and all settings, changing      *)
(* between the two reads, whose sums stay within Go's int; a context is    *)
(* not positive only if max_tokens + 3000 did not.                         *)
THEOREM LimitsAlwaysFit == CatalogSpec => EntriesFit
<1>1. CatalogInv /\ [CatalogNext]_<<vars, catalogVars>> => CatalogInv'
  BY CatalogInvNext
<1>2. ASSUME CatalogInv, [CatalogNext]_<<vars, catalogVars>>,
             NEW m \in Models, entries'[m] # entries[m], entries'[m] # NoEntry
      PROVE  Right(entries'[m], outLimit, buffer)
  <2>1. \E n \in Models : MakeEntry(n)
    <3>1. CASE UNCHANGED <<vars, catalogVars>> \/ UNCHANGED catalogVars \/ SetLimits
      BY <1>2, <3>1 DEF catalogVars, handlerVars, SetLimits
    <3>2. CASE HandlerStep
      <4>1. ~Reply
        BY <1>2 DEF Reply, NoEntries
      <4> QED  BY <1>2, <3>2, <4>1 DEF HandlerStep, Get, Post, Parse, ReadModels, ReadDetails, ReadOutput
    <3> QED  BY <1>2, <3>1, <3>2 DEF CatalogNext
  <2> QED  BY <1>2, <2>1, EntryRight
<1>3. CatalogInv /\ [CatalogNext]_<<vars, catalogVars>> =>
        [\A m \in Models : entries'[m] # entries[m] /\ entries'[m] # NoEntry =>
           LET context == entries'[m].context IN
           /\ context > 0 \/ Overflown(context)
           /\ context > 0 /\ InRange(context, outLimit, buffer) => Fits(entries'[m])
        ]_<<vars, catalogVars>>
  BY <1>2 DEF Right
<1> QED  BY <1>1, <1>3, CatalogInvInit, PTL DEF CatalogSpec, EntriesFit

-----------------------------------------------------------------------------
(* The descriptions of the models published.                               *)

(* A listed model has a description at every moment, also while an answer  *)
(* is looked at: discovery stores it before it lists the model.            *)
LEMMA ListedDescribed ==
  ASSUME DiscoveryInv, NEW m \in Models, models[m] # <<>>
  PROVE  modelDetails[m] # NoDetails
BY DEF DiscoveryInv, Described, DetailsMatchModels

(* Discovery's invariant, and what a handler knows of the models it read:  *)
(* before it reads the descriptions each still has a server, afterwards it *)
(* has a description, unless it lost its last server.                      *)
ReadInv ==
  /\ DiscoveryInv
  /\ names \subseteq Models
  /\ handler = "details" => \A m \in names : models[m] # <<>> \/ m \in gone
  /\ handler \in {"entries", "limit"} =>
       \A m \in names : details[m] # NoDetails \/ m \in gone

LEMMA ReadInvInit == HistoryInit => ReadInv
BY InitDiscovery DEF HistoryInit, CatalogInit, ReadInv

(* A handler at work keeps the record of the models that lost all servers. *)
LEMMA GoneGrows ==
  ASSUME HistoryNext, handler' # "idle"
  PROVE  \A m \in names : m \in gone \/ models'[m] = <<>> => m \in gone'
BY DEF HistoryNext

(* Discovery and administrators: the handler's locals stay.                *)
LEMMA BesideHandler ==
  ASSUME ReadInv, HistoryNext, DiscoveryInv', UNCHANGED handlerVars
  PROVE  ReadInv'
<1>1. UNCHANGED <<handler, names, details>>
  BY DEF handlerVars
<1>2. CASE handler = "details"
  BY <1>1, <1>2, GoneGrows DEF ReadInv
<1>3. CASE handler \in {"entries", "limit"}
  BY <1>1, <1>3, GoneGrows DEF ReadInv
<1>4. CASE handler \notin {"details", "entries", "limit"}
  BY <1>1, <1>4 DEF ReadInv
<1> QED  BY <1>2, <1>3, <1>4

(* The handler: discovery's state stays.                                   *)
LEMMA ByHandler ==
  ASSUME ReadInv, HistoryNext, DiscoveryInv', HandlerStep, UNCHANGED vars
  PROVE  ReadInv'
<1>0. UNCHANGED <<models, modelDetails>>
  BY DEF vars
<1>1. CASE handler' \notin {"details", "entries", "limit"}
  <2>1. names' \subseteq Models
    BY <1>1 DEF ReadInv, HandlerStep, Get, Post, Parse, ReadModels, ReadDetails, ReadOutput,
                MakeEntry, Reply
  <2> QED  BY <1>1, <2>1 DEF ReadInv
<1>2. CASE ReadModels
  BY <1>0, <1>2 DEF ReadModels, ReadInv
<1>3. CASE ReadDetails
  <2>1. /\ handler = "details" /\ handler' = "entries"
        /\ details' = modelDetails /\ names' = names
    BY <1>3 DEF ReadDetails
  <2>2. \A m \in names : models[m] # <<>> => modelDetails[m] # NoDetails
    BY ListedDescribed DEF ReadInv
  <2> QED  BY <2>1, <2>2, GoneGrows DEF ReadInv
<1>4. CASE ReadOutput \/ \E m \in Models : MakeEntry(m)
  <2>1. /\ handler \in {"entries", "limit"} /\ handler' \in {"entries", "limit"}
        /\ UNCHANGED <<names, details>>
    BY <1>4 DEF ReadOutput, MakeEntry
  <2> QED  BY <2>1, GoneGrows DEF ReadInv
<1> QED  BY <1>1, <1>2, <1>3, <1>4 DEF HandlerStep, Get, Post, Parse, Reply

LEMMA ReadInvNext ==
  ASSUME ReadInv, [HistoryNext]_<<vars, catalogVars, gone>>
  PROVE  ReadInv'
<1>1. CASE UNCHANGED <<vars, catalogVars, gone>>
  <2>1. DiscoveryInv'
    BY <1>1, StepDiscovery DEF ReadInv
  <2> QED  BY <1>1, <2>1 DEF vars, catalogVars, handlerVars, ReadInv
<1>2. CASE HistoryNext
  <2>1. [Next]_vars
    BY <1>2 DEF HistoryNext, CatalogNext, SetLimits
  <2>2. DiscoveryInv'
    BY <2>1, StepDiscovery DEF ReadInv
  <2>3. UNCHANGED handlerVars \/ (HandlerStep /\ UNCHANGED vars)
    BY <1>2 DEF HistoryNext, CatalogNext, SetLimits, catalogVars, handlerVars, vars
  <2> QED  BY <1>2, <2>2, <2>3, BesideHandler, ByHandler
<1> QED  BY <1>1, <1>2

(* However polls and a handler's two reads interleave, handleModels and    *)
(* buildModelEntries find the description of every model they publish that *)
(* has not lost its last server since they read the list.                  *)
THEOREM PublishedDescribed == HistorySpec => []DescribedUnlessDropped
<1>1. HistoryInit => ReadInv
  BY ReadInvInit
<1>2. ReadInv /\ [HistoryNext]_<<vars, catalogVars, gone>> => ReadInv'
  BY ReadInvNext
<1>3. ReadInv => DescribedUnlessDropped
  BY DEF ReadInv, DescribedUnlessDropped
<1> QED  BY <1>1, <1>2, <1>3, PTL DEF HistorySpec

-----------------------------------------------------------------------------
(* The comments.  FlattenSeq and Scan are recursive functions: each is     *)
(* shown to satisfy its equation, and what follows from it is shown by     *)
(* induction over a set of numbers.                                        *)

LEMMA UpTo ==
  ASSUME NEW n \in Nat, NEW G, 0 \in G, \A i \in 1..n : i - 1 \in G => i \in G
  PROVE  \A i \in 0..n : i \in G
<1> DEFINE Left == {i \in 0..n : i \notin G}
<1> SUFFICES ASSUME Left # {} PROVE FALSE
  OBVIOUS
<1>1. PICK d \in Left : \A e \in Left : ~(e < d)
  <2>1. Left \subseteq Nat
    OBVIOUS
  <2> HIDE DEF Left
  <2> QED  BY <2>1, LeastNat
<1>2. d \in 1..n /\ d - 1 \in 0..n /\ d - 1 < d
  BY <1>1
<1>3. d - 1 \in G
  BY <1>1, <1>2
<1> QED  BY <1>1, <1>2, <1>3

(* One round of FlattenSeq.                                                *)
Join(l, g, i) == IF i = 1 THEN l[i] ELSE g[i - 1] \o l[i]

LEMMA JoinDefined ==
  ASSUME NEW l, NEW n \in Nat
  PROVE  \E g : g = [i \in 1..n |-> Join(l, g, i)]
<1> DEFINE G == {k \in Nat : \E g : g = [i \in 1..k |-> Join(l, g, i)]}
<1>1. 0 \in G
  <2> DEFINE g == [i \in 1..0 |-> 0]
  <2>1. g = [i \in 1..0 |-> Join(l, g, i)]
    OBVIOUS
  <2> QED  BY <2>1
<1>2. ASSUME NEW k \in 1..n, k - 1 \in G PROVE k \in G
  <2>1. PICK g : g = [i \in 1..(k - 1) |-> Join(l, g, i)]
    BY <1>2
  <2> DEFINE h == [i \in 1..k |-> IF i = k THEN Join(l, g, k) ELSE g[i]]
  <2>2. \A i \in 1..(k - 1) : h[i] = g[i]
    OBVIOUS
  <2>3. \A i \in 1..k : h[i] = Join(l, g, i)
    BY <2>1
  <2>4. \A i \in 1..k : i # 1 => i - 1 \in 1..(k - 1)
    OBVIOUS
  <2>5. \A i \in 1..k : Join(l, h, i) = Join(l, g, i)
    BY <2>2, <2>4 DEF Join
  <2>6. h = [i \in 1..k |-> Join(l, h, i)]
    <3>1. h = [i \in 1..k |-> h[i]]
      OBVIOUS
    <3> HIDE DEF h
    <3> QED  BY <2>3, <2>5, <3>1
  <2> HIDE DEF h
  <2> QED  BY <2>6
<1> HIDE DEF G
<1>3. n \in G
  BY <1>1, <1>2, UpTo
<1> QED  BY <1>3 DEF G

(* The characters of the first k tokens of a line.                         *)
Text(l, k) ==
  IF k = 0 THEN <<>> ELSE (CHOOSE g : g = [i \in 1..Len(l) |-> Join(l, g, i)])[k]

LEMMA FlattenIsText ==
  ASSUME NEW C, NEW l \in Seq(Seq(C))
  PROVE  FlattenSeq(l) = Text(l, Len(l))
<1>1. CASE Len(l) = 0
  BY <1>1 DEF FlattenSeq, Text
<1>2. CASE Len(l) # 0
  BY <1>2 DEF FlattenSeq, Text, Join
<1> QED  BY <1>1, <1>2

LEMMA TextStep ==
  ASSUME NEW C, NEW l \in Seq(Seq(C))
  PROVE  /\ Text(l, 0) = <<>>
         /\ \A k \in 0..Len(l) : Text(l, k) \in Seq(C)
         /\ \A k \in 1..Len(l) : Text(l, k) = Text(l, k - 1) \o l[k]
<1> DEFINE n == Len(l)
           f == CHOOSE g : g = [i \in 1..n |-> Join(l, g, i)]
           G == {k \in 0..n : Text(l, k) \in Seq(C)}
<1>0. n \in Nat /\ \A k \in 1..n : l[k] \in Seq(C)
  OBVIOUS
<1>1. f = [i \in 1..n |-> Join(l, f, i)]
  BY <1>0, JoinDefined
<1>2. Text(l, 0) = <<>> /\ \A k \in 1..n : Text(l, k) = f[k]
  BY <1>0 DEF Text
<1> HIDE DEF f
<1>3. \A k \in 1..n : f[k] = Join(l, f, k)
  BY <1>1
<1>4. \A k \in 1..n : k # 1 => Text(l, k) = Text(l, k - 1) \o l[k]
  <2> SUFFICES ASSUME NEW k \in 1..n, k # 1 PROVE Text(l, k) = Text(l, k - 1) \o l[k]
    OBVIOUS
  <2>1. k - 1 \in 1..n
    BY <1>0
  <2>2. Text(l, k - 1) = f[k - 1]
    BY <1>2, <2>1
  <2>3. Text(l, k) = Join(l, f, k)
    BY <1>2, <1>3
  <2> QED  BY <2>2, <2>3 DEF Join
<1>5. 1 \in 1..n => Text(l, 1) = l[1]
  BY <1>2, <1>3 DEF Join
<1>6. \A k \in 1..n : Text(l, k) = Text(l, k - 1) \o l[k]
  <2>1. 1 \in 1..n => Text(l, 0) \o l[1] = l[1]
    BY <1>0, <1>2
  <2>2. ASSUME NEW k \in 1..n, k = 1 PROVE Text(l, k) = Text(l, k - 1) \o l[k]
    <3>1. k - 1 = 0 /\ 1 \in 1..n
      BY <2>2
    <3> QED  BY <1>5, <2>1, <2>2, <3>1
  <2> QED  BY <1>4, <2>2
<1>7. \A k \in 0..n : k \in G
  <2>1. 0 \in G
    <3>1. 0 \in 0..n /\ <<>> \in Seq(C)
      BY <1>0
    <3> QED  BY <1>2, <3>1
  <2>2. ASSUME NEW k \in 1..n, k - 1 \in G PROVE k \in G
    <3>1. Text(l, k - 1) \in Seq(C) /\ l[k] \in Seq(C) /\ Text(l, k) = Text(l, k - 1) \o l[k]
      BY <1>0, <1>6, <2>2
    <3>2. Text(l, k) \in Seq(C)
      BY <3>1
    <3> QED  BY <1>0, <3>2
  <2> HIDE DEF G
  <2> QED  BY <1>0, <2>1, <2>2, UpTo
<1> QED  BY <1>2, <1>6, <1>7

(* The tokens of a shorter line have the same text.                        *)
LEMMA TextOfPrefix ==
  ASSUME NEW C, NEW l \in Seq(Seq(C)), NEW k \in 0..Len(l)
  PROVE  FlattenSeq(SubSeq(l, 1, k)) = Text(l, k)
<1> DEFINE s == SubSeq(l, 1, k)
           G == {j \in Nat : Text(s, j) = Text(l, j)}
<1>1. s \in Seq(Seq(C)) /\ Len(s) = k /\ \A j \in 1..k : s[j] = l[j]
  OBVIOUS
<1> HIDE DEF s
<1>2. 0 \in G
  BY DEF Text
<1>3. ASSUME NEW j \in 1..k, j - 1 \in G PROVE j \in G
  <2>1. Text(s, j) = Text(s, j - 1) \o s[j]
    BY <1>1, TextStep
  <2>2. Text(l, j) = Text(l, j - 1) \o l[j]
    <3>1. j \in 1..Len(l)
      OBVIOUS
    <3> QED  BY <3>1, TextStep
  <2>3. Text(s, j - 1) = Text(l, j - 1) /\ s[j] = l[j] /\ j \in Nat
    BY <1>1, <1>3
  <2>4. Text(s, j) = Text(l, j)
    BY <2>1, <2>2, <2>3
  <2> QED  BY <2>3, <2>4
<1>4. k \in G
  <2> HIDE DEF G
  <2>1. k \in Nat /\ k \in 0..k
    OBVIOUS
  <2> QED  BY <1>2, <1>3, <2>1, UpTo
<1>5. FlattenSeq(s) = Text(s, k)
  BY <1>1, FlattenIsText
<1> QED  BY <1>4, <1>5 DEF s

(* The text of the line begins with the text of its first k tokens.        *)
LEMMA TextStart ==
  ASSUME NEW C, NEW l \in Seq(Seq(C)), NEW k \in 0..Len(l)
  PROVE  /\ Len(Text(l, k)) \in Nat /\ Len(Text(l, k)) <= Len(FlattenSeq(l))
         /\ \A i \in 1..Len(Text(l, k)) : FlattenSeq(l)[i] = Text(l, k)[i]
<1> DEFINE Begins(j) == /\ Len(Text(l, k)) <= Len(Text(l, j))
                        /\ \A i \in 1..Len(Text(l, k)) : Text(l, j)[i] = Text(l, k)[i]
           G == {j \in Nat : k <= j => Begins(j)}
<1>0. Len(l) \in Nat /\ k \in Nat /\ k <= Len(l) /\ Len(l) \in 0..Len(l)
  OBVIOUS
<1>a. /\ \A j \in 0..Len(l) : Text(l, j) \in Seq(C)
      /\ \A j \in 1..Len(l) : Text(l, j) = Text(l, j - 1) \o l[j]
      /\ \A j \in 1..Len(l) : l[j] \in Seq(C)
  <2>1. \A j \in 1..Len(l) : l[j] \in Seq(C)
    OBVIOUS
  <2> QED  BY <2>1, TextStep
<1>1. \A j \in 0..Len(l) : Text(l, j) \in Seq(C) /\ Len(Text(l, j)) \in Nat
  BY <1>a
<1>2. Begins(k)
  BY <1>1
<1>3. 0 \in G
  <2>1. k <= 0 => k = 0
    BY <1>0
  <2> HIDE DEF Begins
  <2> QED  BY <1>2, <2>1
<1>4. ASSUME NEW j \in 1..Len(l), j - 1 \in G PROVE j \in G
  <2>1. CASE k = j
    BY <1>2, <2>1
  <2>2. CASE k < j
    <3>1. Begins(j - 1)
      BY <1>0, <1>4, <2>2
    <3>2. /\ Text(l, j) = Text(l, j - 1) \o l[j] /\ l[j] \in Seq(C)
          /\ Text(l, j - 1) \in Seq(C) /\ Text(l, k) \in Seq(C)
      <4>1. j - 1 \in 0..Len(l)
        BY <1>0
      <4> QED  BY <1>a, <4>1
    <3> DEFINE a == Text(l, j - 1)
               b == Text(l, k)
               t == l[j]
    <3>3. Begins(j)
      <4>1. a \in Seq(C) /\ b \in Seq(C) /\ t \in Seq(C) /\ Text(l, j) = a \o t
        BY <3>2
      <4>2. Len(b) <= Len(a) /\ \A i \in 1..Len(b) : a[i] = b[i]
        BY <3>1
      <4> HIDE DEF a, t
      <4>3. Len(b) <= Len(a \o t) /\ \A i \in 1..Len(b) : (a \o t)[i] = b[i]
        <5> HIDE DEF b
        <5> QED  BY <4>1, <4>2
      <4> QED  BY <4>1, <4>3
    <3> HIDE DEF Begins
    <3> QED  BY <1>0, <3>3
  <2>3. CASE ~(k <= j)
    BY <2>3
  <2> QED  BY <1>0, <2>1, <2>2, <2>3
<1>5. Len(l) \in G
  <2> HIDE DEF G
  <2> QED  BY <1>0, <1>3, <1>4, UpTo
<1>6. Begins(Len(l))
  BY <1>0, <1>5
<1>7. FlattenSeq(l) = Text(l, Len(l))
  BY FlattenIsText
<1> QED  BY <1>1, <1>6, <1>7

-----------------------------------------------------------------------------
(* The scan of a line.                                                     *)

Outside == [inString |-> FALSE, escape |-> FALSE]
Inside == [inString |-> TRUE, escape |-> FALSE]
Escaping == [inString |-> TRUE, escape |-> TRUE]

(* What a character does to inString and escape.                           *)
After(s, c) ==
  IF s.escape THEN [s EXCEPT !.escape = FALSE]
  ELSE IF c = Backslash /\ s.inString THEN [s EXCEPT !.escape = TRUE]
  ELSE IF c = Quote THEN [s EXCEPT !.inString = ~@]
  ELSE s

LEMMA AfterCases ==
  /\ After(Outside, Quote) = Inside
  /\ After(Outside, "other") = Outside
  /\ After(Inside, Slash) = Inside
  /\ After(Inside, Quote) = Outside
  /\ After(Inside, Backslash) = Escaping
  /\ \A c : After(Escaping, c) = Inside
BY DEF After, Outside, Inside, Escaping, Quote, Backslash, Slash

Advance(w, g, i) == IF i = 0 THEN Outside ELSE After(g[i - 1], w[i])

LEMMA AdvanceDefined ==
  ASSUME NEW w, NEW n \in Nat
  PROVE  \E g : g = [i \in 0..n |-> Advance(w, g, i)]
<1> DEFINE G == {k \in Nat : \E g : g = [i \in 0..k |-> Advance(w, g, i)]}
<1>1. 0 \in G
  <2> DEFINE g == [i \in 0..0 |-> Outside]
  <2>1. g = [i \in 0..0 |-> Advance(w, g, i)]
    BY DEF Advance
  <2> QED  BY <2>1
<1>2. ASSUME NEW k \in 1..n, k - 1 \in G PROVE k \in G
  <2>1. PICK g : g = [i \in 0..(k - 1) |-> Advance(w, g, i)]
    BY <1>2
  <2> DEFINE h == [i \in 0..k |-> IF i = k THEN Advance(w, g, k) ELSE g[i]]
  <2>2. \A i \in 0..(k - 1) : h[i] = g[i]
    OBVIOUS
  <2>3. \A i \in 0..k : h[i] = Advance(w, g, i)
    BY <2>1
  <2>4. \A i \in 0..k : i # 0 => i - 1 \in 0..(k - 1)
    OBVIOUS
  <2>5. \A i \in 0..k : Advance(w, h, i) = Advance(w, g, i)
    BY <2>2, <2>4 DEF Advance
  <2>6. h = [i \in 0..k |-> Advance(w, h, i)]
    <3>1. h = [i \in 0..k |-> h[i]]
      OBVIOUS
    <3> HIDE DEF h
    <3> QED  BY <2>3, <2>5, <3>1
  <2> HIDE DEF h
  <2> QED  BY <2>6
<1> HIDE DEF G
<1>3. n \in G
  BY <1>1, <1>2, UpTo
<1> QED  BY <1>3 DEF G

LEMMA ScanStep ==
  ASSUME NEW w, Len(w) \in Nat
  PROVE  /\ Scan(w)[0] = Outside
         /\ \A i \in 1..Len(w) : Scan(w)[i] = After(Scan(w)[i - 1], w[i])
<1> DEFINE f == CHOOSE g : g = [i \in 0..Len(w) |-> Advance(w, g, i)]
<1>1. f = [i \in 0..Len(w) |-> Advance(w, f, i)]
  BY AdvanceDefined
<1>2. Scan(w) = f
  BY DEF Scan, Advance, After, Outside
<1> HIDE DEF f
<1>3. \A i \in 0..Len(w) : f[i] = Advance(w, f, i)
  BY <1>1
<1> QED  BY <1>2, <1>3 DEF Advance

(* w has the token t after its first p characters.                         *)
TokenAt(w, p, t) == p + Len(t) <= Len(w) /\ \A j \in 1..Len(t) : w[p + j] = t[j]

(* A token other than a comment that begins outside a string ends outside  *)
(* one, and no comment begins in it.                                       *)
LEMMA TokenKept ==
  ASSUME NEW w, Len(w) \in Nat, NEW p \in Nat, NEW t \in {Word, Url, Escaped, Closed},
         TokenAt(w, p, t), Scan(w)[p] = Outside
  PROVE  /\ Scan(w)[p + Len(t)] = Outside
         /\ \A i \in (p + 1)..(p + Len(t)) : ~CommentAt(w, i)
<1> DEFINE S(i) == Scan(w)[i]
<1>0. \A i \in 0..(Len(w) - 1) : S(i + 1) = After(S(i), w[i + 1])
  <2> SUFFICES ASSUME NEW i \in 0..(Len(w) - 1) PROVE S(i + 1) = After(S(i), w[i + 1])
    OBVIOUS
  <2>1. i + 1 \in 1..Len(w) /\ (i + 1) - 1 = i
    OBVIOUS
  <2>2. S(i + 1) = After(Scan(w)[(i + 1) - 1], w[i + 1])
    BY <2>1, ScanStep
  <2> QED  BY <2>1, <2>2
<1>a. \A i \in Nat : CommentAt(w, i) => w[i] = Slash /\ w[i + 1] = Slash /\ ~S(i - 1).inString
  BY DEF CommentAt
<1>b. S(p) = Outside
  OBVIOUS
<1>c. Slash # Quote /\ Slash # Backslash /\ Slash # "other" /\ Inside.inString = TRUE
  BY DEF Slash, Quote, Backslash, Inside
<1> HIDE DEF S
<1>1. CASE t = Word
  <2>1. Len(t) = 1 /\ p + 1 <= Len(w) /\ w[p + 1] = "other"
    BY <1>1 DEF Word, TokenAt
  <2>2. S(p + 1) = Outside
    BY <1>0, <1>b, <2>1, AfterCases
  <2>3. \A i \in (p + 1)..(p + 1) : i = p + 1
    OBVIOUS
  <2> QED  BY <1>a, <1>c, <2>1, <2>2, <2>3 DEF S
<1>2. CASE t = Url
  <2>1. /\ Len(t) = 4 /\ p + 4 <= Len(w) /\ w[p + 1] = Quote /\ w[p + 2] = Slash
        /\ w[p + 3] = Slash /\ w[p + 4] = Quote
    BY <1>2 DEF Url, TokenAt
  <2>2. S(p + 1) = Inside
    BY <1>0, <1>b, <2>1, AfterCases
  <2>3. S(p + 2) = Inside
    BY <1>0, <2>1, <2>2, AfterCases
  <2>4. S(p + 3) = Inside
    BY <1>0, <2>1, <2>3, AfterCases
  <2>5. S(p + 4) = Outside
    BY <1>0, <2>1, <2>4, AfterCases
  <2>6. \A i \in (p + 1)..(p + 4) : i \in {p + 1, p + 2, p + 3, p + 4}
    OBVIOUS
  <2>7. (p + 2) - 1 = p + 1
    OBVIOUS
  <2> QED  BY <1>a, <1>c, <2>1, <2>2, <2>5, <2>6, <2>7 DEF S
<1>3. CASE t = Escaped
  <2>1. /\ Len(t) = 6 /\ p + 6 <= Len(w) /\ w[p + 1] = Quote /\ w[p + 2] = Backslash
        /\ w[p + 3] = Quote /\ w[p + 4] = Slash /\ w[p + 5] = Slash /\ w[p + 6] = Quote
    BY <1>3 DEF Escaped, TokenAt
  <2>2. S(p + 1) = Inside
    BY <1>0, <1>b, <2>1, AfterCases
  <2>3. S(p + 2) = Escaping
    BY <1>0, <2>1, <2>2, AfterCases
  <2>4. S(p + 3) = Inside
    BY <1>0, <2>1, <2>3, AfterCases
  <2>5. S(p + 4) = Inside
    BY <1>0, <2>1, <2>4, AfterCases
  <2>6. S(p + 5) = Inside
    BY <1>0, <2>1, <2>5, AfterCases
  <2>7. S(p + 6) = Outside
    BY <1>0, <2>1, <2>6, AfterCases
  <2>8. \A i \in (p + 1)..(p + 6) : i \in {p + 1, p + 2, p + 3, p + 4, p + 5, p + 6}
    OBVIOUS
  <2>9. (p + 4) - 1 = p + 3
    OBVIOUS
  <2>10. ~CommentAt(w, p + 1) /\ ~CommentAt(w, p + 2) /\ ~CommentAt(w, p + 3)
    BY <1>a, <1>c, <2>1
  <2>11. ~CommentAt(w, p + 4)
    BY <1>a, <1>c, <2>4, <2>9
  <2>12. ~CommentAt(w, p + 5) /\ ~CommentAt(w, p + 6)
    <3>1. p + 5 \in Nat /\ (p + 5) + 1 = p + 6 /\ p + 6 \in Nat
      OBVIOUS
    <3> QED  BY <1>a, <1>c, <2>1, <3>1
  <2> QED  BY <2>1, <2>7, <2>8, <2>10, <2>11, <2>12 DEF S
<1>4. CASE t = Closed
  <2>1. /\ Len(t) = 4 /\ p + 4 <= Len(w) /\ w[p + 1] = Quote /\ w[p + 2] = Backslash
        /\ w[p + 3] = Backslash /\ w[p + 4] = Quote
    BY <1>4 DEF Closed, TokenAt
  <2>2. S(p + 1) = Inside
    BY <1>0, <1>b, <2>1, AfterCases
  <2>3. S(p + 2) = Escaping
    BY <1>0, <2>1, <2>2, AfterCases
  <2>4. S(p + 3) = Inside
    BY <1>0, <2>1, <2>3, AfterCases
  <2>5. S(p + 4) = Outside
    BY <1>0, <2>1, <2>4, AfterCases
  <2>6. \A i \in (p + 1)..(p + 4) : i \in {p + 1, p + 2, p + 3, p + 4}
    OBVIOUS
  <2> QED  BY <1>a, <1>c, <2>1, <2>5, <2>6 DEF S
<1> QED  BY <1>1, <1>2, <1>3, <1>4

-----------------------------------------------------------------------------
(* A document.                                                             *)

Tokens == {Word, Url, Escaped, Closed, Comment}

Characters == {Quote, Backslash, Slash, "other"}

LEMMA TokensAreWritten == Tokens \subseteq Seq(Characters)
BY DEF Tokens, Word, Url, Escaped, Closed, Comment, Characters

(* c tokens of the line come before its first comment, if it has one.      *)
FirstComment(l, c) ==
  /\ c \in 0..Len(l)
  /\ \A k \in 1..c : l[k] # Comment
  /\ c < Len(l) => l[c + 1] = Comment

LEMMA LineStripped ==
  ASSUME NEW l \in Seq(Tokens), NEW c, FirstComment(l, c)
  PROVE  stripLineComment(FlattenSeq(l)) = Text(l, c)
<1> DEFINE w == FlattenSeq(l)
           E(k) == Len(Text(l, k))
           Kept(k) == /\ Scan(w)[E(k)] = Outside
                      /\ \A i \in 1..E(k) : ~CommentAt(w, i)
           G == {k \in Nat : Kept(k)}
<1>0. /\ l \in Seq(Seq(Characters)) /\ Len(l) \in Nat
      /\ c \in Nat /\ c <= Len(l) /\ c \in 0..Len(l)
      /\ \A k \in 1..Len(l) : l[k] \in Tokens /\ l[k] \in Seq(Characters)
  BY TokensAreWritten DEF FirstComment
<1>1. /\ Text(l, 0) = <<>>
      /\ \A k \in 0..Len(l) : Text(l, k) \in Seq(Characters)
      /\ \A k \in 1..Len(l) : Text(l, k) = Text(l, k - 1) \o l[k]
  BY <1>0, TextStep
<1>2. w \in Seq(Characters) /\ Len(w) \in Nat /\ w = Text(l, Len(l))
  BY <1>0, <1>1, FlattenIsText
<1>3. \A k \in 0..Len(l) : /\ E(k) \in Nat /\ E(k) <= Len(w)
                            /\ \A i \in 1..E(k) : w[i] = Text(l, k)[i]
  BY <1>0, TextStart
<1> HIDE DEF w
<1>4. ASSUME NEW k \in 1..Len(l)
      PROVE  E(k) = E(k - 1) + Len(l[k]) /\ TokenAt(w, E(k - 1), l[k])
  <2> DEFINE a == Text(l, k - 1)
             t == l[k]
  <2>1. k - 1 \in 0..Len(l) /\ k \in 0..Len(l)
    BY <1>0
  <2>2. a \in Seq(Characters) /\ t \in Seq(Characters) /\ Text(l, k) = a \o t
    BY <1>0, <1>1, <2>1
  <2>3. Len(a \o t) <= Len(w) /\ \A i \in 1..Len(a \o t) : w[i] = (a \o t)[i]
    BY <1>3, <2>1, <2>2
  <2> HIDE DEF a, t
  <2>4. /\ Len(a \o t) = Len(a) + Len(t) /\ Len(a) \in Nat /\ Len(t) \in Nat
        /\ \A j \in 1..Len(t) : (a \o t)[Len(a) + j] = t[j]
    BY <2>2
  <2>5. \A j \in 1..Len(t) : Len(a) + j \in 1..Len(a \o t)
    BY <2>4
  <2>6. TokenAt(w, Len(a), t)
    BY <2>3, <2>4, <2>5 DEF TokenAt
  <2> QED  BY <2>2, <2>4, <2>6 DEF a, t
<1>5. 0 \in G
  <2>1. E(0) = 0
    BY <1>1
  <2>2. Scan(w)[0] = Outside
    BY <1>2, ScanStep
  <2> QED  BY <2>1, <2>2
<1>6. ASSUME NEW k \in 1..c, k - 1 \in G PROVE k \in G
  <2>1. k \in 1..Len(l) /\ k - 1 \in 0..Len(l) /\ k \in Nat /\ k \in 0..Len(l)
    BY <1>0
  <2>2. l[k] \in {Word, Url, Escaped, Closed}
    BY <1>0, <2>1 DEF Tokens, FirstComment
  <2>3. TokenAt(w, E(k - 1), l[k]) /\ E(k) = E(k - 1) + Len(l[k])
    BY <1>4, <2>1
  <2>4. E(k - 1) \in Nat /\ E(k) \in Nat
    BY <1>3, <2>1
  <2>5. Scan(w)[E(k - 1)] = Outside /\ \A i \in 1..E(k - 1) : ~CommentAt(w, i)
    BY <1>6
  <2> HIDE DEF E
  <2>6. /\ Scan(w)[E(k - 1) + Len(l[k])] = Outside
        /\ \A i \in (E(k - 1) + 1)..(E(k - 1) + Len(l[k])) : ~CommentAt(w, i)
    BY <1>2, <2>2, <2>3, <2>4, <2>5, TokenKept
  <2>7. \A i \in 1..E(k) : i \in 1..E(k - 1) \/ i \in (E(k - 1) + 1)..E(k)
    BY <2>4
  <2>8. Kept(k)
    BY <2>3, <2>5, <2>6, <2>7
  <2> HIDE DEF Kept
  <2> QED  BY <2>1, <2>8
<1>7. Kept(c)
  <2>1. c \in G
    <3> HIDE DEF G
    <3>1. c \in 0..c
      BY <1>0
    <3> QED  BY <1>0, <1>5, <1>6, <3>1, UpTo
  <2> QED  BY <2>1
<1>8. CASE c = Len(l)
  <2>1. w = Text(l, c) /\ DOMAIN w = 1..Len(w) /\ E(c) = Len(w)
    BY <1>2, <1>8
  <2>2. ~\E i \in DOMAIN w : CommentAt(w, i)
    BY <1>7, <2>1
  <2> QED  BY <2>1, <2>2 DEF stripLineComment, w
<1>9. CASE c < Len(l)
  <2> DEFINE e == E(c)
  <2>1. c + 1 \in 1..Len(l) /\ l[c + 1] = Comment /\ (c + 1) - 1 = c
    BY <1>0, <1>9 DEF FirstComment
  <2>2. TokenAt(w, e, Comment)
    <3>1. TokenAt(w, E((c + 1) - 1), l[c + 1])
      BY <1>4, <2>1
    <3> QED  BY <2>1, <3>1
  <2>3. e \in Nat /\ e <= Len(w) /\ \A i \in 1..e : w[i] = Text(l, c)[i]
    BY <1>0, <1>3
  <2>4. Scan(w)[e] = Outside /\ \A i \in 1..e : ~CommentAt(w, i)
    BY <1>7
  <2>5. Text(l, c) \in Seq(Characters) /\ Len(Text(l, c)) = e
    BY <1>0, <1>1
  <2> HIDE DEF e
  <2>6. e + 3 <= Len(w) /\ w[e + 1] = Slash /\ w[e + 2] = Slash
    BY <2>2 DEF TokenAt, Comment
  <2>7. CommentAt(w, e + 1) /\ e + 1 \in DOMAIN w
    <3>1. (e + 1) - 1 = e /\ (e + 1) + 1 = e + 2 /\ e + 1 \in 1..Len(w)
      BY <1>2, <2>3, <2>6
    <3>2. Outside.inString = FALSE
      BY DEF Outside
    <3> QED  BY <1>2, <2>4, <2>6, <3>1, <3>2 DEF CommentAt
  <2> DEFINE First(i) == CommentAt(w, i) /\ \A j \in 1..(i - 1) : ~CommentAt(w, j)
  <2>8. First(e + 1)
    BY <2>3, <2>4, <2>7
  <2>9. \A i \in DOMAIN w : First(i) => i = e + 1
    <3> SUFFICES ASSUME NEW i \in DOMAIN w, First(i), i # e + 1 PROVE FALSE
      OBVIOUS
    <3>1. i \in Nat /\ i >= 1
      BY <1>2
    <3>2. CASE i < e + 1
      <4>1. i \in 1..e
        BY <2>3, <3>1, <3>2
      <4> QED  BY <2>4, <4>1
    <3>3. CASE i > e + 1
      <4>1. e + 1 \in 1..(i - 1)
        BY <2>3, <3>1, <3>3
      <4> QED  BY <2>7, <4>1
    <3> QED  BY <2>3, <3>1, <3>2, <3>3
  <2>10. stripLineComment(w) = SubSeq(w, 1, (CHOOSE i \in DOMAIN w : First(i)) - 1)
    BY <2>7 DEF stripLineComment
  <2>11. (CHOOSE i \in DOMAIN w : First(i)) = e + 1
    <3> HIDE DEF First
    <3> QED  BY <2>7, <2>8, <2>9
  <2>12. stripLineComment(w) = SubSeq(w, 1, e)
    <3> HIDE DEF First
    <3>1. (e + 1) - 1 = e
      BY <2>3
    <3> QED  BY <2>10, <2>11, <3>1
  <2>13. SubSeq(w, 1, e) = Text(l, c)
    <3> DEFINE a == SubSeq(w, 1, e)
               b == Text(l, c)
    <3>1. a \in Seq(Characters) /\ Len(a) = e /\ \A i \in 1..e : a[i] = w[i]
      BY <1>2, <2>3
    <3>2. \A i \in 1..e : a[i] = b[i]
      BY <2>3, <3>1
    <3> HIDE DEF a, b
    <3> QED  BY <2>5, <3>1, <3>2 DEF b
  <2> QED  BY <2>12, <2>13 DEF w
<1> QED  BY <1>0, <1>8, <1>9

(* Where Uncommented cuts a line.                                          *)
Cut(l) == Min({Len(l)} \cup {k - 1 : k \in {k \in DOMAIN l : l[k] = Comment}})

LEMMA CutAtComment ==
  ASSUME NEW l \in Seq(Tokens)
  PROVE  FirstComment(l, Cut(l))
<1> DEFINE S == {Len(l)} \cup {k - 1 : k \in {k \in DOMAIN l : l[k] = Comment}}
<1>1. Len(l) \in Nat /\ DOMAIN l = 1..Len(l)
  OBVIOUS
<1>2. S \subseteq Nat /\ Len(l) \in S
  BY <1>1
<1>3. \A k \in 1..Len(l) : l[k] = Comment => k - 1 \in S
  BY <1>1
<1>4. \A m \in S : m = Len(l) \/ (m + 1 \in 1..Len(l) /\ l[m + 1] = Comment)
  BY <1>1
<1>5. Cut(l) = Min(S)
  BY DEF Cut
<1> HIDE DEF S
<1>6. PICK d \in S : \A e \in S : ~(e < d)
  BY <1>2, LeastNat
<1>7. \A e \in S : d <= e
  BY <1>2, <1>6
<1>8. Min(S) \in S /\ \A e \in S : Min(S) <= e
  BY <1>7 DEF Min
<1> DEFINE c == Cut(l)
<1>9. c \in S /\ c \in Nat /\ \A e \in S : c <= e
  BY <1>2, <1>5, <1>8
<1> HIDE DEF c
<1>10. c \in 0..Len(l)
  BY <1>1, <1>2, <1>9
<1>11. \A k \in 1..c : l[k] # Comment
  <2> SUFFICES ASSUME NEW k \in 1..c, l[k] = Comment PROVE FALSE
    OBVIOUS
  <2>1. k \in 1..Len(l)
    BY <1>10
  <2>2. c <= k - 1
    BY <1>3, <1>9, <2>1
  <2> QED  BY <1>9, <2>2
<1>12. c < Len(l) => l[c + 1] = Comment
  <2> SUFFICES ASSUME c < Len(l) PROVE l[c + 1] = Comment
    OBVIOUS
  <2>1. c # Len(l)
    <3>1. \A x, y \in Nat : x < y => x # y
      OBVIOUS
    <3>2. c \in Nat /\ Len(l) \in Nat /\ c < Len(l)
      BY <1>1, <1>9
    <3> QED  BY <3>1, <3>2
  <2> QED  BY <1>4, <1>9, <2>1
<1> QED  BY <1>10, <1>11, <1>12 DEF FirstComment, c

(* The test for slashes only saves work: lines without them are kept.      *)
LEMMA StrippedByLine ==
  ASSUME NEW doc, doc = [i \in DOMAIN doc |-> doc[i]],
         \A i \in DOMAIN doc : doc[i] \in Seq(Characters)
  PROVE  stripJSONC(doc) = [i \in DOMAIN doc |-> stripLineComment(doc[i])]
<1>1. CASE HasSlashes(doc)
  BY <1>1 DEF stripJSONC
<1>2. CASE ~HasSlashes(doc)
  <2>1. ASSUME NEW i \in DOMAIN doc PROVE stripLineComment(doc[i]) = doc[i]
    <3>1. \A j \in DOMAIN doc[i] : ~CommentAt(doc[i], j)
      <4> SUFFICES ASSUME NEW j \in DOMAIN doc[i], CommentAt(doc[i], j) PROVE FALSE
        OBVIOUS
      <4>1. Len(doc[i]) \in Nat /\ DOMAIN doc[i] = 1..Len(doc[i])
        OBVIOUS
      <4>2. j \in 1..(Len(doc[i]) - 1) /\ doc[i][j] = Slash /\ doc[i][j + 1] = Slash
        BY <4>1 DEF CommentAt
      <4> QED  BY <1>2, <4>2 DEF HasSlashes
    <3> QED  BY <3>1 DEF stripLineComment
  <2> QED  BY <1>2, <2>1 DEF stripJSONC
<1> QED  BY <1>1, <1>2

(* A document of any number of lines, each of any number of words, strings *)
(* with slashes or escaped quotes in them and comments, loses its comments *)
(* and nothing else (stripJSONC).                                          *)
THEOREM OnlyCommentsStripped ==
  ASSUME NEW doc \in Seq(Seq(Tokens))
  PROVE  stripJSONC(Written(doc)) = Written(Uncommented(doc))
<1> DEFINE W == Written(doc)
<1>0. \A i \in DOMAIN doc : doc[i] \in Seq(Tokens) /\ doc[i] \in Seq(Seq(Characters))
  BY TokensAreWritten
<1>1. /\ DOMAIN W = DOMAIN doc /\ W = [i \in DOMAIN W |-> W[i]]
      /\ \A i \in DOMAIN doc : W[i] = FlattenSeq(doc[i])
  BY DEF Written
<1>2. \A i \in DOMAIN doc : W[i] \in Seq(Characters)
  <2> SUFFICES ASSUME NEW i \in DOMAIN doc PROVE FlattenSeq(doc[i]) \in Seq(Characters)
    BY <1>1
  <2>1. doc[i] \in Seq(Seq(Characters)) /\ Len(doc[i]) \in Nat
    BY <1>0
  <2>2. Text(doc[i], Len(doc[i])) \in Seq(Characters)
    <3>1. \A k \in 0..Len(doc[i]) : Text(doc[i], k) \in Seq(Characters)
      BY <2>1, TextStep
    <3>2. Len(doc[i]) \in 0..Len(doc[i])
      BY <2>1
    <3> QED  BY <3>1, <3>2
  <2> QED  BY <2>1, <2>2, FlattenIsText
<1> HIDE DEF W
<1>3. stripJSONC(W) = [i \in DOMAIN doc |-> stripLineComment(W[i])]
  BY <1>1, <1>2, StrippedByLine
<1>4. ASSUME NEW i \in DOMAIN doc
      PROVE  stripLineComment(W[i]) = FlattenSeq(SubSeq(doc[i], 1, Cut(doc[i])))
  <2>1. doc[i] \in Seq(Tokens) /\ doc[i] \in Seq(Seq(Characters))
    BY <1>0
  <2>2. FirstComment(doc[i], Cut(doc[i]))
    BY <2>1, CutAtComment
  <2>3. stripLineComment(FlattenSeq(doc[i])) = Text(doc[i], Cut(doc[i]))
    BY <2>1, <2>2, LineStripped
  <2>4. FlattenSeq(SubSeq(doc[i], 1, Cut(doc[i]))) = Text(doc[i], Cut(doc[i]))
    <3>1. Cut(doc[i]) \in 0..Len(doc[i])
      BY <2>2 DEF FirstComment
    <3> QED  BY <2>1, <3>1, TextOfPrefix
  <2> QED  BY <1>1, <2>3, <2>4
<1>5. Uncommented(doc) = [i \in DOMAIN doc |-> SubSeq(doc[i], 1, Cut(doc[i]))]
  BY DEF Uncommented, Cut
<1>6. Written(Uncommented(doc)) = [i \in DOMAIN doc |-> FlattenSeq(SubSeq(doc[i], 1, Cut(doc[i])))]
  BY <1>5 DEF Written
<1> QED  BY <1>3, <1>4, <1>6 DEF W

(* What the parser is given is the document posted without its comments.   *)
THEOREM PostedCommentsStripped == HistorySpec => []CommentsStripped
<1>1. TokenDocuments \subseteq Seq(Seq(Tokens))
  <2>1. TokenLines \subseteq Seq(Tokens)
    <3> SUFFICES ASSUME NEW n \in 0..2, NEW l \in [1..n -> Tokens] PROVE l \in Seq(Tokens)
      BY DEF TokenLines, Tokens
    <3> QED  OBVIOUS
  <2>2. <<Word, Comment>> \in Seq(Tokens) /\ <<Url>> \in Seq(Tokens) /\ <<Comment>> \in Seq(Tokens)
    BY DEF Tokens
  <2>3. \A l \in Seq(Tokens) : <<l>> \in Seq(Seq(Tokens)) /\ <<<<Word, Comment>>, l>> \in Seq(Seq(Tokens))
    BY <2>2
  <2> QED  BY <2>1, <2>2, <2>3 DEF TokenDocuments
<1>2. CommentsStripped
  BY <1>1, OnlyCommentsStripped DEF CommentsStripped
<1> QED  BY <1>2, PTL
=============================================================================
