------------------------------ MODULE OpenCode ------------------------------
(***************************************************************************)
(* The handlers that publish discovery's models: GET /v1/models            *)
(* (src/server/server.go) and GET and POST /opencode/config                *)
(* (src/server/opencode.go), beside the polling goroutine of Discovery.    *)
(*                                                                         *)
(* A handler takes d.mu once for the models and once for their             *)
(* descriptions, and reads the configuration twice for every model: one    *)
(* step each.  The handlers change nothing, so one of them at a time shows *)
(* all there is to see.  The base URL and the layout of the answer are     *)
(* left out.                                                               *)
(***************************************************************************)
EXTENDS Discovery, Integers

CONSTANTS
  MaxInt,        \* the largest value of Go's int
  Metas,         \* the descriptions of a model that backends may give
  Unreadable,    \* a description whose numbers cannot be decoded
  Outputs,       \* values of Global.OpenCodeContextOutput
  Buffers,       \* values of Global.OpenCodeContextBuffer
  Documents,     \* the bodies that are posted: lines of characters
  NoEntry        \* no entry for a model

(* Go's int, and what an addition or subtraction of two gives.             *)
GoInt == (-MaxInt - 1)..MaxInt

Wrap(n) == IF n > MaxInt THEN n - 2 * (MaxInt + 1)
           ELSE IF n < -MaxInt - 1 THEN n + 2 * (MaxInt + 1)
           ELSE n

(* The numbers extractMaxModelLen looks for; 0 stands for a missing one.   *)
Meta == [max_model_len : GoInt, max_context_length : GoInt,
         max_tokens : GoInt, context_length : GoInt]

ASSUME OpenCodeAssumption ==
  /\ MaxInt \in Nat /\ MaxInt > 8192
  /\ Metas \subseteq Meta \cup {Unreadable}
  /\ Outputs \subseteq GoInt
  /\ Buffers \subseteq GoInt
  /\ Outputs # {} /\ Buffers # {}

VARIABLES
  output,     \* Global.OpenCodeContextOutput of the configuration
  buffer,     \* Global.OpenCodeContextBuffer
  handler,    \* where the handler is
  route,      \* the endpoint: "models" or "opencode"
  body,       \* the document posted, until it is parsed
  names,      \* the handler's copy of the keys of Models()
  details,    \* its copy of ModelDetails()
  left,       \* the models whose entry is still to be made
  outLimit,   \* the value of output it read for the next entry
  entries     \* the entries made: a model's limits

handlerVars == <<handler, route, body, names, details, left, outLimit, entries>>

catalogVars == <<output, buffer, handlerVars>>

NoDescriptions == [m \in Models |-> NoDetails]

NoEntries == [m \in Models |-> NoEntry]

CatalogInit ==
  /\ Init
  /\ output \in Outputs
  /\ buffer \in Buffers
  /\ handler = "idle"
  /\ route = "models"
  /\ body = <<>>
  /\ names = {}
  /\ details = NoDescriptions
  /\ left = {}
  /\ outLimit = 0
  /\ entries = NoEntries

-----------------------------------------------------------------------------
(* Comments in posted documents.                                           *)

Quote == "quote"
Backslash == "backslash"
Slash == "slash"

(* Mutant of Scan: a backslash does not escape the quote after it.         *)
ScanUnescaped(line) ==
  LET scan[i \in 0..Len(line)] ==
        IF i = 0 THEN [inString |-> FALSE, escape |-> FALSE]
        ELSE [inString |-> IF line[i] = Quote THEN ~scan[i - 1].inString
                           ELSE scan[i - 1].inString,
              escape |-> FALSE]
  IN scan

(* inString and escape after the first i characters of a line.             *)
Scan(line) ==
  LET scan[i \in 0..Len(line)] ==
        IF i = 0 THEN [inString |-> FALSE, escape |-> FALSE]
        ELSE LET s == scan[i - 1] IN
             IF s.escape THEN [s EXCEPT !.escape = FALSE]
             ELSE IF line[i] = Backslash /\ s.inString THEN [s EXCEPT !.escape = TRUE]
             ELSE IF line[i] = Quote THEN [s EXCEPT !.inString = ~@]
             ELSE s
  IN scan

(* A comment begins at character i.                                        *)
CommentAt(line, i) ==
  /\ i + 1 <= Len(line) /\ line[i] = Slash /\ line[i + 1] = Slash
  /\ ~Scan(line)[i - 1].inString

stripLineComment(line) ==
  IF \E i \in DOMAIN line : CommentAt(line, i)
  THEN SubSeq(line, 1, (CHOOSE i \in DOMAIN line :
                          /\ CommentAt(line, i)
                          /\ \A j \in 1..(i - 1) : ~CommentAt(line, j)) - 1)
  ELSE line

(* strings.Contains(content, "//") comes first: most documents have none.  *)
HasSlashes(doc) ==
  \E i \in DOMAIN doc : \E j \in 1..(Len(doc[i]) - 1) :
    doc[i][j] = Slash /\ doc[i][j + 1] = Slash

stripJSONC(doc) ==
  IF HasSlashes(doc) THEN [i \in DOMAIN doc |-> stripLineComment(doc[i])] ELSE doc

IsBlank(doc) == \A i \in DOMAIN doc : doc[i] = <<>>

-----------------------------------------------------------------------------
(* The numbers.                                                            *)

defaultGenerationLimit == 3000
defaultMaxModelLen == 8192
defaultOutput == 8192
defaultBuffer == 1024

extractMaxModelLen(raw) ==
  IF raw = Unreadable THEN defaultMaxModelLen
  ELSE IF raw.max_model_len > 0 THEN raw.max_model_len
  ELSE IF raw.max_context_length > 0 THEN raw.max_context_length
  ELSE IF raw.max_tokens > 0 THEN Wrap(raw.max_tokens + defaultGenerationLimit)
  ELSE IF raw.context_length > 0 THEN raw.context_length
  ELSE defaultMaxModelLen

(* The context of m by the description the handler has, if it has one: any *)
(* that a backend may give.                                                *)
Contexts(m) ==
  IF details[m] = NoDetails THEN {defaultMaxModelLen}
  ELSE {extractMaxModelLen(raw) : raw \in Metas}

Positive(n, default) == IF n <= 0 THEN default ELSE n

(* Mutant of Limits: an output below zero is not corrected.                *)
LimitsUnclamped(context, out, buf) ==
  LET o == Positive(out, defaultOutput)
      b == Positive(buf, defaultBuffer)
      rest == Wrap(Wrap(context - o) - b) IN
  [context |-> context,
   input |-> IF rest < 0 THEN 0 ELSE rest,
   output |-> IF rest < 0 THEN Wrap(context - b) ELSE o]

(* inLimit and outLimit: what the buffer leaves of the context (room) goes *)
(* to the output first; below zero both are 0.                             *)
Limits(context, out, buf) ==
  LET o == Positive(out, defaultOutput)
      b == Positive(buf, defaultBuffer)
      rest == Wrap(Wrap(context - o) - b)
      room == Wrap(context - b)
      inLimit == IF rest < 0 THEN 0 ELSE rest
      outLim == IF rest < 0 THEN room ELSE o IN
  [context |-> context,
   input |-> IF outLim >= 0 THEN inLimit ELSE IF room < 0 THEN 0 ELSE room,
   output |-> IF outLim < 0 THEN 0 ELSE outLim]

-----------------------------------------------------------------------------
(* The handlers.                                                           *)

(* GET /v1/models or GET /opencode/config.                                 *)
Get(ep) ==
  /\ handler = "idle"
  /\ handler' = "models"
  /\ route' = ep
  /\ UNCHANGED <<body, names, details, left, outLimit, entries>>

(* POST /opencode/config: the body is read.                                *)
Post(doc) ==
  /\ handler = "idle"
  /\ handler' = "parse"
  /\ route' = "opencode"
  /\ body' = doc
  /\ UNCHANGED <<names, details, left, outLimit, entries>>

(* The body without its comments is parsed; if nothing is left of it, {}   *)
(* is.  The answer is 400 if it is no JSON object.  What was parsed is not *)
(* used.                                                                   *)
Parse ==
  /\ handler = "parse"
  /\ \/ handler' = "models" /\ UNCHANGED route
     \/ ~IsBlank(stripJSONC(body)) /\ handler' = "idle" /\ route' = "models"
  /\ body' = <<>>
  /\ UNCHANGED <<names, details, left, outLimit, entries>>

(* models := s.disc.Models()                                               *)
ReadModels ==
  /\ handler = "models"
  /\ names' = {m \in Models : models[m] # <<>>}
  /\ handler' = "details"
  /\ UNCHANGED <<route, body, details, left, outLimit, entries>>

(* details := s.disc.ModelDetails()                                        *)
ReadDetails ==
  /\ handler = "details"
  /\ details' = modelDetails
  /\ left' = IF route = "opencode" THEN names ELSE {}
  /\ handler' = "entries"
  /\ UNCHANGED <<route, body, names, outLimit, entries>>

(* outLimit := s.cfg.Get().Global.OpenCodeContextOutput                    *)
ReadOutput ==
  /\ handler = "entries"
  /\ left # {}
  /\ outLimit' = output
  /\ handler' = "limit"
  /\ UNCHANGED <<route, body, names, details, left, entries>>

(* buffer := s.cfg.Get().Global.OpenCodeContextBuffer, another Get; the    *)
(* entry is made.                                                          *)
MakeEntry(m) ==
  /\ handler = "limit"
  /\ m \in left
  /\ \E context \in Contexts(m) :
       entries' = [entries EXCEPT ![m] = Limits(context, outLimit, buffer)]
  /\ left' = left \ {m}
  /\ outLimit' = 0
  /\ handler' = "entries"
  /\ UNCHANGED <<route, body, names, details>>

(* The answer is written and the handler returns.                          *)
Reply ==
  /\ handler = "entries"
  /\ left = {}
  /\ handler' = "idle"
  /\ route' = "models"
  /\ names' = {}
  /\ details' = NoDescriptions
  /\ entries' = NoEntries
  /\ UNCHANGED <<body, left, outLimit>>

(* The configuration is put with other limits.                             *)
SetLimits ==
  /\ output' \in Outputs
  /\ buffer' \in Buffers
  /\ UNCHANGED <<vars, handlerVars>>

HandlerStep ==
  \/ Get("models") \/ Get("opencode")
  \/ (\E doc \in Documents : Post(doc)) \/ Parse
  \/ ReadModels \/ ReadDetails \/ ReadOutput
  \/ (\E m \in Models : MakeEntry(m)) \/ Reply

CatalogNext ==
  \/ Next /\ UNCHANGED catalogVars
  \/ HandlerStep /\ UNCHANGED <<vars, output, buffer>>
  \/ SetLimits

CatalogSpec == CatalogInit /\ [][CatalogNext]_<<vars, catalogVars>>

-----------------------------------------------------------------------------
(* Properties.                                                             *)

(* ctx - outLimit - buffer does not leave the range of int.                *)
InRange(context, out, buf) ==
  context - Positive(out, defaultOutput) - Positive(buf, defaultBuffer) \in GoInt

(* The input and the output of an entry are no negative numbers and leave  *)
(* some of the context in reserve.                                         *)
Fits(e) == e.input >= 0 /\ e.output >= 0 /\ e.input + e.output < e.context

(* The context is the sum max_tokens + 3000, which was too large for int.  *)
Overflown(context) ==
  \E raw \in Metas \ {Unreadable} :
    /\ raw.max_tokens > MaxInt - defaultGenerationLimit
    /\ context = extractMaxModelLen(raw)

(* However the two settings change between the two reads, an entry fits    *)
(* into its context, for every description and all settings for which the  *)
(* arithmetic stays within int.  A max_tokens within 3000 of the largest   *)
(* int gives a negative context, the only way to one that is not positive, *)
(* and settings that add up to more than int holds give an input beyond    *)
(* the context: nothing in the code prevents either (Set only asks for     *)
(* settings that are not negative).                                        *)
EntriesFit ==
  [][\A m \in Models : entries'[m] # entries[m] /\ entries'[m] # NoEntry =>
       LET context == entries'[m].context IN
       /\ context > 0 \/ Overflown(context)
       /\ context > 0 /\ InRange(context, outLimit, buffer) => Fits(entries'[m])
    ]_<<vars, catalogVars>>
=============================================================================
