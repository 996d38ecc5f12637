----------------------------- MODULE MCOpenCode -----------------------------
(***************************************************************************)
(* A small instance of OpenCode for TLC, with documents written in tokens  *)
(* and two history variables.                                              *)
(***************************************************************************)
EXTENDS OpenCode, SequencesExt

CONSTANTS s1, m1, m2

ModelSymmetry == Permutations(Models)

OneList == {<<s1>>}

NoNumbers == [max_model_len |-> 0, max_context_length |-> 0,
              max_tokens |-> 0, context_length |-> 0]

(* A context that the buffer alone fills, a large one, and one too large.  *)
SmallToTooLarge == {[NoNumbers EXCEPT !.max_model_len = 900],
                    [NoNumbers EXCEPT !.max_tokens = 30000],
                    [NoNumbers EXCEPT !.max_tokens = MaxInt]}

(* What a line of a configuration is made of: "x", "//", "\"//", "\\" and  *)
(* a comment with a quote in it.                                           *)
Word == <<"other">>
Url == <<Quote, Slash, Slash, Quote>>
Escaped == <<Quote, Backslash, Quote, Slash, Slash, Quote>>
Closed == <<Quote, Backslash, Backslash, Quote>>
Comment == <<Slash, Slash, Quote>>

TokenLines == UNION {[1..n -> {Word, Url, Escaped, Closed, Comment}] : n \in 0..2}

(* A line alone, or two of them.                                           *)
TokenDocuments ==
  {<<l>> : l \in TokenLines} \cup {<<<<Word, Comment>>, l>> : l \in {<<Url>>, <<Comment>>}}

(* The characters of a document.                                           *)
Written(doc) == [i \in DOMAIN doc |-> FlattenSeq(doc[i])]

WrittenDocuments == {Written(doc) : doc \in TokenDocuments}

(* A document without its comments, token by token.                        *)
Uncommented(doc) ==
  [i \in DOMAIN doc |->
     SubSeq(doc[i], 1, Min({Len(doc[i])} \cup
                           {k - 1 : k \in {k \in DOMAIN doc[i] : doc[i][k] = Comment}}))]

(* Whatever strings a document has, escaped quotes and slashes in them     *)
(* included, its comments are removed and nothing else is (stripJSONC).    *)
CommentsStripped ==
  \A doc \in TokenDocuments :
    handler = "parse" /\ body = Written(doc) =>
      stripJSONC(body) = Written(Uncommented(doc))

-----------------------------------------------------------------------------
VARIABLE gone   \* the models that lost their last server since names was read

HistoryInit == CatalogInit /\ gone = {}

HistoryNext ==
  /\ CatalogNext
  /\ gone' = IF handler' = "idle" THEN {}
             ELSE gone \cup {m \in names : models'[m] = <<>>}

HistorySpec == HistoryInit /\ [][HistoryNext]_<<vars, catalogVars, gone>>

(* Although the models and their descriptions are read at two moments, a   *)
(* model is published without its description, and with a made-up context, *)
(* only if its last server dropped it in between: discovery stores the     *)
(* description before it lists the model and the handlers read the other   *)
(* way round.                                                              *)
DescribedUnlessDropped ==
  handler = "entries" => \A m \in names : details[m] # NoDetails \/ m \in gone
=============================================================================
