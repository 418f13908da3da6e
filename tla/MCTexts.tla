------------------------------ MODULE MCTexts -------------------------------
(***************************************************************************)
(* What onus does to texts, one thing at a time: a document is held to its *)
(* sentences, two runs' outputs are scrubbed, or a text's paths are.  The  *)
(* variables of the others stay as they start.                             *)
(***************************************************************************)
EXTENDS Scrub, Quotes, Paths

VARIABLE atWork

textVars  == <<atWork, quoteVars, scrubVars, pathVars>>

-----------------------------------------------------------------------------
(* One letter and a space, sentences of one word and of two. *)
Lists == {<<>>, <<<<" ">>>>, <<<<"a">>>>, <<<<"a", " ", "a">>, <<" ", "a", " ", " ", "a">>>>,
          <<<<"a", "mention">>>>, <<<<"a">>, <<"a", "a">>>>}

-----------------------------------------------------------------------------
P(kind, value, loud) == [kind |-> kind, value |-> value, loud |-> loud]

(* Two values of each kind that differ in what a scrubber keys on. *)
SmallPieces ==
  {P("date", <<"d1">>, FALSE), P("date", <<"d2">>, FALSE), P("nodate", <<"d3">>, FALSE),
   P("stamp", <<"d1", "t">>, FALSE), P("stamp", <<"d2", "t">>, FALSE),
   P("hex", <<"a">>, FALSE), P("hex", <<"a">>, TRUE), P("hex", <<"b">>, FALSE),
   P("uuid", <<"a", "r">>, FALSE), P("uuid", <<"b", "r">>, TRUE),
   P("count", <<"1">>, FALSE), P("count", <<"2">>, FALSE),
   P("run", <<"x">>, FALSE), P("run", <<"x">>, TRUE), P("job", <<"x">>, FALSE)}

(* Two patterns under one name, for two kinds of value. *)
SmallPatterns ==
  {[token |-> "run", matches |-> {"run"}, folds |-> FALSE],
   [token |-> "run", matches |-> {"job"}, folds |-> FALSE]}

-----------------------------------------------------------------------------
Var     == <<"/", "var">>
VarApp  == <<"/", "var", "/", "app">>
Private == <<"/", "private">> \o VarApp
App     == <<"/", "app">>

(* Nested folders, two spellings, a trailing slash, and mappings paths      *)
(* refuses.                                                                 *)
SmallMappings ==
  {{<<Var, "<tmp>">>, <<VarApp, "<app>">>}, {<<Private, "<app>">>},
   {<<App \o <<"/">>, "<app>">>, <<Var, "<app>">>},
   {<<Private, "<app>">>, <<VarApp, "<tmp>">>}, {}, {<<<<"/">>, "<app>">>}, {<<<<"app">>, "<app>">>}}

-----------------------------------------------------------------------------
QuotesIdle == sentences = <<>> /\ doc = <<>>
ScrubIdle  == /\ chain = ChainOf(<<One(Uuids)>>)
              /\ left = <<>> /\ right = <<>>
PathsIdle  == mapping = {<<Var, "<tmp>">>} /\ text = <<>>

Init ==
  \/ atWork = "quotes" /\ QuoteInit /\ ScrubIdle /\ PathsIdle
  \/ atWork = "scrub"  /\ QuotesIdle /\ ScrubInit /\ PathsIdle
  \/ atWork = "paths"  /\ QuotesIdle /\ ScrubIdle /\ PathInit

Next ==
  \/ atWork = "quotes" /\ QuoteNext /\ UNCHANGED <<atWork, scrubVars, pathVars>>
  \/ atWork = "scrub"  /\ ScrubNext /\ UNCHANGED <<atWork, quoteVars, pathVars>>
  \/ atWork = "paths"  /\ PathNext /\ UNCHANGED <<atWork, quoteVars, scrubVars>>

Spec == Init /\ [][Next]_textVars
=============================================================================
