----------------------------- MODULE MCBaseline -----------------------------
(***************************************************************************)
(* Two suites over a folder for two calls.  The source changes what a call *)
(* produces, how it is called and its ext, drops a call whose producer is  *)
(* no longer real, gives two calls one stem, or makes a forbidden text.    *)
(***************************************************************************)
EXTENDS Baseline, TLC

Symmetric == Permutations(Suites)

Rec(producer, call) == [producer |-> producer, call |-> call]

Site(stem, ext, text, record) ==
  [stem |-> stem, ext |-> ext, text |-> text, record |-> record, forbid |-> {"token"}]

From(suite, unreal) == [suite |-> suite, unreal |-> unreal]

OfT == Site("t", ".md", "old", Rec("q", 1))

SmallSources ==
  {From(<<Site("s", ".md", "old", Rec("p", 1)), OfT>>, {}),
   From(<<Site("s", ".json", "new", Rec("p", 2))>>, {"q"}),
   From(<<Site("s", ".md", "old", Rec("p", 1)), Site("s", ".md", "new", Rec("p", 2))>>, {}),
   From(<<Site("s", ".md", "token", Rec("p", 1)), OfT>>, {})}

SmallTexts == {"old", "new", "token"}

SmallRecords == {Rec("p", 1), Rec("p", 2), Rec("q", 1)}
=============================================================================
