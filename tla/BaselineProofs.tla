--------------------------- MODULE BaselineProofs ---------------------------
(***************************************************************************)
(* Proofs about Baseline, for every number of suites, sources, files,      *)
(* kills and edits: an undisturbed comparison is right about the folder,   *)
(* an undisturbed recording repairs it, and suites of one source leave a   *)
(* right folder alone.  And about Scrub, whose texts a baseline holds, for *)
(* every set of pieces and patterns, every chain and every length: two     *)
(* outputs scrub to one text exactly if they differ in run-to-run values.  *)
(***************************************************************************)
EXTENDS Baseline, Scrub, Extremes

Comparing == {"look", "readout", "readmeta"}
Recording == {"out", "fillout", "meta", "fillmeta"}
InCall    == Comparing \cup Recording

Runs ==
  [pc : {"idle", "call", "ended"} \cup InCall, mode : Modes, source : Sources \cup {Nothing},
   todo : Seq(Calls), held : SUBSET Stems, failed : BOOLEAN, calm : BOOLEAN]

Types ==
  /\ approved \in [Stems -> [Exts -> Texts \cup {Nothing, Cut}]]
  /\ meta \in [Stems -> Records \cup {Nothing, Cut}]
  /\ run \in [Suites -> Runs]

(* The calls a run has left behind, and the stems of the first k calls.     *)
Past(r)       == Len(r.source.suite) - Len(r.todo)
StemsTo(r, k) == {r.source.suite[i].stem : i \in 1 .. k}

(* A run is somewhere in the suite of its source. *)
Placed(r) ==
  r.pc # "idle" =>
    /\ r.source \in Sources /\ Past(r) \in 0 .. Len(r.source.suite)
    /\ \A j \in 1 .. Len(r.todo) : r.todo[j] = r.source.suite[Past(r) + j]
    /\ r.pc = "ended" => r.todo = <<>>
    /\ r.pc \in InCall => r.todo # <<>>
    /\ r.pc \in Comparing => r.mode = "compare"
    /\ r.pc \in Recording => r.mode = "record"

(* The stems it holds are those of its calls, all of them unless it failed. *)
Holding(r) ==
  /\ r.pc = "call" =>
       /\ r.held \subseteq StemsTo(r, Past(r))
       /\ ~r.failed => StemsTo(r, Past(r)) \subseteq r.held
  /\ r.pc \in InCall =>
       LET call == r.source.suite[Past(r) + 1]
       IN  /\ r.held \subseteq StemsTo(r, Past(r) + 1)
           /\ call.record.producer \notin r.source.unreal /\ call.text \notin call.forbid
           /\ ~r.failed => /\ StemsTo(r, Past(r) + 1) \subseteq r.held
                           /\ call.stem \notin StemsTo(r, Past(r))

(* The i-th call of a run is proper so far, and finds what it wants in the  *)
(* texts a and the records m.                                               *)
Good(r, i, a, m) ==
  LET call == r.source.suite[i]
  IN  /\ call.record.producer \notin r.source.unreal /\ call.text \notin call.forbid
      /\ call.stem \notin StemsTo(r, i - 1)
      /\ a[call.stem][call.ext] = call.text /\ m[call.stem] = call.record

(* FolderIsWhole, of the texts a and the records m. *)
Whole(unreal, a, m) ==
  /\ \E stem \in Stems : m[stem] # Nothing
  /\ \A stem \in Stems :
       /\ Cardinality({ext \in Exts : a[stem][ext] # Nothing}) = IF m[stem] = Nothing THEN 0 ELSE 1
       /\ m[stem] # Nothing => m[stem] # Cut /\ m[stem].producer \notin unreal

Right(r, a, m) ==
  (\A i \in 1 .. Len(r.source.suite) : Good(r, i, a, m)) /\ Whole(r.source.unreal, a, m)

(* What a run that nothing disturbed knows of the folder. *)
Knows(r, a, m) ==
  r.calm =>
    /\ r.pc \in InCall \cup {"call"} =>
         /\ r.mode # "elsewhere" /\ ~r.failed => \A i \in 1 .. Past(r) : Good(r, i, a, m)
         /\ r.mode = "compare" /\ r.failed => \E i \in 1 .. Past(r) : ~Good(r, i, a, m)
    /\ r.pc \in {"readmeta", "meta", "fillmeta"} =>
         LET call == r.source.suite[Past(r) + 1]
         IN  a[call.stem][call.ext] = call.text
    /\ r.pc = "ended" =>
         /\ r.mode # "elsewhere" /\ ~r.failed => Right(r, a, m)
         /\ r.mode = "compare" /\ r.failed => ~Right(r, a, m)

Sound(r, a, m) == r \in Runs /\ Placed(r) /\ Holding(r) /\ Knows(r, a, m)

Inv == Types /\ \A s \in Suites : Sound(run[s], approved, meta)

-----------------------------------------------------------------------------
(* Runs as values *)

(* The call a run is at. *)
LEMMA Current ==
  ASSUME NEW r \in Runs, Placed(r), r.pc # "idle", r.todo # <<>>
  PROVE  /\ r.source \in Sources /\ r.source.suite \in Seq(Calls)
         /\ Past(r) \in Nat /\ Past(r) + 1 \in 1 .. Len(r.source.suite)
         /\ Head(r.todo) = r.source.suite[Past(r) + 1] /\ Head(r.todo) \in Calls
<1>1. r.source \in Sources /\ r.source.suite \in Seq(Calls) /\ r.todo \in Seq(Calls)
  BY SourcesAssumption DEF Placed, Runs
<1>2. Len(r.todo) \in Nat /\ Len(r.todo) # 0 /\ Len(r.source.suite) \in Nat
  BY <1>1
<1>3. Past(r) \in Nat /\ Past(r) + 1 \in 1 .. Len(r.source.suite)
  <2>1. Past(r) \in 0 .. Len(r.source.suite)
    BY DEF Placed
  <2>2. \A all, some \in Nat : some # 0 /\ all - some \in 0 .. all =>
          all - some \in Nat /\ (all - some) + 1 \in 1 .. all
    OBVIOUS
  <2> QED
    BY <1>2, <2>1, <2>2, Zenon DEF Past
<1>4. r.todo[1] = r.source.suite[Past(r) + 1]
  BY <1>2 DEF Placed
<1>5. Head(r.todo) = r.todo[1] /\ Head(r.todo) \in Calls
  BY <1>1
<1> QED
  BY <1>1, <1>3, <1>4, <1>5

(* A run that leaves its call behind is at the next. *)
LEMMA Leaves ==
  ASSUME NEW r \in Runs, Placed(r), r.pc # "idle", r.todo # <<>>, NEW next \in Runs,
         next.pc = "call", next.source = r.source, next.todo = Tail(r.todo)
  PROVE  Placed(next) /\ Past(next) = Past(r) + 1
<1>1. r.todo \in Seq(Calls) /\ Len(r.todo) \in Nat /\ Len(r.todo) # 0
  BY DEF Runs
<1>2. /\ Len(Tail(r.todo)) = Len(r.todo) - 1
      /\ \A j \in 1 .. Len(r.todo) - 1 : Tail(r.todo)[j] = r.todo[j + 1]
  BY <1>1
<1>3. r.source.suite \in Seq(Calls) /\ Len(r.source.suite) \in Nat
  BY Current
<1>4. Past(next) = Past(r) + 1 /\ Past(r) \in Nat /\ Past(r) + 1 \in 1 .. Len(r.source.suite)
  <2>1. Past(r) \in Nat /\ Past(r) + 1 \in 1 .. Len(r.source.suite)
    BY Current
  <2>2. \A all, some \in Nat : all - (some - 1) = (all - some) + 1
    OBVIOUS
  <2>3. Past(next) = Len(r.source.suite) - (Len(r.todo) - 1)
    BY <1>2 DEF Past
  <2> QED
    BY <1>1, <1>3, <2>1, <2>2, <2>3, Zenon DEF Past
<1>5. ASSUME NEW j \in 1 .. Len(next.todo) PROVE next.todo[j] = r.source.suite[Past(next) + j]
  <2>1. j + 1 \in 1 .. Len(r.todo) /\ next.todo[j] = r.todo[j + 1]
    BY <1>1, <1>2, <1>5
  <2>2. r.todo[j + 1] = r.source.suite[Past(r) + (j + 1)]
    BY <2>1 DEF Placed
  <2>3. Past(r) + (j + 1) = Past(next) + j
    BY <1>4, <1>1, <1>2
  <2> QED
    BY <2>1, <2>2, <2>3
<1> QED
  BY <1>4, <1>5, Current DEF Placed, InCall, Comparing, Recording

(* The same calls are good for a run that went on. *)
LEMMA GoodAlike ==
  ASSUME NEW r, NEW q, r.source = q.source, NEW i, NEW a, NEW m
  PROVE  Good(r, i, a, m) <=> Good(q, i, a, m)
BY DEF Good, StemsTo

LEMMA StemsNext ==
  ASSUME NEW r, NEW k \in Nat
  PROVE  StemsTo(r, k + 1) = StemsTo(r, k) \cup {r.source.suite[k + 1].stem}
BY DEF StemsTo

(* A run that is disturbed knows nothing, and is where it was. *)
LEMMA Disturbed ==
  ASSUME NEW r, NEW a, NEW m, NEW b, NEW n, Sound(r, a, m)
  PROVE  Sound([r EXCEPT !.calm = FALSE], b, n)
<1> DEFINE next == [r EXCEPT !.calm = FALSE]
<1>1. /\ next \in Runs /\ ~next.calm /\ next.pc = r.pc /\ next.mode = r.mode /\ next.source = r.source
      /\ next.todo = r.todo /\ next.held = r.held /\ next.failed = r.failed
  BY DEF Sound, Runs
<1> HIDE DEF next
<1>2. Past(next) = Past(r) /\ \A k : StemsTo(next, k) = StemsTo(r, k)
  BY <1>1 DEF Past, StemsTo
<1>4. Placed(next)
  BY <1>1, <1>2 DEF Sound, Placed
<1>5. Holding(next)
  BY <1>1, <1>2 DEF Sound, Holding
<1>3. Knows(next, b, n)
  BY <1>1 DEF Knows
<1> QED
  BY <1>1, <1>3, <1>4, <1>5 DEF Sound, next

(* A run that leaves its call behind knows what it knew, and of that call. *)
LEMMA LeavesSound ==
  ASSUME NEW r \in Runs, Placed(r), r.pc # "idle", r.todo # <<>>, NEW next \in Runs,
         next.pc = "call", next.source = r.source, next.todo = Tail(r.todo), next.mode = r.mode,
         next.calm = r.calm, NEW b, NEW n,
         next.held \subseteq StemsTo(r, Past(r) + 1),
         ~next.failed => StemsTo(r, Past(r) + 1) \subseteq next.held,
         r.calm /\ r.mode # "elsewhere" /\ ~next.failed => \A i \in 1 .. Past(r) + 1 : Good(r, i, b, n),
         r.calm /\ r.mode = "compare" /\ next.failed => \E i \in 1 .. Past(r) + 1 : ~Good(r, i, b, n)
  PROVE  Sound(next, b, n)
<1>1. Placed(next) /\ Past(next) = Past(r) + 1
  BY Leaves
<1>2. Holding(next)
  BY <1>1 DEF Holding, StemsTo, InCall, Comparing, Recording
<1>3. \A i : Good(next, i, b, n) <=> Good(r, i, b, n)
  BY GoodAlike
<1>4. Knows(next, b, n)
  BY <1>1, <1>3 DEF Knows
<1> QED
  BY <1>1, <1>2, <1>4 DEF Sound

(* A run goes on within its call. *)
LEMMA EntersSound ==
  ASSUME NEW r \in Runs, Placed(r), r.pc # "idle", r.todo # <<>>, NEW next \in Runs,
         next.pc \in InCall, next.source = r.source, next.todo = r.todo, next.mode = r.mode,
         next.failed = r.failed, next.calm = r.calm, NEW b, NEW n,
         r.mode = IF next.pc \in Comparing THEN "compare" ELSE "record",
         next.held \subseteq StemsTo(r, Past(r) + 1),
         ~r.failed => StemsTo(r, Past(r) + 1) \subseteq next.held,
         LET call == r.source.suite[Past(r) + 1]
         IN  /\ call.record.producer \notin r.source.unreal /\ call.text \notin call.forbid
             /\ ~r.failed => call.stem \notin StemsTo(r, Past(r))
             /\ r.calm /\ next.pc \in {"readmeta", "meta", "fillmeta"} =>
                  b[call.stem][call.ext] = call.text,
         r.calm /\ ~r.failed => \A i \in 1 .. Past(r) : Good(r, i, b, n),
         r.calm /\ r.mode = "compare" /\ r.failed => \E i \in 1 .. Past(r) : ~Good(r, i, b, n)
  PROVE  Sound(next, b, n)
<1>1. Past(next) = Past(r) /\ \A k : StemsTo(next, k) = StemsTo(r, k)
  BY DEF Past, StemsTo
<1>2. next.pc \notin {"idle", "call", "ended"} /\ (next.pc \in Comparing <=> next.pc \notin Recording)
  BY DEF InCall, Comparing, Recording
<1>3. Placed(next)
  BY <1>1, <1>2 DEF Placed
<1>4. Holding(next)
  BY <1>1, <1>2 DEF Holding
<1>5. \A i : Good(next, i, b, n) <=> Good(r, i, b, n)
  BY GoodAlike
<1>6. Knows(next, b, n)
  BY <1>1, <1>2, <1>5 DEF Knows
<1> QED
  BY <1>3, <1>4, <1>6 DEF Sound

-----------------------------------------------------------------------------
(* A step of one suite that writes nothing. *)
LEMMA GoesKeeps ==
  ASSUME Inv, NEW s \in Suites, NEW state, Goes(s, state), UNCHANGED <<approved, meta>>,
         Sound(state, approved, meta)
  PROVE  Inv'
<1>1. run' \in [Suites -> Runs]
  BY DEF Inv, Types, Goes, Sound
<1>2. \A q \in Suites : run'[q] = run[q] \/ run'[q] = state
  BY DEF Inv, Types, Goes
<1> QED
  BY <1>1, <1>2 DEF Inv, Types

(* A step of one suite that writes disturbs the others. *)
LEMMA DisturbsKeeps ==
  ASSUME Inv, NEW s \in Suites, NEW state, Disturbs(s, state),
         approved' \in [Stems -> [Exts -> Texts \cup {Nothing, Cut}]],
         meta' \in [Stems -> Records \cup {Nothing, Cut}],
         Sound(state, approved', meta')
  PROVE  Inv'
<1>1. ASSUME NEW q \in Suites PROVE run'[q] \in Runs /\ Sound(run'[q], approved', meta')
  <2>1. CASE q = s
    BY <2>1 DEF Disturbs, Sound
  <2>2. CASE q # s
    <3>1. run'[q] = [run[q] EXCEPT !.calm = FALSE]
      BY <2>2 DEF Disturbs
    <3>2. Sound(run[q], approved, meta)
      BY DEF Inv
    <3>3. Sound([run[q] EXCEPT !.calm = FALSE], approved', meta')
      BY <3>2, Disturbed
    <3> QED
      BY <3>1, <3>3 DEF Sound
  <2> QED
    BY <2>1, <2>2
<1>2. run' \in [Suites -> Runs]
  BY <1>1 DEF Disturbs
<1> QED
  BY <1>1, <1>2 DEF Inv, Types

(* A run, between calls or in one, whose suite is not done. *)
LEMMA AtCall ==
  ASSUME Inv, NEW s \in Suites, run[s].pc \in {"call"} \cup InCall, run[s].pc = "call" => run[s].todo # <<>>
  PROVE  LET r == run[s]
         IN  /\ r \in Runs /\ Placed(r) /\ Holding(r) /\ Knows(r, approved, meta)
             /\ r.pc # "idle" /\ r.todo # <<>> /\ Call(s) = r.source.suite[Past(r) + 1]
             /\ Call(s) \in Calls /\ Past(r) \in Nat
             /\ StemsTo(r, Past(r) + 1) = StemsTo(r, Past(r)) \cup {Call(s).stem}
             /\ \A i : i \in 1 .. Past(r) + 1 <=> i \in 1 .. Past(r) \/ i = Past(r) + 1
<1> DEFINE r == run[s]
<1>1. r \in Runs /\ Placed(r) /\ Holding(r) /\ Knows(r, approved, meta)
  BY DEF Inv, Sound
<1>2. r.pc # "idle" /\ r.todo # <<>>
  BY <1>1 DEF Placed, InCall, Comparing, Recording
<1>3. /\ Past(r) \in Nat /\ Call(s) = r.source.suite[Past(r) + 1] /\ Call(s) \in Calls
  BY <1>1, <1>2, Current DEF Call
<1> HIDE DEF r
<1>4. \A i : i \in 1 .. Past(r) + 1 <=> i \in 1 .. Past(r) \/ i = Past(r) + 1
  BY <1>3
<1> QED
  BY <1>1, <1>2, <1>3, <1>4, StemsNext DEF r

(* The call a run is at is good if it is proper and finds what it wants. *)
LEMMA GoodHere ==
  ASSUME NEW r, Past(r) \in Nat, NEW a, NEW m
  PROVE  LET call == r.source.suite[Past(r) + 1]
         IN  Good(r, Past(r) + 1, a, m) <=>
               /\ call.record.producer \notin r.source.unreal /\ call.text \notin call.forbid
               /\ call.stem \notin StemsTo(r, Past(r))
               /\ a[call.stem][call.ext] = call.text /\ m[call.stem] = call.record
<1>1. (Past(r) + 1) - 1 = Past(r)
  OBVIOUS
<1> QED
  BY <1>1 DEF Good

LEMMA StartKeeps == ASSUME Inv, NEW s \in Suites, Start(s) PROVE Inv'
<1>1. PICK mode \in Modes, source \in Sources :
        Goes(s, [Idle EXCEPT !.pc = "call", !.mode = mode, !.source = source, !.todo = source.suite])
  BY DEF Start
<1> DEFINE state == [Idle EXCEPT !.pc = "call", !.mode = mode, !.source = source, !.todo = source.suite]
<1>2. source.suite \in Seq(Calls) /\ Len(source.suite) \in Nat
  BY SourcesAssumption
<1>3. /\ state \in Runs /\ state.pc = "call" /\ state.source = source /\ state.todo = source.suite
      /\ state.held = {} /\ ~state.failed
  BY <1>2 DEF Idle, Runs
<1> HIDE DEF state
<1>4. Past(state) = 0 /\ StemsTo(state, 0) = {} /\ 1 .. 0 = {}
  BY <1>2, <1>3 DEF Past, StemsTo
<1>5. Placed(state)
  BY <1>2, <1>3, <1>4 DEF Placed, InCall, Comparing, Recording
<1>6. Holding(state) /\ Knows(state, approved, meta)
  BY <1>3, <1>4 DEF Holding, Knows, InCall, Comparing, Recording
<1>7. Sound(state, approved, meta)
  BY <1>3, <1>5, <1>6 DEF Sound
<1> QED
  BY <1>1, <1>7, GoesKeeps DEF Start, state

(* A call that fails: in a comparison it was not good. *)
LEMMA FailKeeps ==
  ASSUME Inv, NEW s \in Suites, run[s].pc \in {"call"} \cup InCall, run[s].todo # <<>>,
         NEW held \in SUBSET Stems, held \subseteq StemsTo(run[s], Past(run[s]) + 1),
         Goes(s, [Failed(s) EXCEPT !.held = held]), UNCHANGED <<approved, meta>>,
         run[s].calm /\ run[s].mode = "compare" => ~Good(run[s], Past(run[s]) + 1, approved, meta)
  PROVE  Inv'
<1> DEFINE r == run[s]
           next == [Failed(s) EXCEPT !.held = held]
<1>1. /\ r \in Runs /\ Placed(r) /\ r.pc # "idle" /\ Past(r) \in Nat
      /\ Past(r) + 1 \in 1 .. Past(r) + 1
  BY AtCall
<1>2. Tail(r.todo) \in Seq(Calls)
  BY <1>1 DEF Runs
<1>3. /\ next \in Runs /\ next.pc = "call" /\ next.source = r.source /\ next.todo = Tail(r.todo)
      /\ next.mode = r.mode /\ next.calm = r.calm /\ next.held = held /\ next.failed
  BY <1>1, <1>2 DEF Failed, Runs
<1> HIDE DEF next
<1>4. Sound(next, approved, meta)
  BY <1>1, <1>3, LeavesSound
<1> QED
  BY <1>4, GoesKeeps DEF next

(* A call that passes undisturbed was good. *)
LEMMA PassKeeps ==
  ASSUME Inv, NEW s \in Suites, run[s].pc \in InCall, Goes(s, Passed(s)), UNCHANGED <<approved, meta>>,
         run[s].calm => /\ approved[Call(s).stem][Call(s).ext] = Call(s).text
                        /\ meta[Call(s).stem] = Call(s).record
  PROVE  Inv'
<1> DEFINE r == run[s]
           next == Passed(s)
<1>1. /\ r \in Runs /\ Placed(r) /\ Holding(r) /\ Knows(r, approved, meta)
      /\ r.pc # "idle" /\ r.todo # <<>> /\ Call(s) = r.source.suite[Past(r) + 1] /\ Past(r) \in Nat
      /\ \A i : i \in 1 .. Past(r) + 1 <=> i \in 1 .. Past(r) \/ i = Past(r) + 1
      /\ r.pc # "call"
  BY AtCall DEF InCall, Comparing, Recording
<1>2. Tail(r.todo) \in Seq(Calls)
  BY <1>1 DEF Runs
<1>3. /\ next \in Runs /\ next.pc = "call" /\ next.source = r.source /\ next.todo = Tail(r.todo)
      /\ next.mode = r.mode /\ next.calm = r.calm /\ next.held = r.held /\ next.failed = r.failed
  BY <1>1, <1>2 DEF Passed, Runs
<1> HIDE DEF next
<1>4. ASSUME r.calm, ~r.failed PROVE \A i \in 1 .. Past(r) + 1 : Good(r, i, approved, meta)
  <2>1. Good(r, Past(r) + 1, approved, meta)
    <3>1. /\ Call(s).record.producer \notin r.source.unreal /\ Call(s).text \notin Call(s).forbid
          /\ Call(s).stem \notin StemsTo(r, Past(r))
      BY <1>1, <1>4 DEF Holding
    <3>2. approved[Call(s).stem][Call(s).ext] = Call(s).text /\ meta[Call(s).stem] = Call(s).record
      BY <1>4
    <3> HIDE DEF r
    <3> QED
      BY <1>1, <3>1, <3>2, GoodHere
  <2>2. r.mode # "elsewhere"
    BY <1>1 DEF Placed, InCall
  <2> QED
    BY <1>1, <1>4, <2>1, <2>2 DEF Knows
<1>5. r.held \subseteq StemsTo(r, Past(r) + 1) /\ (~r.failed => StemsTo(r, Past(r) + 1) \subseteq r.held)
  BY <1>1 DEF Holding
<1>6. r.calm /\ r.mode = "compare" /\ r.failed => \E i \in 1 .. Past(r) + 1 : ~Good(r, i, approved, meta)
  BY <1>1 DEF Knows
<1>7. Sound(next, approved, meta)
  <2> HIDE DEF r
  <2> QED
    BY <1>1, <1>3, <1>4, <1>5, <1>6, LeavesSound
<1> QED
  BY <1>7, GoesKeeps DEF next

(* A call goes on, with what it finds so far as it wants it. *)
LEMMA EnterKeeps ==
  ASSUME Inv, NEW s \in Suites, run[s].pc \in {"call"} \cup InCall, run[s].todo # <<>>,
         NEW pc \in InCall, NEW held \in SUBSET Stems, Goes(s, [At(s, pc) EXCEPT !.held = held]),
         UNCHANGED <<approved, meta>>,
         run[s].mode = IF pc \in Comparing THEN "compare" ELSE "record",
         held \subseteq StemsTo(run[s], Past(run[s]) + 1),
         ~run[s].failed => StemsTo(run[s], Past(run[s]) + 1) \subseteq held,
         /\ Call(s).record.producer \notin run[s].source.unreal /\ Call(s).text \notin Call(s).forbid
         /\ ~run[s].failed => Call(s).stem \notin StemsTo(run[s], Past(run[s]))
         /\ run[s].calm /\ pc \in {"readmeta", "meta", "fillmeta"} =>
              approved[Call(s).stem][Call(s).ext] = Call(s).text
  PROVE  Inv'
<1> DEFINE r == run[s]
           next == [At(s, pc) EXCEPT !.held = held]
<1>1. /\ r \in Runs /\ Placed(r) /\ Knows(r, approved, meta) /\ r.pc # "idle"
      /\ Call(s) = r.source.suite[Past(r) + 1]
  BY AtCall
<1>2. /\ next \in Runs /\ next.pc = pc /\ next.source = r.source /\ next.todo = r.todo
      /\ next.mode = r.mode /\ next.calm = r.calm /\ next.held = held /\ next.failed = r.failed
  BY <1>1 DEF At, Runs
<1> HIDE DEF next
<1>3. r.calm /\ ~r.failed => \A i \in 1 .. Past(r) : Good(r, i, approved, meta)
  BY <1>1 DEF Knows
<1>4. r.calm /\ r.mode = "compare" /\ r.failed => \E i \in 1 .. Past(r) : ~Good(r, i, approved, meta)
  BY <1>1 DEF Knows
<1>5. Sound(next, approved, meta)
  <2> HIDE DEF r
  <2> QED
    BY <1>1, <1>2, <1>3, <1>4, EntersSound DEF r
<1> QED
  BY <1>5, GoesKeeps DEF next

-----------------------------------------------------------------------------
(* The steps of assertApproved *)

LEMMA ProduceKeeps == ASSUME Inv, NEW s \in Suites, Produce(s) PROVE Inv'
<1> DEFINE r    == run[s]
           held == r.held \cup {Call(s).stem}
<1>1. /\ r.pc = "call" /\ r.todo # <<>> /\ UNCHANGED <<approved, meta>>
      /\ Goes(s, IF Refused(s) THEN Failed(s) ELSE [Produced(s) EXCEPT !.held = @ \cup {Call(s).stem}])
  BY DEF Produce
<1>2. /\ r \in Runs /\ Holding(r) /\ Call(s) = r.source.suite[Past(r) + 1]
      /\ Call(s) \in Calls /\ Past(r) \in Nat
      /\ StemsTo(r, Past(r) + 1) = StemsTo(r, Past(r)) \cup {Call(s).stem}
  BY <1>1, AtCall
<1>3. /\ r.held \subseteq StemsTo(r, Past(r)) /\ r.held \in SUBSET Stems /\ held \in SUBSET Stems
      /\ ~r.failed => StemsTo(r, Past(r)) \subseteq r.held
      /\ r.held \subseteq StemsTo(r, Past(r) + 1) /\ held \subseteq StemsTo(r, Past(r) + 1)
      /\ ~r.failed => StemsTo(r, Past(r) + 1) \subseteq held
  BY <1>1, <1>2 DEF Holding, Runs, Calls
<1>4. CASE Refused(s)
  <2>1. ~Good(r, Past(r) + 1, approved, meta)
    BY <1>2, <1>3, <1>4, GoodHere DEF Refused
  <2>2. Failed(s) = [Failed(s) EXCEPT !.held = r.held]
    BY <1>2 DEF Failed, Runs
  <2> QED
    BY <1>1, <1>3, <1>4, <2>1, <2>2, FailKeeps
<1>5. CASE ~Refused(s) /\ (Call(s).text \in Call(s).forbid \/ r.mode = "elsewhere")
  <2>1. Produced(s) = Failed(s)
    BY <1>5 DEF Produced
  <2>2. [Produced(s) EXCEPT !.held = @ \cup {Call(s).stem}] = [Failed(s) EXCEPT !.held = held]
    BY <1>2, <2>1 DEF Failed, Runs
  <2>3. r.mode = "compare" => ~Good(r, Past(r) + 1, approved, meta)
    BY <1>2, <1>5, GoodHere
  <2> QED
    BY <1>1, <1>3, <1>5, <2>2, <2>3, FailKeeps
<1>6. CASE ~Refused(s) /\ Call(s).text \notin Call(s).forbid /\ r.mode # "elsewhere"
  <2> DEFINE pc == IF r.mode = "compare" THEN "look" ELSE "out"
  <2>1. r.mode \in {"compare", "record"}
    BY <1>2, <1>6 DEF Runs, Modes
  <2>2. Produced(s) = At(s, pc)
    BY <1>6, <2>1 DEF Produced
  <2>3. [Produced(s) EXCEPT !.held = @ \cup {Call(s).stem}] = [At(s, pc) EXCEPT !.held = held]
    BY <1>2, <2>2 DEF At, Runs
  <2>4. pc \in InCall /\ pc \notin {"readmeta", "meta", "fillmeta"}
        /\ r.mode = IF pc \in Comparing THEN "compare" ELSE "record"
    BY <2>1 DEF InCall, Comparing, Recording
  <2>5. /\ Call(s).record.producer \notin r.source.unreal
        /\ ~r.failed => Call(s).stem \notin StemsTo(r, Past(r))
    BY <1>3, <1>6 DEF Refused
  <2> QED
    BY <1>1, <1>3, <1>6, <2>3, <2>4, <2>5, EnterKeeps
<1> QED
  BY <1>4, <1>5, <1>6

(* What a run in a call holds already. *)
LEMMA HeldInCall ==
  ASSUME Inv, NEW s \in Suites, run[s].pc \in InCall
  PROVE  LET r == run[s]
         IN  /\ r.todo # <<>> /\ r.held \in SUBSET Stems /\ r.held \subseteq StemsTo(r, Past(r) + 1)
             /\ Call(s).record.producer \notin r.source.unreal /\ Call(s).text \notin Call(s).forbid
             /\ ~r.failed => /\ StemsTo(r, Past(r) + 1) \subseteq r.held
                             /\ Call(s).stem \notin StemsTo(r, Past(r))
             /\ Call(s) \in Calls /\ Call(s).text # Nothing /\ Call(s).record # Nothing
             /\ \A pc : At(s, pc) = [At(s, pc) EXCEPT !.held = r.held]
             /\ Failed(s) = [Failed(s) EXCEPT !.held = r.held]
             /\ r.pc # "call"
<1> DEFINE r == run[s]
<1>1. /\ r \in Runs /\ Holding(r) /\ Call(s) = r.source.suite[Past(r) + 1] /\ Call(s) \in Calls
      /\ r.pc # "call" /\ r.todo # <<>>
  BY AtCall DEF InCall, Comparing, Recording
<1>2. Call(s).text # Nothing /\ Call(s).record # Nothing
  BY <1>1, FilesAssumption DEF Calls
<1>3. \A pc : At(s, pc) = [At(s, pc) EXCEPT !.held = r.held]
  BY <1>1 DEF At, Runs
<1>4. Failed(s) = [Failed(s) EXCEPT !.held = r.held]
  BY <1>1 DEF Failed, Runs
<1>5. r.held \in SUBSET Stems
  BY <1>1 DEF Runs
<1> QED
  BY <1>1, <1>2, <1>3, <1>4, <1>5 DEF Holding

(* A comparison that does not find what it wants fails, and one that does   *)
(* goes on.                                                                 *)
LEMMA CompareKeeps == ASSUME Inv, NEW s \in Suites, Look(s) \/ ReadOut(s) \/ ReadMeta(s) PROVE Inv'
<1> DEFINE r == run[s]
<1>1. r.pc \in Comparing /\ r.pc \in InCall /\ UNCHANGED <<approved, meta>>
  BY DEF Look, ReadOut, ReadMeta, Comparing, InCall
<1>2. /\ r \in Runs /\ Placed(r) /\ Knows(r, approved, meta) /\ Past(r) \in Nat
      /\ Call(s) = r.source.suite[Past(r) + 1] /\ r.mode = "compare"
  <2>1. /\ r \in Runs /\ Placed(r) /\ Knows(r, approved, meta) /\ Past(r) \in Nat
        /\ r.pc # "idle" /\ Call(s) = r.source.suite[Past(r) + 1]
    BY <1>1, HeldInCall, AtCall
  <2>2. r.mode = "compare"
    BY <1>1, <2>1 DEF Placed
  <2> QED
    BY <2>1, <2>2
<1>3. ASSUME Goes(s, Failed(s)), File(s) # Call(s).text \/ meta[Call(s).stem] # Call(s).record
      PROVE  Inv'
  <2>1. ~Good(r, Past(r) + 1, approved, meta)
    BY <1>2, <1>3, GoodHere DEF File
  <2> QED
    BY <1>1, <1>3, <2>1, HeldInCall, FailKeeps
<1>4. ASSUME NEW pc \in Comparing, Goes(s, At(s, pc)), pc = "readmeta" => File(s) = Call(s).text
      PROVE  Inv'
  <2>1. pc \in InCall /\ pc \notin {"meta", "fillmeta"}
    BY DEF InCall, Comparing
  <2>2. /\ r.todo # <<>> /\ r.held \in SUBSET Stems /\ r.held \subseteq StemsTo(r, Past(r) + 1)
        /\ Call(s).record.producer \notin r.source.unreal /\ Call(s).text \notin Call(s).forbid
        /\ ~r.failed => /\ StemsTo(r, Past(r) + 1) \subseteq r.held
                        /\ Call(s).stem \notin StemsTo(r, Past(r))
        /\ At(s, pc) = [At(s, pc) EXCEPT !.held = r.held]
    BY <1>1, HeldInCall
  <2>3. Goes(s, [At(s, pc) EXCEPT !.held = r.held])
    BY <1>4, <2>2
  <2>4. pc \in {"readmeta", "meta", "fillmeta"} => approved[Call(s).stem][Call(s).ext] = Call(s).text
    BY <1>4, <2>1 DEF File
  <2> HIDE DEF r
  <2> QED
    BY <1>1, <1>2, <1>4, <2>1, <2>2, <2>3, <2>4, EnterKeeps DEF r
<1>5. CASE Look(s)
  <2>1. Nothing \in {File(s), meta[Call(s).stem]} =>
          File(s) # Call(s).text \/ meta[Call(s).stem] # Call(s).record
    BY <1>1, HeldInCall
  <2> QED
    BY <1>3, <1>4, <1>5, <2>1 DEF Look, Comparing
<1>6. CASE ReadOut(s)
  BY <1>3, <1>4, <1>6 DEF ReadOut, Comparing
<1>7. CASE ReadMeta(s)
  <2>1. r.calm => File(s) = Call(s).text
    BY <1>2, <1>7 DEF ReadMeta, Knows, File
  <2> QED
    BY <1>1, <1>3, <1>7, <2>1, PassKeeps DEF ReadMeta, File
<1> QED
  BY <1>5, <1>6, <1>7

-----------------------------------------------------------------------------
(* The steps of _record *)

(* The step of a recording call leaves the pairs of other stems alone. *)
Elsewhere(stem) ==
  \A other \in Stems : other # stem => approved'[other] = approved[other] /\ meta'[other] = meta[other]

(* So it leaves those of the earlier calls alone, when none has its stem. *)
LEMMA GoodStays ==
  ASSUME NEW r, r.source.suite \in Seq(Calls), Past(r) \in Nat, Past(r) <= Len(r.source.suite),
         NEW stem, stem \notin StemsTo(r, Past(r)), Elsewhere(stem),
         \A i \in 1 .. Past(r) : Good(r, i, approved, meta)
  PROVE  \A i \in 1 .. Past(r) : Good(r, i, approved', meta')
<1> SUFFICES ASSUME NEW i \in 1 .. Past(r) PROVE Good(r, i, approved', meta')
  OBVIOUS
<1>1. i \in 1 .. Len(r.source.suite) /\ Good(r, i, approved, meta)
  OBVIOUS
<1>2. r.source.suite[i] \in Calls
  BY <1>1
<1>3. r.source.suite[i].stem \in Stems /\ r.source.suite[i].stem # stem
  BY <1>2 DEF Calls, StemsTo
<1> QED
  BY <1>1, <1>3 DEF Good, Elsewhere

(* A call that records, and what its run knows. *)
LEMMA InRecord ==
  ASSUME Inv, NEW s \in Suites, run[s].pc \in Recording
  PROVE  LET r == run[s]
         IN  /\ r \in Runs /\ Placed(r) /\ r.pc \in InCall /\ r.mode = "record"
             /\ r.pc # "idle" /\ r.todo # <<>> /\ Call(s) = r.source.suite[Past(r) + 1]
             /\ Past(r) \in Nat /\ Past(r) <= Len(r.source.suite)
             /\ r.source.suite \in Seq(Calls) /\ Call(s) \in Calls
             /\ r.held \subseteq StemsTo(r, Past(r) + 1)
             /\ Call(s).record.producer \notin r.source.unreal /\ Call(s).text \notin Call(s).forbid
             /\ ~r.failed => /\ StemsTo(r, Past(r) + 1) \subseteq r.held
                             /\ Call(s).stem \notin StemsTo(r, Past(r))
             /\ r.calm /\ ~r.failed => \A i \in 1 .. Past(r) : Good(r, i, approved, meta)
             /\ r.calm /\ r.pc \in {"meta", "fillmeta"} =>
                  approved[Call(s).stem][Call(s).ext] = Call(s).text
             /\ \A i : i \in 1 .. Past(r) + 1 <=> i \in 1 .. Past(r) \/ i = Past(r) + 1
<1> DEFINE r == run[s]
<1>1. r.pc \in InCall
  BY DEF InCall
<1>2. /\ r \in Runs /\ Placed(r) /\ Knows(r, approved, meta) /\ r.pc # "idle" /\ r.todo # <<>>
      /\ Call(s) = r.source.suite[Past(r) + 1] /\ Call(s) \in Calls /\ Past(r) \in Nat
      /\ \A i : i \in 1 .. Past(r) + 1 <=> i \in 1 .. Past(r) \/ i = Past(r) + 1
  BY <1>1, HeldInCall, AtCall
<1>3. /\ r.held \subseteq StemsTo(r, Past(r) + 1)
      /\ Call(s).record.producer \notin r.source.unreal /\ Call(s).text \notin Call(s).forbid
      /\ ~r.failed => /\ StemsTo(r, Past(r) + 1) \subseteq r.held
                      /\ Call(s).stem \notin StemsTo(r, Past(r))
  BY <1>1, HeldInCall
<1>4. r.mode = "record"
  BY <1>2 DEF Placed
<1>5. r.source.suite \in Seq(Calls) /\ Past(r) \in 0 .. Len(r.source.suite)
  BY <1>2, SourcesAssumption DEF Placed
<1>6. r.calm /\ ~r.failed => \A i \in 1 .. Past(r) : Good(r, i, approved, meta)
  BY <1>1, <1>2, <1>4 DEF Knows
<1>7. r.calm /\ r.pc \in {"meta", "fillmeta"} => approved[Call(s).stem][Call(s).ext] = Call(s).text
  BY <1>2 DEF Knows
<1>8. Past(r) <= Len(r.source.suite)
  <2> HIDE DEF r
  <2> QED
    BY <1>5
<1> QED
  BY <1>1, <1>2, <1>3, <1>4, <1>5, <1>6, <1>7, <1>8

(* A recording call goes on after a write. *)
LEMMA WriteKeeps ==
  ASSUME Inv, NEW s \in Suites, run[s].pc \in Recording, NEW pc \in Recording, Disturbs(s, At(s, pc)),
         approved' \in [Stems -> [Exts -> Texts \cup {Nothing, Cut}]],
         meta' \in [Stems -> Records \cup {Nothing, Cut}], Elsewhere(Call(s).stem),
         run[s].calm /\ pc \in {"meta", "fillmeta"} =>
           approved'[Call(s).stem][Call(s).ext] = Call(s).text
  PROVE  Inv'
<1> DEFINE r == run[s]
           next == At(s, pc)
<1>1. /\ r \in Runs /\ Placed(r) /\ r.mode = "record"
      /\ r.pc # "idle" /\ r.todo # <<>> /\ Call(s) = r.source.suite[Past(r) + 1]
      /\ Past(r) \in Nat /\ Past(r) <= Len(r.source.suite) /\ r.source.suite \in Seq(Calls)
      /\ r.held \subseteq StemsTo(r, Past(r) + 1)
      /\ Call(s).record.producer \notin r.source.unreal /\ Call(s).text \notin Call(s).forbid
      /\ ~r.failed => /\ StemsTo(r, Past(r) + 1) \subseteq r.held
                      /\ Call(s).stem \notin StemsTo(r, Past(r))
      /\ r.calm /\ ~r.failed => \A i \in 1 .. Past(r) : Good(r, i, approved, meta)
  BY InRecord
<1>2. pc \in InCall /\ pc \notin Comparing /\ pc # "readmeta"
  BY DEF InCall, Comparing, Recording
<1>3. /\ next \in Runs /\ next.pc = pc /\ next.source = r.source /\ next.todo = r.todo
      /\ next.mode = r.mode /\ next.calm = r.calm /\ next.held = r.held /\ next.failed = r.failed
  BY <1>1, <1>2 DEF At, Runs
<1>4. ASSUME r.calm, ~r.failed PROVE \A i \in 1 .. Past(r) : Good(r, i, approved', meta')
  <2>1. \A i \in 1 .. Past(r) : Good(r, i, approved, meta)
    BY <1>1, <1>4
  <2>2. Call(s).stem \notin StemsTo(r, Past(r))
    BY <1>1, <1>4
  <2> HIDE DEF r
  <2> QED
    BY <1>1, <2>1, <2>2, GoodStays
<1> HIDE DEF next
<1>5. Sound(next, approved', meta')
  <2>1. r.calm /\ next.pc \in {"readmeta", "meta", "fillmeta"} =>
          approved'[Call(s).stem][Call(s).ext] = Call(s).text
    BY <1>2, <1>3
  <2>2. r.mode = (IF next.pc \in Comparing THEN "compare" ELSE "record")
        /\ (r.calm /\ r.mode = "compare" /\ r.failed => \E i \in 1 .. Past(r) : ~Good(r, i, approved', meta'))
    BY <1>1, <1>2, <1>3
  <2> HIDE DEF r
  <2> QED
    BY <1>1, <1>2, <1>3, <1>4, <2>1, <2>2, EntersSound
<1> QED
  BY <1>5, DisturbsKeeps DEF next

LEMMA OpenOutKeeps == ASSUME Inv, NEW s \in Suites, OpenOut(s) PROVE Inv'
<1> DEFINE r == run[s]
<1>1. r.pc = "out" /\ r.pc \in Recording /\ UNCHANGED meta
  BY DEF OpenOut, Recording
<1>2. r.pc \in InCall /\ r.mode = "record" /\ Call(s) \in Calls
  BY <1>1, InRecord
<1>3. CASE File(s) = Call(s).text
  <2>1. Goes(s, At(s, "meta")) /\ UNCHANGED <<approved, meta>>
    BY <1>1, <1>3 DEF OpenOut
  <2>2. /\ r.todo # <<>> /\ r.held \in SUBSET Stems /\ r.held \subseteq StemsTo(r, Past(r) + 1)
        /\ Call(s).record.producer \notin r.source.unreal /\ Call(s).text \notin Call(s).forbid
        /\ ~r.failed => /\ StemsTo(r, Past(r) + 1) \subseteq r.held
                        /\ Call(s).stem \notin StemsTo(r, Past(r))
        /\ At(s, "meta") = [At(s, "meta") EXCEPT !.held = r.held]
    BY <1>2, HeldInCall
  <2>3. Goes(s, [At(s, "meta") EXCEPT !.held = r.held])
    BY <2>1, <2>2
  <2>4. "meta" \in InCall /\ "meta" \notin Comparing
    BY DEF InCall, Comparing, Recording
  <2>5. approved[Call(s).stem][Call(s).ext] = Call(s).text
    BY <1>3 DEF File
  <2> QED
    BY <1>2, <2>1, <2>2, <2>3, <2>4, <2>5, EnterKeeps
<1>4. CASE File(s) # Call(s).text
  <2>1. Disturbs(s, At(s, "fillout")) /\ SetFile(s, Cut)
    BY <1>4 DEF OpenOut
  <2>2. /\ approved' \in [Stems -> [Exts -> Texts \cup {Nothing, Cut}]]
        /\ meta' \in [Stems -> Records \cup {Nothing, Cut}] /\ Elsewhere(Call(s).stem)
    BY <1>1, <1>2, <2>1 DEF SetFile, Inv, Types, Calls, Elsewhere
  <2>3. "fillout" \in Recording
    BY DEF Recording
  <2> QED
    BY <1>1, <2>1, <2>2, <2>3, WriteKeeps
<1> QED
  BY <1>3, <1>4

LEMMA FillOutKeeps == ASSUME Inv, NEW s \in Suites, FillOut(s) PROVE Inv'
<1> DEFINE r == run[s]
<1>1. r.pc \in Recording /\ UNCHANGED meta /\ Disturbs(s, At(s, "meta")) /\ SetFile(s, Call(s).text)
  BY DEF FillOut, Recording
<1>2. Call(s) \in Calls
  BY <1>1, InRecord
<1>3. /\ approved' \in [Stems -> [Exts -> Texts \cup {Nothing, Cut}]]
      /\ meta' \in [Stems -> Records \cup {Nothing, Cut}] /\ Elsewhere(Call(s).stem)
      /\ approved'[Call(s).stem][Call(s).ext] = Call(s).text
  BY <1>1, <1>2 DEF SetFile, Inv, Types, Calls, Elsewhere
<1>4. "meta" \in Recording
  BY DEF Recording
<1> QED
  BY <1>1, <1>3, <1>4, WriteKeeps

LEMMA OpenMetaKeeps == ASSUME Inv, NEW s \in Suites, OpenMeta(s) PROVE Inv'
<1> DEFINE r == run[s]
<1>1. r.pc = "meta" /\ r.pc \in Recording /\ UNCHANGED approved
  BY DEF OpenMeta, Recording
<1>2. /\ r.pc \in InCall /\ Call(s) \in Calls
      /\ r.calm => approved[Call(s).stem][Call(s).ext] = Call(s).text
  BY <1>1, InRecord
<1>3. CASE meta[Call(s).stem] = Call(s).record
  BY <1>2, <1>3, PassKeeps DEF OpenMeta
<1>4. CASE meta[Call(s).stem] # Call(s).record
  <2>1. Disturbs(s, At(s, "fillmeta")) /\ meta' = [meta EXCEPT ![Call(s).stem] = Cut]
    BY <1>4 DEF OpenMeta
  <2>2. /\ approved' \in [Stems -> [Exts -> Texts \cup {Nothing, Cut}]]
        /\ meta' \in [Stems -> Records \cup {Nothing, Cut}] /\ Elsewhere(Call(s).stem)
    BY <1>1, <1>2, <2>1 DEF Inv, Types, Calls, Elsewhere
  <2>3. "fillmeta" \in Recording
    BY DEF Recording
  <2> QED
    BY <1>1, <1>2, <2>1, <2>2, <2>3, WriteKeeps
<1> QED
  BY <1>3, <1>4

(* The call is over: its pair is what it wants. *)
LEMMA FillMetaKeeps == ASSUME Inv, NEW s \in Suites, FillMeta(s) PROVE Inv'
<1> DEFINE r    == run[s]
           next == Passed(s)
<1>1. /\ r.pc = "fillmeta" /\ r.pc \in Recording /\ UNCHANGED approved /\ Disturbs(s, Passed(s))
      /\ meta' = [meta EXCEPT ![Call(s).stem] = Call(s).record]
  BY DEF FillMeta, Recording
<1>2. /\ r \in Runs /\ Placed(r) /\ r.mode = "record"
      /\ r.pc # "idle" /\ r.todo # <<>> /\ Call(s) = r.source.suite[Past(r) + 1]
      /\ Past(r) \in Nat /\ Past(r) <= Len(r.source.suite) /\ r.source.suite \in Seq(Calls)
      /\ Call(s) \in Calls /\ r.held \subseteq StemsTo(r, Past(r) + 1)
      /\ Call(s).record.producer \notin r.source.unreal /\ Call(s).text \notin Call(s).forbid
      /\ ~r.failed => /\ StemsTo(r, Past(r) + 1) \subseteq r.held
                      /\ Call(s).stem \notin StemsTo(r, Past(r))
      /\ r.calm /\ ~r.failed => \A i \in 1 .. Past(r) : Good(r, i, approved, meta)
      /\ r.calm => approved[Call(s).stem][Call(s).ext] = Call(s).text
      /\ \A i : i \in 1 .. Past(r) + 1 <=> i \in 1 .. Past(r) \/ i = Past(r) + 1
  BY <1>1, InRecord
<1>3. Tail(r.todo) \in Seq(Calls)
  BY <1>2 DEF Runs
<1>4. /\ next \in Runs /\ next.pc = "call" /\ next.source = r.source /\ next.todo = Tail(r.todo)
      /\ next.mode = r.mode /\ next.calm = r.calm /\ next.held = r.held /\ next.failed = r.failed
  BY <1>2, <1>3 DEF Passed, Runs
<1>5. /\ approved' \in [Stems -> [Exts -> Texts \cup {Nothing, Cut}]]
      /\ meta' \in [Stems -> Records \cup {Nothing, Cut}]
      /\ approved'[Call(s).stem] = approved[Call(s).stem] /\ meta'[Call(s).stem] = Call(s).record
      /\ Elsewhere(Call(s).stem)
  BY <1>1, <1>2 DEF Inv, Types, Calls, Elsewhere
<1> HIDE DEF next
<1>6. ASSUME r.calm, ~r.failed PROVE \A i \in 1 .. Past(r) + 1 : Good(r, i, approved', meta')
  <2>1. \A i \in 1 .. Past(r) : Good(r, i, approved, meta)
    BY <1>2, <1>6
  <2>2. Call(s).stem \notin StemsTo(r, Past(r))
    BY <1>2, <1>6
  <2>3. approved'[Call(s).stem][Call(s).ext] = Call(s).text /\ meta'[Call(s).stem] = Call(s).record
    BY <1>2, <1>5, <1>6
  <2> HIDE DEF r
  <2>4. \A i \in 1 .. Past(r) : Good(r, i, approved', meta')
    BY <1>2, <1>5, <2>1, <2>2, GoodStays
  <2>5. Good(r, Past(r) + 1, approved', meta')
    BY <1>2, <2>2, <2>3, GoodHere
  <2> QED
    BY <1>2, <2>4, <2>5
<1>7. Sound(next, approved', meta')
  <2>1. r.mode # "compare"
    BY <1>2
  <2> HIDE DEF r
  <2> QED
    BY <1>2, <1>4, <1>6, <2>1, LeavesSound
<1> QED
  BY <1>1, <1>5, <1>7, DisturbsKeeps DEF next

-----------------------------------------------------------------------------
(* The end of a suite, and what happens around it *)

(* The check of the folder fails a run whose calls were all good exactly    *)
(* when the folder is not whole.                                            *)
LEMMA CheckFolderKeeps == ASSUME Inv, NEW s \in Suites, CheckFolder(s) PROVE Inv'
<1> DEFINE r    == run[s]
           next == [r EXCEPT !.pc = "ended", !.held = {},
                      !.failed = @ \/ ~FolderIsWhole(r.source.unreal)]
<1>1. r.pc = "call" /\ r.todo = <<>> /\ Goes(s, next) /\ UNCHANGED <<approved, meta>>
  BY DEF CheckFolder
<1>2. r \in Runs /\ Placed(r) /\ Knows(r, approved, meta)
  BY DEF Inv, Sound
<1>3. r.source \in Sources /\ r.source.suite \in Seq(Calls)
  BY <1>1, <1>2, SourcesAssumption DEF Placed
<1>4. Past(r) = Len(r.source.suite)
  <2>1. Len(r.todo) = 0 /\ Len(r.source.suite) \in Nat
    BY <1>1, <1>3
  <2> QED
    BY <2>1 DEF Past
<1>5. FolderIsWhole(r.source.unreal) <=> Whole(r.source.unreal, approved, meta)
  BY DEF FolderIsWhole, Whole, Outputs
<1>6. /\ next \in Runs /\ next.pc = "ended" /\ next.source = r.source /\ next.todo = r.todo
      /\ next.mode = r.mode /\ next.calm = r.calm
      /\ next.failed <=> r.failed \/ ~Whole(r.source.unreal, approved, meta)
  BY <1>2, <1>5 DEF Runs
<1> HIDE DEF next
<1>7. Placed(next) /\ Holding(next)
  <2>1. Past(next) = Past(r)
    BY <1>6 DEF Past
  <2> QED
    BY <1>1, <1>2, <1>6, <2>1 DEF Placed, Holding, InCall, Comparing, Recording
<1>8. Knows(next, approved, meta)
  <2>1. \A i : Good(next, i, approved, meta) <=> Good(r, i, approved, meta)
    BY <1>6, GoodAlike
  <2>2. Right(next, approved, meta) <=>
          (\A i \in 1 .. Past(r) : Good(r, i, approved, meta)) /\ Whole(r.source.unreal, approved, meta)
    BY <1>4, <1>6, <2>1 DEF Right
  <2>3. r.calm => /\ r.mode # "elsewhere" /\ ~r.failed => \A i \in 1 .. Past(r) : Good(r, i, approved, meta)
                  /\ r.mode = "compare" /\ r.failed => \E i \in 1 .. Past(r) : ~Good(r, i, approved, meta)
    BY <1>1, <1>2 DEF Knows
  <2> QED
    BY <1>6, <2>2, <2>3 DEF Knows, InCall, Comparing, Recording
<1> QED
  BY <1>1, <1>6, <1>7, <1>8, GoesKeeps DEF next, Sound

LEMMA IdleIsSound == \A a, m : Sound(Idle, a, m)
BY DEF Sound, Idle, Runs, Placed, Holding, Knows, Modes, InCall, Comparing, Recording

LEMMA KillKeeps == ASSUME Inv, NEW s \in Suites, Kill(s) PROVE Inv'
BY IdleIsSound, GoesKeeps DEF Kill

LEMMA EditFileKeeps == ASSUME Inv, EditFile PROVE Inv'
<1>1. ASSUME NEW q \in Suites PROVE run'[q] \in Runs /\ Sound(run'[q], approved', meta')
  <2>1. Sound(run[q], approved, meta) /\ run'[q] = [run[q] EXCEPT !.calm = FALSE]
    BY DEF Inv, EditFile
  <2>2. Sound([run[q] EXCEPT !.calm = FALSE], approved', meta')
    BY <2>1, Disturbed
  <2> QED
    BY <2>1, <2>2 DEF Sound
<1>2. run' \in [Suites -> Runs]
  BY <1>1 DEF EditFile
<1>3. PICK stem \in Stems :
        \/ /\ \E ext \in Exts, content \in Texts \cup {Nothing} :
                approved' = [approved EXCEPT ![stem][ext] = content]
           /\ UNCHANGED meta
        \/ /\ \E content \in Records \cup {Nothing} : meta' = [meta EXCEPT ![stem] = content]
           /\ UNCHANGED approved
  BY DEF EditFile
<1>4. approved' \in [Stems -> [Exts -> Texts \cup {Nothing, Cut}]]
      /\ meta' \in [Stems -> Records \cup {Nothing, Cut}]
  BY <1>3 DEF Inv, Types
<1> QED
  BY <1>1, <1>2, <1>4 DEF Inv, Types

LEMMA NextKeeps == Inv /\ [Next]_vars => Inv'
<1> SUFFICES ASSUME Inv, [Next]_vars PROVE Inv'
  OBVIOUS
<1>1. ASSUME NEW s \in Suites, Suite(s) PROVE Inv'
  BY <1>1, StartKeeps, ProduceKeeps, CompareKeeps, OpenOutKeeps, FillOutKeeps, OpenMetaKeeps,
     FillMetaKeeps, CheckFolderKeeps DEF Suite
<1>2. CASE Rest \/ UNCHANGED vars
  BY <1>2 DEF Rest, vars, Inv, Types
<1> QED
  BY <1>1, <1>2, KillKeeps, EditFileKeeps DEF Next

LEMMA InitHolds == Init => Inv
<1> SUFFICES ASSUME Init PROVE Inv
  OBVIOUS
<1>1. Idle \in Runs
  BY IdleIsSound DEF Sound
<1> QED
  BY <1>1, IdleIsSound DEF Init, Inv, Types

(* Whatever the suites, kills and edits, a run that nothing disturbed knows *)
(* what it has seen of the folder, until its end.                           *)
THEOREM InvHolds == Spec => []Inv
BY InitHolds, NextKeeps, PTL DEF Spec

-----------------------------------------------------------------------------
(* A pair stands alone under its stem when it is there, and one file is. *)
LEMMA StandsAlone ==
  ASSUME Types, NEW call \in Calls
  PROVE  Stands(call) <=> /\ approved[call.stem][call.ext] = call.text /\ meta[call.stem] = call.record
                          /\ Cardinality(Outputs(call.stem)) = 1
<1>1. /\ call.stem \in Stems /\ call.ext \in Exts /\ call.text # Nothing
      /\ approved[call.stem] \in [Exts -> Texts \cup {Nothing, Cut}]
  BY FilesAssumption DEF Calls, Types
<1>2. IsFiniteSet(Outputs(call.stem))
  BY SourcesAssumption, FS_Subset DEF Outputs
<1>3. ASSUME Stands(call)
      PROVE  approved[call.stem][call.ext] = call.text /\ Cardinality(Outputs(call.stem)) = 1
  <2>1. approved[call.stem] = [ext \in Exts |-> IF ext = call.ext THEN call.text ELSE Nothing]
    BY <1>3 DEF Stands
  <2>2. Outputs(call.stem) = {call.ext}
    BY <1>1, <2>1 DEF Outputs
  <2> QED
    BY <1>1, <2>1, <2>2, FS_Singleton
<1>4. ASSUME approved[call.stem][call.ext] = call.text, Cardinality(Outputs(call.stem)) = 1
      PROVE  approved[call.stem] = [ext \in Exts |-> IF ext = call.ext THEN call.text ELSE Nothing]
  <2>1. PICK ext : Outputs(call.stem) = {ext}
    BY <1>2, <1>4, FS_Singleton
  <2>2. Outputs(call.stem) = {call.ext}
    BY <1>1, <1>4, <2>1 DEF Outputs
  <2> QED
    BY <1>1, <1>4, <2>2 DEF Outputs
<1> QED
  BY <1>3, <1>4 DEF Stands

(* Stems that no earlier call has are stems of one call each. *)
LEMMA EachItsOwn ==
  ASSUME NEW r, r.source.suite \in Seq(Calls)
  PROVE  (\A i \in 1 .. Len(r.source.suite) : r.source.suite[i].stem \notin StemsTo(r, i - 1))
         <=> \A i, j \in 1 .. Len(r.source.suite) :
               r.source.suite[i].stem = r.source.suite[j].stem => i = j
<1> DEFINE suite == r.source.suite
<1>1. Len(suite) \in Nat
  OBVIOUS
<1>2. \A i \in 1 .. Len(suite) : \A stem :
        stem \in StemsTo(r, i - 1) <=> \E j \in 1 .. i - 1 : stem = suite[j].stem
  BY DEF StemsTo
<1> HIDE DEF suite
<1>3. \A i, j \in 1 .. Len(suite) : i # j => j \in 1 .. i - 1 \/ i \in 1 .. j - 1
  BY <1>1
<1>4. \A i \in 1 .. Len(suite) : \A j \in 1 .. i - 1 : j \in 1 .. Len(suite) /\ j # i
  BY <1>1
<1>5. ASSUME \A i \in 1 .. Len(suite) : suite[i].stem \notin StemsTo(r, i - 1),
             NEW i \in 1 .. Len(suite), NEW j \in 1 .. Len(suite), suite[i].stem = suite[j].stem
      PROVE  i = j
  BY <1>2, <1>3, <1>5, Zenon
<1>6. ASSUME \A i, j \in 1 .. Len(suite) : suite[i].stem = suite[j].stem => i = j,
             NEW i \in 1 .. Len(suite)
      PROVE  suite[i].stem \notin StemsTo(r, i - 1)
  <2>1. ASSUME NEW j \in 1 .. i - 1 PROVE suite[i].stem # suite[j].stem
    <3>1. j \in 1 .. Len(suite) /\ j # i
      BY <1>4
    <3> QED
      BY <1>6, <3>1
  <2> QED
    BY <1>2, <2>1
<1> QED
  BY <1>5, <1>6 DEF suite

(* The pairs that a source wants, and stems no other. *)
Wanted(source) ==
  /\ Proper(source.suite, source.unreal)
  /\ \A i \in DOMAIN source.suite : Stands(source.suite[i])

(* What a run finds good of its calls in a whole folder is that they are    *)
(* proper and stand there.                                                  *)
LEMMA RightIsWanted ==
  ASSUME Types, NEW r, r.source \in Sources
  PROVE  LET source == r.source
         IN  Right(r, approved, meta) <=>
               /\ Wanted(source) /\ \E stem \in Stems : meta[stem] # Nothing
               /\ \A stem \in Stems \ {source.suite[i].stem : i \in DOMAIN source.suite} :
                    LeftBehind(stem, source.unreal)
<1> DEFINE source == r.source
           calls  == DOMAIN source.suite
           own    == {source.suite[i].stem : i \in calls}
<1>1. /\ source.suite \in Seq(Calls) /\ calls = 1 .. Len(source.suite)
      /\ \A i \in calls : source.suite[i] \in Calls
  BY SourcesAssumption
<1>2. /\ \A stem : IsFiniteSet(Outputs(stem))
      /\ \A stem : Cardinality(Outputs(stem)) = 0 <=> Outputs(stem) = {}
  <2>1. \A stem : IsFiniteSet(Outputs(stem))
    BY SourcesAssumption, FS_Subset DEF Outputs
  <2> QED
    BY <2>1, FS_EmptySet
<1>3. (\A i \in calls : source.suite[i].stem \notin StemsTo(r, i - 1))
      <=> \A i, j \in calls : source.suite[i].stem = source.suite[j].stem => i = j
  BY <1>1, EachItsOwn
<1>4. Whole(source.unreal, approved, meta) <=> FolderIsWhole(source.unreal)
  BY DEF Whole, FolderIsWhole, Outputs
<1>5. \A i \in calls : source.suite[i].record # Nothing /\ source.suite[i].record # Cut
                       /\ source.suite[i].stem \in Stems
  BY <1>1, FilesAssumption DEF Calls
<1>6. \A stem \in Stems : meta[stem] \in Records \/ meta[stem] \in {Nothing, Cut}
  BY DEF Types
<1>7. ASSUME Right(r, approved, meta)
      PROVE  /\ Wanted(source) /\ \E stem \in Stems : meta[stem] # Nothing
             /\ \A stem \in Stems \ own : LeftBehind(stem, source.unreal)
  <2>1. /\ FolderIsWhole(source.unreal)
        /\ \A i \in calls : Good(r, i, approved, meta)
    BY <1>1, <1>4, <1>7 DEF Right
  <2>2. Proper(source.suite, source.unreal)
    BY <1>3, <2>1 DEF Proper, Good
  <2>3. ASSUME NEW i \in calls PROVE Stands(source.suite[i])
    <3>1. /\ approved[source.suite[i].stem][source.suite[i].ext] = source.suite[i].text
          /\ meta[source.suite[i].stem] = source.suite[i].record
      BY <2>1 DEF Good
    <3>2. Cardinality(Outputs(source.suite[i].stem)) = 1
      BY <1>5, <2>1, <3>1 DEF FolderIsWhole
    <3> QED
      BY <1>1, <3>1, <3>2, StandsAlone
  <2>4. ASSUME NEW stem \in Stems PROVE LeftBehind(stem, source.unreal)
    BY <1>2, <1>6, <2>1 DEF FolderIsWhole, LeftBehind
  <2> QED
    BY <2>1, <2>2, <2>3, <2>4 DEF Wanted, FolderIsWhole
<1>8. ASSUME Wanted(source), \E stem \in Stems : meta[stem] # Nothing,
             \A stem \in Stems \ own : LeftBehind(stem, source.unreal)
      PROVE  Right(r, approved, meta)
  <2>1. /\ Proper(source.suite, source.unreal)
        /\ \A i \in calls : Stands(source.suite[i])
    BY <1>8 DEF Wanted
  <2>2. \A i \in calls :
          /\ approved[source.suite[i].stem][source.suite[i].ext] = source.suite[i].text
          /\ meta[source.suite[i].stem] = source.suite[i].record
          /\ Cardinality(Outputs(source.suite[i].stem)) = 1
    BY <1>1, <2>1, StandsAlone
  <2>3. \A i \in calls : source.suite[i].stem \notin StemsTo(r, i - 1)
    BY <1>3, <2>1 DEF Proper
  <2>4. \A i \in calls : Good(r, i, approved, meta)
    BY <2>1, <2>2, <2>3 DEF Good, Proper
  <2>5. ASSUME NEW stem \in Stems
        PROVE  /\ Cardinality(Outputs(stem)) = IF meta[stem] = Nothing THEN 0 ELSE 1
               /\ meta[stem] # Nothing => meta[stem] # Cut /\ meta[stem].producer \notin source.unreal
    <3>1. CASE stem \in own
      <4>1. PICK i \in calls : stem = source.suite[i].stem
        BY <3>1
      <4>2. source.suite[i].record.producer \notin source.unreal
        BY <2>1 DEF Proper
      <4> QED
        BY <1>5, <2>2, <4>1, <4>2
    <3>2. CASE stem \notin own
      BY <1>2, <1>8, <3>2, FilesAssumption DEF LeftBehind
    <3> QED
      BY <3>1, <3>2
  <2>6. FolderIsWhole(source.unreal)
    BY <1>8, <2>5 DEF FolderIsWhole
  <2> QED
    BY <1>1, <1>4, <2>4, <2>6 DEF Right
<1> QED
  BY <1>7, <1>8

(* Whatever was killed, raced or edited before, a comparison that nothing   *)
(* disturbs fails exactly when the folder is not what its source wants.     *)
THEOREM CalmCompareIsRightHolds == Spec => []CalmCompareIsRight
<1>1. Inv => CalmCompareIsRight
  <2> SUFFICES ASSUME Inv, NEW s \in Suites,
                      run[s].pc = "ended" /\ run[s].mode = "compare" /\ run[s].calm
               PROVE  LET was == run[s].source
                      IN  ~run[s].failed <=>
                            /\ Wanted(was) /\ \E stem \in Stems : meta[stem] # Nothing
                            /\ \A stem \in Stems \ {was.suite[i].stem : i \in DOMAIN was.suite} :
                                 LeftBehind(stem, was.unreal)
    BY DEF CalmCompareIsRight, Wanted
  <2> DEFINE r == run[s]
  <2>1. Types /\ r \in Runs /\ Placed(r) /\ Knows(r, approved, meta)
    BY DEF Inv, Sound
  <2>2. r.source \in Sources /\ r.failed \in BOOLEAN
    BY <2>1 DEF Placed, Runs
  <2>3. ~r.failed <=> Right(r, approved, meta)
    BY <2>1, <2>2 DEF Knows
  <2> HIDE DEF r
  <2> QED
    BY <2>1, <2>2, <2>3, RightIsWanted DEF r
<1> QED
  BY <1>1, InvHolds, PTL

(* From whatever an earlier kill or race left half written, a recording     *)
(* that nothing disturbs and that passes leaves what a comparison wants.    *)
THEOREM RecordingRepairsHolds == Spec => []RecordingRepairs
<1>1. Inv => RecordingRepairs
  <2> SUFFICES ASSUME Inv, NEW s \in Suites,
                      run[s].pc = "ended" /\ run[s].mode = "record" /\ run[s].calm /\ ~run[s].failed
               PROVE  Wanted(run[s].source)
    BY DEF RecordingRepairs, Wanted
  <2> DEFINE r == run[s]
  <2>1. Types /\ r.source \in Sources /\ Right(r, approved, meta)
    BY DEF Inv, Sound, Placed, Knows
  <2> HIDE DEF r
  <2> QED
    BY <2>1, RightIsWanted DEF r
<1> QED
  BY <1>1, InvHolds, PTL

Counts == spent \in [starts : Nat, edits : Nat]

LEMMA CountsHold == Spec => []Counts
<1>1. Init => Counts
  BY DEF Init, Counts
<1>2. Counts /\ [Next]_vars => Counts'
  <2> SUFFICES ASSUME Counts, [Next]_vars PROVE Counts'
    OBVIOUS
  <2>1. ASSUME NEW s \in Suites, Start(s) PROVE Counts'
    BY <2>1 DEF Start, Counts
  <2>2. CASE EditFile
    BY <2>2 DEF EditFile, Counts
  <2>3. ASSUME NEW s \in Suites, Suite(s), ~Start(s) PROVE UNCHANGED spent
    BY <2>3 DEF Suite, Produce, Look, ReadOut, ReadMeta, OpenOut, FillOut, OpenMeta, FillMeta, CheckFolder
  <2>4. ASSUME NEW s \in Suites, Kill(s) PROVE UNCHANGED spent
    BY <2>4 DEF Kill
  <2> QED
    BY <2>1, <2>2, <2>3, <2>4 DEF Next, Rest, vars, Counts
<1> QED
  BY <1>1, <1>2, PTL DEF Spec

(* A suite writes nothing new where what its source wants stands. *)
LEMMA WantedIsLeftAlone ==
  ASSUME Inv, NEW s \in Suites, run[s].pc \in Recording, Wanted(run[s].source),
         OpenOut(s) \/ FillOut(s) \/ OpenMeta(s) \/ FillMeta(s)
  PROVE  UNCHANGED <<approved, meta>>
<1>1. /\ Call(s) = run[s].source.suite[Past(run[s]) + 1]
      /\ Past(run[s]) + 1 \in DOMAIN run[s].source.suite /\ Call(s) \in Calls
  <2>1. /\ run[s] \in Runs /\ Placed(run[s]) /\ run[s].pc # "idle" /\ run[s].todo # <<>>
    BY InRecord
  <2>2. /\ run[s].source.suite \in Seq(Calls) /\ Past(run[s]) + 1 \in 1 .. Len(run[s].source.suite)
        /\ Call(s) = run[s].source.suite[Past(run[s]) + 1] /\ Call(s) \in Calls
    BY <2>1, Current DEF Call
  <2> QED
    BY <2>2
<1>2. Stands(Call(s))
  BY <1>1 DEF Wanted
<1>3. Types
  BY DEF Inv
<1>4. approved[Call(s).stem][Call(s).ext] = Call(s).text /\ meta[Call(s).stem] = Call(s).record
  BY <1>1, <1>2, <1>3, StandsAlone
<1>5. CASE OpenOut(s)
  BY <1>4, <1>5 DEF OpenOut, File
<1>6. CASE FillOut(s)
  <2>1. approved' = [approved EXCEPT ![Call(s).stem][Call(s).ext] = Call(s).text] /\ UNCHANGED meta
    BY <1>6 DEF FillOut, SetFile
  <2> QED
    BY <1>1, <1>3, <1>4, <2>1 DEF Types, Calls
<1>7. CASE OpenMeta(s)
  BY <1>4, <1>7 DEF OpenMeta
<1>8. CASE FillMeta(s)
  <2>1. meta' = [meta EXCEPT ![Call(s).stem] = Call(s).record] /\ UNCHANGED approved
    BY <1>8 DEF FillMeta
  <2> QED
    BY <1>1, <1>3, <1>4, <2>1 DEF Types, Calls
<1> QED
  BY <1>5, <1>6, <1>7, <1>8

(* While every running suite is of one source and nothing is edited, the    *)
(* pairs that source wants stay, whatever is killed: a comparison beside a  *)
(* recording never sees them cut short.                                     *)
THEOREM RightStaysRightHolds == Spec => RightStaysRight
<1>1. ASSUME Inv, Counts, [Next]_vars, NEW from \in Sources, spent'.edits = spent.edits, Wanted(from),
             \A s \in Suites : Running(s) => run[s].source = from
      PROVE  Wanted(from)'
  <2>1. ASSUME NEW s \in Suites, Suite(s) PROVE UNCHANGED <<approved, meta>>
    <3>1. CASE OpenOut(s) \/ FillOut(s) \/ OpenMeta(s) \/ FillMeta(s)
      <4>1. run[s].pc \in Recording /\ Running(s)
        BY <3>1 DEF OpenOut, FillOut, OpenMeta, FillMeta, Recording, Running
      <4> QED
        BY <1>1, <3>1, <4>1, WantedIsLeftAlone
    <3>2. CASE Start(s) \/ Produce(s) \/ Look(s) \/ ReadOut(s) \/ ReadMeta(s) \/ CheckFolder(s)
      BY <3>2 DEF Start, Produce, Look, ReadOut, ReadMeta, CheckFolder
    <3> QED
      BY <2>1, <3>1, <3>2 DEF Suite
  <2>2. ~EditFile
    BY <1>1 DEF Counts, EditFile
  <2>3. UNCHANGED <<approved, meta>>
    BY <1>1, <2>1, <2>2 DEF Next, Kill, Rest, vars
  <2> QED
    BY <1>1, <2>3 DEF Wanted, Stands
<1>2. Inv /\ Counts /\ [Next]_vars =>
        [\A from \in Sources :
           LET Fits == Proper(from.suite, from.unreal) /\ \A i \in DOMAIN from.suite : Stands(from.suite[i])
           IN  /\ spent'.edits = spent.edits /\ Fits
               /\ \A s \in Suites : Running(s) => run[s].source = from
               => Fits']_vars
  BY <1>1 DEF Wanted
<1> QED
  BY <1>2, InvHolds, CountsHold, PTL DEF Spec, RightStaysRight

-----------------------------------------------------------------------------
(* Numbers *)

(* Places with the value of a place, up to it; the first of them; and the   *)
(* values up to that one.                                                   *)
Twins(key, M, at)   == {i \in 1 .. at : i \in M /\ key[i] = key[at]}
FirstOf(key, M, at) == Min(Twins(key, M, at))
SeenBy(key, M, at)  == {key[i] : i \in {j \in 1 .. FirstOf(key, M, at) : j \in M}}

RankOf(key, M, at) == Cardinality(SeenBy(key, M, at))

(* The first of them holds their value, and none of them is before it.      *)
LEMMA FirstFacts ==
  ASSUME NEW M \in SUBSET (Nat \ {0}), NEW key, NEW at \in M
  PROVE  /\ FirstOf(key, M, at) \in M /\ FirstOf(key, M, at) <= at
         /\ key[FirstOf(key, M, at)] = key[at]
         /\ \A i \in M : key[i] = key[at] => FirstOf(key, M, at) <= i
<1> DEFINE T == Twins(key, M, at)
<1>1. T \in SUBSET Nat /\ at \in T
  BY DEF Twins
<1>2. \E m \in T : \A k \in T : m <= k
  <2> HIDE DEF T
  <2> QED
    BY <1>1, LeastElement
<1>3. FirstOf(key, M, at) \in T /\ \A k \in T : FirstOf(key, M, at) <= k
  BY <1>2 DEF FirstOf, Min
<1>4. ASSUME NEW i \in M, key[i] = key[at] PROVE FirstOf(key, M, at) <= i
  <2>1. CASE i <= at
    <3>1. i \in T
      BY <1>4, <2>1 DEF Twins
    <3> QED
      BY <1>3, <3>1
  <2>2. CASE i > at
    BY <1>1, <1>3, <2>2
  <2> QED
    BY <2>1, <2>2
<1> QED
  BY <1>3, <1>4 DEF Twins

(* A rank is a number.                                                      *)
LEMMA SeenFinite ==
  ASSUME NEW M \in SUBSET (Nat \ {0}), NEW key, NEW at \in M
  PROVE  /\ IsFiniteSet(SeenBy(key, M, at)) /\ RankOf(key, M, at) \in Nat
         /\ key[at] \in SeenBy(key, M, at)
<1> DEFINE f == FirstOf(key, M, at)
           D == {j \in 1 .. f : j \in M}
<1>1. f \in M /\ key[f] = key[at]
  BY FirstFacts
<1> HIDE DEF f
<1>2. IsFiniteSet(1 .. f)
  BY <1>1, FS_Interval
<1>3. IsFiniteSet(D)
  BY <1>2, FS_Subset
<1>4. IsFiniteSet({key[i] : i \in D})
  <2> DEFINE T == {key[i] : i \in D}
             g == [i \in D |-> key[i]]
  <2>1. g \in Surjection(D, T)
    BY DEF Surjection
  <2> HIDE DEF D, T, g
  <2>2. IsFiniteSet(T)
    BY <1>3, <2>1, FS_Surjection
  <2> QED
    BY <2>2 DEF T
<1>5. SeenBy(key, M, at) = {key[i] : i \in D}
  BY DEF SeenBy, f
<1>6. f \in D
  BY <1>1
<1> QED
  BY <1>1, <1>4, <1>5, <1>6, FS_CardinalityType DEF RankOf

(* Two places have one number exactly if they have one value.               *)
LEMMA RankTells ==
  ASSUME NEW M \in SUBSET (Nat \ {0}), NEW key, NEW at \in M, NEW other \in M
  PROVE  RankOf(key, M, at) = RankOf(key, M, other) <=> key[at] = key[other]
<1>1. ASSUME NEW a \in M, NEW b \in M, key[a] = key[b]
      PROVE  RankOf(key, M, a) = RankOf(key, M, b)
  <2>1. FirstOf(key, M, a) = FirstOf(key, M, b)
    <3>1. FirstOf(key, M, a) <= FirstOf(key, M, b) /\ FirstOf(key, M, b) <= FirstOf(key, M, a)
      <4>1. ASSUME NEW c \in M, NEW d \in M, key[c] = key[d] PROVE FirstOf(key, M, c) <= FirstOf(key, M, d)
        <5>1. FirstOf(key, M, d) \in M /\ key[FirstOf(key, M, d)] = key[d]
          BY FirstFacts
        <5>2. \A i \in M : key[i] = key[c] => FirstOf(key, M, c) <= i
          BY FirstFacts
        <5> QED
          BY <4>1, <5>1, <5>2
      <4> QED
        BY <1>1, <4>1
    <3>2. FirstOf(key, M, a) \in Nat /\ FirstOf(key, M, b) \in Nat
      BY FirstFacts
    <3> QED
      BY <3>1, <3>2
  <2> QED
    BY <2>1 DEF RankOf, SeenBy
<1>2. ASSUME NEW a \in M, NEW b \in M, FirstOf(key, M, a) < FirstOf(key, M, b)
      PROVE  RankOf(key, M, a) < RankOf(key, M, b)
  <2>1. SeenBy(key, M, a) \subseteq SeenBy(key, M, b)
    <3>1. FirstOf(key, M, a) \in Nat /\ FirstOf(key, M, b) \in Nat
      BY FirstFacts
    <3>2. 1 .. FirstOf(key, M, a) \subseteq 1 .. FirstOf(key, M, b)
      BY <1>2, <3>1
    <3> QED
      BY <3>2 DEF SeenBy
  <2>2. key[b] \notin SeenBy(key, M, a)
    <3> SUFFICES ASSUME NEW i \in 1 .. FirstOf(key, M, a), i \in M, key[i] = key[b] PROVE FALSE
      BY DEF SeenBy
    <3>1. FirstOf(key, M, b) <= i
      BY FirstFacts
    <3>2. FirstOf(key, M, a) \in Nat /\ FirstOf(key, M, b) \in Nat
      BY FirstFacts
    <3> QED
      BY <1>2, <3>1, <3>2
  <2>3. IsFiniteSet(SeenBy(key, M, b)) /\ key[b] \in SeenBy(key, M, b)
    BY SeenFinite
  <2>4. SeenBy(key, M, a) # SeenBy(key, M, b)
    BY <2>2, <2>3
  <2>5. Cardinality(SeenBy(key, M, a)) < Cardinality(SeenBy(key, M, b))
    BY <2>1, <2>3, <2>4, FS_Subset, FS_CardinalityType
  <2> QED
    BY <2>5 DEF RankOf
<1>3. ASSUME key[at] # key[other] PROVE RankOf(key, M, at) # RankOf(key, M, other)
  <2>1. FirstOf(key, M, at) # FirstOf(key, M, other)
    BY <1>3, FirstFacts
  <2>2. FirstOf(key, M, at) \in Nat /\ FirstOf(key, M, other) \in Nat
    BY FirstFacts
  <2>3. RankOf(key, M, at) \in Nat /\ RankOf(key, M, other) \in Nat
    BY SeenFinite
  <2>4. CASE FirstOf(key, M, at) < FirstOf(key, M, other)
    BY <1>2, <2>3, <2>4
  <2>5. CASE FirstOf(key, M, other) < FirstOf(key, M, at)
    BY <1>2, <2>3, <2>5
  <2> QED
    BY <2>1, <2>2, <2>4, <2>5
<1> QED
  BY <1>1, <1>3

(* Which number it is depends only on where values are equal.               *)
LEMMA RankAlike ==
  ASSUME NEW M \in SUBSET (Nat \ {0}), NEW key, NEW look, NEW at \in M,
         \A i, j \in M : key[i] = key[j] <=> look[i] = look[j]
  PROVE  RankOf(key, M, at) = RankOf(look, M, at)
<1> DEFINE n == FirstOf(key, M, at)
           D == {j \in 1 .. n : j \in M}
           first(v) == CHOOSE i \in D : key[i] = v
           back(v) == CHOOSE i \in D : look[i] = v
           S == {key[i] : i \in D}
           T == {look[i] : i \in D}
           f == [v \in S |-> look[first(v)]]
           g == [v \in T |-> key[back(v)]]
<1>1. FirstOf(look, M, at) = n
  <2>1. FirstOf(look, M, at) \in M /\ n \in M /\ key[n] = key[at] /\ look[FirstOf(look, M, at)] = look[at]
    BY FirstFacts
  <2>2. key[FirstOf(look, M, at)] = key[at] /\ look[n] = look[at]
    BY <2>1
  <2>3. n <= FirstOf(look, M, at) /\ FirstOf(look, M, at) <= n
    <3>1. /\ \A i \in M : key[i] = key[at] => FirstOf(key, M, at) <= i
          /\ \A i \in M : look[i] = look[at] => FirstOf(look, M, at) <= i
      BY FirstFacts
    <3> QED
      BY <2>1, <2>2, <3>1
  <2>4. n \in Int /\ FirstOf(look, M, at) \in Int
    <3>1. M \subseteq Int
      OBVIOUS
    <3> QED
      BY <2>1, <3>1
  <2> QED
    BY <2>3, <2>4
<1>2. SeenBy(key, M, at) = S /\ SeenBy(look, M, at) = T
  BY <1>1 DEF SeenBy
<1>3. \A v \in S : first(v) \in D /\ key[first(v)] = v
  OBVIOUS
<1>4. \A v \in T : back(v) \in D /\ look[back(v)] = v
  OBVIOUS
<1>5. IsFiniteSet(S)
  BY <1>2, SeenFinite
<1>6. \A i \in D : i \in M /\ key[i] \in S /\ look[i] \in T
  OBVIOUS
<1> HIDE DEF n, D, first, back, S, T
<1>7. f \in [S -> T] /\ g \in [T -> S]
  BY <1>3, <1>4, <1>6
<1>8. ASSUME NEW v \in S PROVE g[f[v]] = v
  <2>1. f[v] = look[first(v)] /\ f[v] \in T
    BY <1>7
  <2>2. g[f[v]] = key[back(f[v])] /\ look[back(f[v])] = f[v] /\ back(f[v]) \in D
    BY <1>4, <2>1
  <2>3. first(v) \in M /\ back(f[v]) \in M /\ look[back(f[v])] = look[first(v)]
    BY <1>3, <1>6, <2>1, <2>2
  <2> QED
    BY <1>3, <2>2, <2>3
<1>9. ASSUME NEW v \in T PROVE f[g[v]] = v
  <2>1. g[v] = key[back(v)] /\ g[v] \in S
    BY <1>7
  <2>2. f[g[v]] = look[first(g[v])] /\ key[first(g[v])] = g[v] /\ first(g[v]) \in D
    BY <1>3, <2>1
  <2>3. back(v) \in M /\ first(g[v]) \in M /\ key[first(g[v])] = key[back(v)]
    BY <1>4, <1>6, <2>1, <2>2
  <2> QED
    BY <1>4, <2>2, <2>3
<1> HIDE DEF f, g
<1>10. Cardinality(T) = Cardinality(S)
  BY <1>5, <1>7, <1>8, <1>9, SameSize
<1> QED
  BY <1>2, <1>10 DEF RankOf

-----------------------------------------------------------------------------
(* Chains *)

(* h is a text after each set of parts, the last of them last.              *)
TakesParts(h, parts, t) ==
  h = [S \in SUBSET DOMAIN parts |->
         IF S = {} THEN t ELSE Numbered(parts[Max(S)], h[S \ {Max(S)}])]

After(parts, t) == (CHOOSE h : TakesParts(h, parts, t))[DOMAIN parts]

(* A scrubber applies its parts in turn (_scrub.py:339-342).                 *)
LEMMA ScrubbedIsAfter ==
  ASSUME NEW scrubber, NEW t
  PROVE  Scrubbed(scrubber, t) = After(scrubber.parts, t)
BY Zenon DEF Scrubbed, FoldLeft, MapThenFoldSet, After, TakesParts

(* There is such a function for every chain.                                *)
LEMMA TakesPartsExists ==
  ASSUME NEW n \in Nat, NEW parts, DOMAIN parts = 1 .. n, NEW t
  PROVE  \E h : TakesParts(h, parts, t)
<1> DEFINE Rule(h, m) == \A S \in SUBSET (1 .. m) :
                           h[S] = IF S = {} THEN t ELSE Numbered(parts[Max(S)], h[S \ {Max(S)}])
           G == {m \in Nat : \E h : Rule(h, m)}
<1>1. 0 \in G
  <2>1. Rule([S \in {{}} |-> t], 0)
    OBVIOUS
  <2> HIDE DEF Rule
  <2> QED
    BY <2>1
<1>2. ASSUME NEW m \in Nat, NEW h, Rule(h, m)
      PROVE  \E k : Rule(k, m + 1)
  <2> DEFINE k == [S \in SUBSET (1 .. m + 1) |->
                     IF m + 1 \in S THEN Numbered(parts[m + 1], h[S \ {m + 1}]) ELSE h[S]]
  <2>1. ASSUME NEW S \in SUBSET (1 .. m + 1), m + 1 \notin S
        PROVE  S \in SUBSET (1 .. m) /\ k[S] = h[S]
    BY <2>1
  <2>2. ASSUME NEW S \in SUBSET (1 .. m + 1), m + 1 \in S
        PROVE  Max(S) = m + 1 /\ k[S] = Numbered(parts[m + 1], h[S \ {m + 1}])
               /\ S \ {m + 1} \in SUBSET (1 .. m + 1) /\ S # {}
    <3>1. \A y \in S : m + 1 >= y /\ y \in Int
      OBVIOUS
    <3>2. Max(S) = m + 1
      <4>1. Max(S) \in S /\ \A y \in S : Max(S) >= y
        BY <2>2, <3>1 DEF Max
      <4>2. m + 1 >= Max(S) /\ Max(S) \in Int /\ Max(S) >= m + 1
        BY <2>2, <3>1, <4>1
      <4> QED
        BY <4>2
    <3> QED
      BY <2>2, <3>2
  <2>3. ASSUME NEW S \in SUBSET (1 .. m + 1)
        PROVE  k[S] = IF S = {} THEN t ELSE Numbered(parts[Max(S)], k[S \ {Max(S)}])
    <3>1. CASE m + 1 \in S
      <4>1. k[S \ {m + 1}] = h[S \ {m + 1}]
        <5>1. S \ {m + 1} \in SUBSET (1 .. m + 1) /\ m + 1 \notin S \ {m + 1}
          OBVIOUS
        <5> HIDE DEF k
        <5> QED
          BY <2>1, <5>1
      <4> HIDE DEF k
      <4> QED
        BY <2>2, <3>1, <4>1
    <3>2. CASE m + 1 \notin S
      <4>1. S \in SUBSET (1 .. m) /\ k[S] = h[S]
        BY <2>1, <3>2
      <4>2. h[S] = IF S = {} THEN t ELSE Numbered(parts[Max(S)], h[S \ {Max(S)}])
        BY <1>2, <4>1
      <4>3. k[S \ {Max(S)}] = h[S \ {Max(S)}]
        <5> DEFINE R == S \ {Max(S)}
        <5>1. R \in SUBSET (1 .. m + 1) /\ m + 1 \notin R
          BY <3>2
        <5> HIDE DEF k, R
        <5>2. k[R] = h[R]
          BY <2>1, <5>1
        <5> QED
          BY <5>2 DEF R
      <4> HIDE DEF k
      <4> QED
        BY <4>1, <4>2, <4>3
    <3> QED
      BY <3>1, <3>2
  <2> HIDE DEF k
  <2> QED
    BY <2>3
<1>3. G = Nat
  <2>1. G \in SUBSET Nat /\ \A m \in G : m + 1 \in G
    <3> HIDE DEF Rule
    <3>1. \A m \in Nat : (\E h : Rule(h, m)) => \E h : Rule(h, m + 1)
      BY <1>2
    <3> QED
      BY <3>1
  <2> HIDE DEF G
  <2> QED
    BY <1>1, <2>1, Induction
<1>4. PICK h : Rule(h, n)
  <2> HIDE DEF Rule
  <2> QED
    BY <1>3
<1> DEFINE k == [S \in SUBSET DOMAIN parts |-> h[S]]
<1>5. TakesParts(k, parts, t)
  <2>1. \A S \in SUBSET DOMAIN parts : k[S] = h[S] /\ S \ {Max(S)} \in SUBSET DOMAIN parts
    OBVIOUS
  <2>2. \A S \in SUBSET DOMAIN parts :
          h[S] = IF S = {} THEN t ELSE Numbered(parts[Max(S)], h[S \ {Max(S)}])
    BY <1>4
  <2>3. \A S \in SUBSET DOMAIN parts :
          k[S] = IF S = {} THEN t ELSE Numbered(parts[Max(S)], k[S \ {Max(S)}])
    <3> HIDE DEF k
    <3> QED
      BY <2>1, <2>2
  <2>4. k = [S \in SUBSET DOMAIN parts |-> k[S]]
    OBVIOUS
  <2> HIDE DEF k
  <2>5. [S \in SUBSET DOMAIN parts |-> k[S]]
          = [S \in SUBSET DOMAIN parts |->
               IF S = {} THEN t ELSE Numbered(parts[Max(S)], k[S \ {Max(S)}])]
    BY <2>3
  <2> QED
    BY <2>4, <2>5 DEF TakesParts
<1> QED
  BY <1>5

(* A text after no part, one part, ..., all parts of a chain.               *)
Stages(stage, parts, t, n) ==
  stage[0] = t /\ \A k \in 1 .. n : stage[k] = Numbered(parts[k], stage[k - 1])

(* The last stage is the text that all parts leave (_scrub.py:339-342).     *)
LEMMA AfterStages ==
  ASSUME NEW n \in Nat, NEW parts, DOMAIN parts = 1 .. n, NEW t
  PROVE  \E stage : Stages(stage, parts, t, n) /\ After(parts, t) = stage[n]
<1> DEFINE h == CHOOSE g : TakesParts(g, parts, t)
           stage == [k \in 0 .. n |-> h[1 .. k]]
<1>1. TakesParts(h, parts, t)
  <2>1. \E g : TakesParts(g, parts, t)
    BY TakesPartsExists
  <2> QED
    BY <2>1, Zenon
<1>2. After(parts, t) = h[DOMAIN parts]
  BY DEF After
<1> HIDE DEF h
<1>3. \A S \in SUBSET DOMAIN parts :
        h[S] = IF S = {} THEN t ELSE Numbered(parts[Max(S)], h[S \ {Max(S)}])
  BY <1>1 DEF TakesParts
<1>4. ASSUME NEW k \in 1 .. n PROVE stage[k] = Numbered(parts[k], stage[k - 1])
  <2> DEFINE S == 1 .. k
  <2>1. S \in SUBSET DOMAIN parts /\ S # {} /\ k \in S
    <3>1. \A i \in 1 .. k : i \in 1 .. n
      OBVIOUS
    <3>2. k \in 1 .. k
      OBVIOUS
    <3> QED
      BY <3>1, <3>2
  <2>2. Max(S) = k
    <3>1. \A y \in S : k >= y /\ y \in Int
      OBVIOUS
    <3>2. Max(S) \in S /\ \A y \in S : Max(S) >= y
      BY <2>1, <3>1 DEF Max
    <3> QED
      BY <2>1, <3>1, <3>2
  <2>3. S \ {k} = 1 .. k - 1
    OBVIOUS
  <2>4. stage[k] = h[S] /\ stage[k - 1] = h[1 .. k - 1]
    OBVIOUS
  <2> HIDE DEF S, stage
  <2> QED
    BY <1>3, <2>1, <2>2, <2>3, <2>4
<1>5. stage[0] = t
  <2>1. 1 .. 0 = {} /\ stage[0] = h[1 .. 0]
    OBVIOUS
  <2>2. {} \in SUBSET DOMAIN parts
    OBVIOUS
  <2> HIDE DEF stage
  <2> QED
    BY <1>3, <2>1, <2>2
<1>6. stage[n] = After(parts, t)
  BY <1>2
<1> HIDE DEF stage
<1> QED
  BY <1>4, <1>5, <1>6 DEF Stages

(* Part k is the first to read a piece, and the places whose piece it is.   *)
ReadFirst(parts, k, p) ==
  k \in DOMAIN parts /\ Reads(parts[k], p) /\ \A j \in 1 .. k - 1 : ~Reads(parts[j], p)

Mine(parts, k, t) == {i \in DOMAIN t : ReadFirst(parts, k, t[i])}
Keys(s, t)        == [i \in DOMAIN t |-> Same(s, t[i])]

(* What stands at a place once part k has read it.                          *)
Written(parts, k, t, at) ==
  LET rank == RankOf(Keys(parts[k], t), Mine(parts, k, t), at)
  IN  IF Inside(parts[k], t[at])
      THEN [kind |-> "broken", value |-> <<parts[k].token, rank, t[at].value[2]>>, loud |-> t[at].loud]
      ELSE [kind |-> "token", value |-> <<parts[k].token, rank>>, loud |-> FALSE]

(* No scrubber reads what a scrubber wrote.                                 *)
LEMMA WrittenUnread ==
  ASSUME NEW s \in Simple, NEW parts, NEW k, NEW t, NEW at
  PROVE  ~Reads(s, Written(parts, k, t, at)) /\ Written(parts, k, t, at).kind \notin Kinds
<1>1. Written(parts, k, t, at).kind \in {"token", "broken"}
  BY DEF Written
<1>2. s.matches \subseteq Kinds
  <2>1. CASE s \in Patterns
    BY <2>1, PatternsAssumption DEF Kinds
  <2> QED
    BY <2>1 DEF Simple, IsoDates, IsoTimestamps, Uuids, HexIds, Kinds
<1> HIDE DEF Written
<1> QED
  BY <1>1, <1>2 DEF Reads, Kinds

(* The first part that reads a piece.                                       *)
LEMMA SomeFirst ==
  ASSUME NEW n \in Nat, NEW parts, DOMAIN parts = 1 .. n, NEW p, NEW m \in 0 .. n,
         \E j \in 1 .. m : Reads(parts[j], p)
  PROVE  \E j \in 1 .. m : ReadFirst(parts, j, p)
<1> DEFINE T == {j \in 1 .. m : Reads(parts[j], p)}
<1>1. T \in SUBSET Nat /\ T # {}
  OBVIOUS
<1>2. PICK j \in T : \A k \in T : j <= k
  <2> HIDE DEF T
  <2> QED
    BY <1>1, LeastElement
<1>3. \A k \in 1 .. j - 1 : ~Reads(parts[k], p)
  <2> SUFFICES ASSUME NEW k \in 1 .. j - 1, Reads(parts[k], p) PROVE FALSE
    OBVIOUS
  <2>1. k \in T /\ k < j /\ j \in Int
    OBVIOUS
  <2> QED
    BY <1>2, <2>1
<1>4. j \in 1 .. m /\ j \in DOMAIN parts /\ Reads(parts[j], p)
  OBVIOUS
<1> QED
  BY <1>3, <1>4 DEF ReadFirst

(* A scrubber's number is a rank among what it reads.                       *)
LEMMA NumberIsRank ==
  ASSUME NEW s, NEW len \in Nat, NEW x, DOMAIN x = 1 .. len, NEW at \in 1 .. len,
         Reads(s, x[at])
  PROVE  Number(s, x, at) = RankOf(Keys(s, x), {i \in DOMAIN x : Reads(s, x[i])}, at)
<1> DEFINE M == {i \in DOMAIN x : Reads(s, x[i])}
           key == Keys(s, x)
<1>1. \A i \in 1 .. len : key[i] = Same(s, x[i]) /\ (i \in M <=> Reads(s, x[i]))
  BY DEF Keys
<1> HIDE DEF M, key
<1>2. ASSUME NEW i \in 1 .. at PROVE i \in 1 .. len
  OBVIOUS
<1>3. Twins(key, M, at) = {i \in 1 .. at : Reads(s, x[i]) /\ Same(s, x[i]) = Same(s, x[at])}
  BY <1>1, <1>2 DEF Twins
<1>4. SeenBy(key, M, at) = {Same(s, x[i]) : i \in {j \in 1 .. FirstOf(key, M, at) : Reads(s, x[j])}}
  <2> SUFFICES {j \in 1 .. FirstOf(key, M, at) : j \in M}
                 = {j \in 1 .. FirstOf(key, M, at) : Reads(s, x[j])}
               /\ \A j \in M : key[j] = Same(s, x[j])
    BY DEF SeenBy
  <2>1. \A j \in M : key[j] = Same(s, x[j])
    BY DEF M, key, Keys
  <2>2. ASSUME NEW j, Reads(s, x[j]), j \in 1 .. FirstOf(key, M, at) PROVE j \in M
    <3>1. M \in SUBSET (Nat \ {0}) /\ at \in M
      BY DEF M
    <3>2. FirstOf(key, M, at) \in M /\ FirstOf(key, M, at) <= at
      BY <3>1, FirstFacts
    <3>3. FirstOf(key, M, at) \in Int
      <4>1. \A m \in M : m \in Int
        BY DEF M
      <4> QED
        BY <3>2, <4>1
    <3>4. j \in DOMAIN x
      BY <2>2, <3>2, <3>3
    <3> QED
      BY <2>2, <3>4 DEF M
  <2> QED
    BY <2>1, <2>2 DEF M
<1> QED
  BY <1>3, <1>4 DEF Number, RankOf, FirstOf, M, key

-----------------------------------------------------------------------------
(* Each stage of a chain: what no part has read is as it was, and what one  *)
(* has is as the first of them wrote it.                                    *)
StageOf(x, parts, t, k) ==
  /\ x = [i \in DOMAIN t |-> x[i]]
  /\ \A i \in DOMAIN t :
       /\ (\A j \in 1 .. k : ~Reads(parts[j], t[i])) => x[i] = t[i]
       /\ \A j \in 1 .. k : ReadFirst(parts, j, t[i]) => x[i] = Written(parts, j, t, i)

(* A part reads what the parts before it left unread, and leaves what they  *)
(* wrote alone.                                                             *)
LEMMA NextStage ==
  ASSUME NEW n \in Nat, NEW parts \in [1 .. n -> Simple], NEW len \in Nat, NEW t, DOMAIN t = 1 .. len,
         NEW k \in 0 .. n - 1, NEW x, StageOf(x, parts, t, k)
  PROVE  StageOf(Numbered(parts[k + 1], x), parts, t, k + 1)
<1> DEFINE s == parts[k + 1]
           y == Numbered(s, x)
           M == Mine(parts, k + 1, t)
           Early(i) == \E j \in 1 .. k : Reads(parts[j], t[i])
<1>1. s \in Simple /\ k + 1 \in 1 .. n /\ DOMAIN parts = 1 .. n
  OBVIOUS
<1>2. DOMAIN x = 1 .. len
  BY DEF StageOf
<1>3. ASSUME NEW i \in 1 .. len, ~Early(i)
      PROVE  x[i] = t[i] /\ (Reads(s, x[i]) <=> i \in M)
  <2>1. x[i] = t[i]
    BY <1>3 DEF StageOf
  <2>2. ReadFirst(parts, k + 1, t[i]) <=> Reads(s, t[i])
    <3>1. 1 .. (k + 1) - 1 = 1 .. k
      OBVIOUS
    <3> QED
      BY <1>1, <1>3, <3>1 DEF ReadFirst
  <2> QED
    BY <2>1, <2>2 DEF Mine
<1>4. ASSUME NEW i \in 1 .. len, Early(i)
      PROVE  /\ ~Reads(s, x[i]) /\ i \notin M
             /\ \A j \in 1 .. k + 1 : ReadFirst(parts, j, t[i]) => j \in 1 .. k
  <2>1. PICK j \in 1 .. k : ReadFirst(parts, j, t[i])
    <3>1. k \in 0 .. n
      OBVIOUS
    <3> QED
      BY <1>1, <1>4, <3>1, SomeFirst
  <2>2. x[i] = Written(parts, j, t, i)
    BY <2>1 DEF StageOf
  <2>3. ~Reads(s, x[i])
    BY <1>1, <2>2, WrittenUnread
  <2>4. ~ReadFirst(parts, k + 1, t[i])
    <3>1. j \in 1 .. (k + 1) - 1 /\ Reads(parts[j], t[i])
      BY <2>1 DEF ReadFirst
    <3> QED
      BY <3>1 DEF ReadFirst
  <2>5. \A m \in 1 .. k + 1 : m \in 1 .. k \/ m = k + 1
    OBVIOUS
  <2> QED
    BY <2>3, <2>4, <2>5 DEF Mine
<1> HIDE DEF s
<1>5. {i \in DOMAIN x : Reads(s, x[i])} = M
  <2>1. M \subseteq 1 .. len
    BY DEF Mine
  <2> HIDE DEF M, Early
  <2> QED
    BY <1>2, <1>3, <1>4, <2>1
<1>6. ASSUME NEW i \in M
      PROVE  i \in 1 .. len /\ ~Early(i) /\ x[i] = t[i] /\ Reads(s, x[i])
             /\ Number(s, x, i) = RankOf(Keys(s, t), M, i)
  <2>1. i \in 1 .. len
    BY DEF Mine
  <2>2. ~Early(i) /\ x[i] = t[i] /\ Reads(s, x[i])
    <3> HIDE DEF M, Early
    <3> QED
      BY <1>3, <1>4, <2>1
  <2>3. Number(s, x, i) = RankOf(Keys(s, x), M, i)
    <3> HIDE DEF M, Early
    <3> QED
      BY <1>2, <1>5, <2>1, <2>2, NumberIsRank
  <2>4. \A j \in M : Keys(s, x)[j] = Keys(s, t)[j]
    <3>1. ASSUME NEW j \in M PROVE j \in 1 .. len /\ x[j] = t[j]
      <4>1. j \in 1 .. len
        BY DEF Mine
      <4> HIDE DEF M, Early
      <4> QED
        BY <1>3, <1>4, <4>1
    <3> QED
      BY <1>2, <3>1 DEF Keys
  <2>5. RankOf(Keys(s, x), M, i) = RankOf(Keys(s, t), M, i)
    <3>1. M \in SUBSET (Nat \ {0})
      BY DEF Mine
    <3> HIDE DEF M, Early
    <3>2. \A a, b \in M : Keys(s, x)[a] = Keys(s, x)[b] <=> Keys(s, t)[a] = Keys(s, t)[b]
      BY <2>4
    <3> QED
      BY <3>1, <3>2, RankAlike
  <2> QED
    BY <2>1, <2>2, <2>3, <2>5
<1>7. ASSUME NEW i \in M PROVE y[i] = Written(parts, k + 1, t, i)
  <2>1. i \in DOMAIN x /\ x[i] = t[i] /\ Reads(s, x[i]) /\ Number(s, x, i) = RankOf(Keys(s, t), M, i)
    BY <1>2, <1>6
  <2> HIDE DEF M
  <2>2. y[i] = IF Inside(s, t[i])
               THEN [kind |-> "broken", value |-> <<s.token, Number(s, x, i), t[i].value[2]>>,
                     loud |-> t[i].loud]
               ELSE [kind |-> "token", value |-> <<s.token, Number(s, x, i)>>, loud |-> FALSE]
    BY <2>1 DEF Numbered
  <2> QED
    BY <2>1, <2>2 DEF Written, s, M
<1>8. ASSUME NEW i \in 1 .. len, i \notin M PROVE y[i] = x[i]
  <2>1. ~Reads(s, x[i])
    <3> HIDE DEF M, Early
    <3> QED
      BY <1>3, <1>4, <1>8
  <2> QED
    BY <1>2, <2>1 DEF Numbered
<1>9. y = [i \in DOMAIN t |-> y[i]]
  BY <1>2 DEF Numbered
<1> HIDE DEF y, M, Early
<1>10. ASSUME NEW i \in 1 .. len, \A j \in 1 .. k + 1 : ~Reads(parts[j], t[i]) PROVE y[i] = t[i]
  <2>1. ~Early(i)
    BY <1>10 DEF Early
  <2>2. ~Reads(s, t[i])
    BY <1>10 DEF s
  <2>3. x[i] = t[i] /\ i \notin M
    BY <1>3, <2>1, <2>2
  <2> QED
    BY <1>8, <2>3
<1>11. ASSUME NEW i \in 1 .. len, NEW j \in 1 .. k + 1, ReadFirst(parts, j, t[i])
       PROVE  y[i] = Written(parts, j, t, i)
  <2>1. CASE j = k + 1
    <3>1. i \in M
      BY <1>11, <2>1 DEF M, Mine
    <3> QED
      BY <1>7, <2>1, <3>1
  <2>2. CASE j \in 1 .. k
    <3>1. Early(i)
      BY <1>11, <2>2 DEF Early, ReadFirst
    <3>2. x[i] = Written(parts, j, t, i)
      BY <1>11, <2>2 DEF StageOf
    <3> QED
      BY <1>4, <1>8, <3>1, <3>2
  <2> QED
    BY <2>1, <2>2
<1> QED
  BY <1>9, <1>10, <1>11 DEF StageOf, y, s

(* The text that a chain leaves.                                            *)
LEMMA ScrubbedIs ==
  ASSUME NEW scrubber, NEW n \in Nat, scrubber.parts \in [1 .. n -> Simple],
         NEW len \in Nat, NEW t \in [1 .. len -> Pieces]
  PROVE  StageOf(Scrubbed(scrubber, t), scrubber.parts, t, n)
<1> DEFINE parts == scrubber.parts
<1>1. PICK stage : Stages(stage, parts, t, n) /\ After(parts, t) = stage[n]
  <2>1. DOMAIN parts = 1 .. n
    OBVIOUS
  <2> HIDE DEF parts
  <2> QED
    BY <2>1, AfterStages
<1>2. Scrubbed(scrubber, t) = After(parts, t)
  BY ScrubbedIsAfter, Zenon
<1> DEFINE S == {k \in 0 .. n : StageOf(stage[k], parts, t, k)}
<1>3. parts \in [1 .. n -> Simple]
  OBVIOUS
<1> HIDE DEF parts
<1>4. 0 \in S
  <2>1. stage[0] = t
    BY <1>1 DEF Stages
  <2>2. StageOf(t, parts, t, 0)
    BY DEF StageOf
  <2> QED
    BY <2>1, <2>2
<1>5. ASSUME NEW k \in 0 .. n - 1, k \in S PROVE k + 1 \in S
  <2>1. stage[k + 1] = Numbered(parts[k + 1], stage[k])
    <3>1. k + 1 \in 1 .. n /\ (k + 1) - 1 = k
      OBVIOUS
    <3> QED
      BY <1>1, <3>1 DEF Stages
  <2>2. StageOf(stage[k], parts, t, k)
    BY <1>5
  <2>3. StageOf(Numbered(parts[k + 1], stage[k]), parts, t, k + 1)
    BY <1>3, <2>2, NextStage
  <2> QED
    BY <2>1, <2>3
<1>6. n \in S
  <2> HIDE DEF S
  <2>1. 0 .. n \subseteq S
    BY <1>4, <1>5, InductionTo
  <2> QED
    BY <2>1
<1> QED
  BY <1>1, <1>2, <1>6 DEF parts

(* A part reads whole values of one kind, but for hex_ids, which also reads *)
(* the starts of uuids.                                                     *)
LEMMA InsideIs ==
  ASSUME NEW s \in Simple, NEW p \in Pieces, Reads(s, p), Inside(s, p)
  PROVE  s = HexIds /\ p.kind = "uuid" /\ p.value = <<p.value[1], p.value[2]>>
<1>1. s \notin Patterns
  BY PatternsAssumption DEF Reads, Inside
<1> QED
  BY <1>1, PiecesAssumption DEF Simple, IsoDates, IsoTimestamps, Uuids, HexIds, Inside

(* Two values a part reads whole are of one kind, and letters tell them     *)
(* apart unless the part folds them (_scrub.py:92-93, 170, 184).            *)
LEMMA OneKind ==
  ASSUME NEW s \in Simple, NEW p \in Pieces, NEW q \in Pieces,
         Reads(s, p), Reads(s, q), ~Inside(s, p), ~Inside(s, q)
  PROVE  p.kind = q.kind /\ (s.folds <=> p.kind \in Ids)
<1>1. CASE s \in Patterns
  BY <1>1, PatternsAssumption DEF Reads, Ids
<1>2. CASE s \in {IsoDates, IsoTimestamps, Uuids, HexIds}
  BY <1>2 DEF IsoDates, IsoTimestamps, Uuids, HexIds, Reads, Real, Inside, Ids
<1> QED
  BY <1>1, <1>2 DEF Simple

(* A part gives two whole values one number exactly if they are equal.      *)
LEMMA SameIsEqual ==
  ASSUME NEW s \in Simple, NEW p \in Pieces, NEW q \in Pieces,
         Reads(s, p), Reads(s, q), ~Inside(s, p), ~Inside(s, q)
  PROVE  Same(s, p) = Same(s, q) <=> Equal(p, q)
<1>1. p.kind = q.kind /\ (s.folds <=> p.kind \in Ids)
  BY OneKind
<1>2. p.loud \in BOOLEAN /\ q.loud \in BOOLEAN
  BY PiecesAssumption
<1>3. Same(s, p) = <<p.value, p.loud /\ ~s.folds>> /\ Same(s, q) = <<q.value, q.loud /\ ~s.folds>>
  BY DEF Same
<1>4. Same(s, p) = Same(s, q) <=> p.value = q.value /\ ((p.loud /\ ~s.folds) = (q.loud /\ ~s.folds))
  BY <1>3
<1>5. CASE s.folds
  BY <1>1, <1>4, <1>5 DEF Equal
<1>6. CASE ~s.folds
  BY <1>1, <1>2, <1>4, <1>6 DEF Equal
<1> QED
  BY <1>5, <1>6

(* And two uuids whose starts it reads, as hex_ids does, are equal exactly  *)
(* if the starts and the rests are (_scrub.py:182-186).                     *)
LEMMA SameGroup ==
  ASSUME NEW s \in Simple, NEW p \in Pieces, NEW q \in Pieces,
         Reads(s, p), Reads(s, q), Inside(s, p), Inside(s, q)
  PROVE  Equal(p, q) <=> Same(s, p) = Same(s, q) /\ p.value[2] = q.value[2]
<1>1. /\ s = HexIds /\ p.kind = "uuid" /\ p.value = <<p.value[1], p.value[2]>>
      /\ q.kind = "uuid" /\ q.value = <<q.value[1], q.value[2]>>
  BY InsideIs
<1>2. s.folds = TRUE
  BY <1>1 DEF HexIds
<1>3. Same(s, p) = <<<<p.value[1]>>, p.loud /\ ~s.folds>> /\ Same(s, q) = <<<<q.value[1]>>, q.loud /\ ~s.folds>>
  BY DEF Same
<1>4. Same(s, p) = Same(s, q) <=> p.value[1] = q.value[1]
  <2>1. (p.loud /\ ~s.folds) = FALSE /\ (q.loud /\ ~s.folds) = FALSE
    BY <1>2
  <2> QED
    BY <1>3, <2>1
<1>5. p.value = q.value <=> p.value[1] = q.value[1] /\ p.value[2] = q.value[2]
  BY <1>1
<1> QED
  BY <1>1, <1>4, <1>5 DEF Equal, Ids

(* Which part reads a piece first depends on its kind alone.                *)
LEMMA KindDecides ==
  ASSUME NEW parts, NEW k, NEW p, NEW q, p.kind = q.kind
  PROVE  /\ ReadFirst(parts, k, p) <=> ReadFirst(parts, k, q)
         /\ \A s : Reads(s, p) <=> Reads(s, q)
         /\ \A s : Inside(s, p) <=> Inside(s, q)
BY DEF ReadFirst, Reads, Real, Inside

-----------------------------------------------------------------------------
(* The output of a chain of such parts, no two of which write one name.     *)
Distinct(parts) == \A j, k \in DOMAIN parts : parts[j].token = parts[k].token => j = k

Unread(parts, p) == \A j \in DOMAIN parts : ~Reads(parts[j], p)

RankIn(parts, j, t, i) == RankOf(Keys(parts[j], t), Mine(parts, j, t), i)

PlaceIs(x, parts, t, i) ==
  /\ Unread(parts, t[i]) => x[i] = t[i] /\ x[i].kind \in Kinds
  /\ ~Unread(parts, t[i]) =>
       \E j \in DOMAIN parts : ReadFirst(parts, j, t[i]) /\ x[i] = Written(parts, j, t, i)

(* What stands at a place is what was there, or what the first part that    *)
(* reads it wrote.                                                          *)
LEMMA PlaceFacts ==
  ASSUME NEW n \in Nat, NEW parts \in [1 .. n -> Simple],
         NEW len \in Nat, NEW t \in [1 .. len -> Pieces], NEW x, StageOf(x, parts, t, n),
         NEW i \in 1 .. len
  PROVE  PlaceIs(x, parts, t, i)
<1>1. t[i] \in Pieces /\ t[i].kind \in Kinds /\ DOMAIN parts = 1 .. n /\ DOMAIN t = 1 .. len
  BY PiecesAssumption
<1>2. Unread(parts, t[i]) => x[i] = t[i]
  BY <1>1 DEF Unread, StageOf
<1>3. ASSUME ~Unread(parts, t[i])
      PROVE  \E j \in 1 .. n : ReadFirst(parts, j, t[i]) /\ x[i] = Written(parts, j, t, i)
  <2>1. n \in 0 .. n /\ \E j \in 1 .. n : Reads(parts[j], t[i])
    BY <1>1, <1>3 DEF Unread
  <2>2. PICK j \in 1 .. n : ReadFirst(parts, j, t[i])
    BY <1>1, <2>1, SomeFirst
  <2> QED
    BY <1>1, <2>2 DEF StageOf
<1> QED
  BY <1>1, <1>2, <1>3 DEF PlaceIs

(* What is written tells the part, whether a piece was read whole, and the  *)
(* number.                                                                  *)
LEMMA WrittenTells ==
  ASSUME NEW parts, NEW j, NEW k, NEW t, NEW u, NEW i,
         Written(parts, j, t, i) = Written(parts, k, u, i)
  PROVE  /\ parts[j].token = parts[k].token
         /\ Inside(parts[j], t[i]) <=> Inside(parts[k], u[i])
         /\ RankIn(parts, j, t, i) = RankIn(parts, k, u, i)
         /\ Inside(parts[j], t[i]) => t[i].value[2] = u[i].value[2]
<1>1. CASE Inside(parts[j], t[i])
  <2>1. Written(parts, j, t, i).kind = "broken"
    BY <1>1 DEF Written
  <2>2. Inside(parts[k], u[i])
    BY <2>1 DEF Written
  <2>3. /\ Written(parts, j, t, i).value = <<parts[j].token, RankIn(parts, j, t, i), t[i].value[2]>>
        /\ Written(parts, k, u, i).value = <<parts[k].token, RankIn(parts, k, u, i), u[i].value[2]>>
    BY <1>1, <2>2 DEF Written, RankIn
  <2> QED
    BY <1>1, <2>2, <2>3
<1>2. CASE ~Inside(parts[j], t[i])
  <2>1. Written(parts, j, t, i).kind = "token"
    BY <1>2 DEF Written
  <2>2. ~Inside(parts[k], u[i])
    BY <2>1 DEF Written
  <2>3. /\ Written(parts, j, t, i).value = <<parts[j].token, RankIn(parts, j, t, i)>>
        /\ Written(parts, k, u, i).value = <<parts[k].token, RankIn(parts, k, u, i)>>
    BY <1>2, <2>2 DEF Written, RankIn
  <2> QED
    BY <1>2, <2>2, <2>3
<1> QED
  BY <1>1, <1>2

(* The same kinds at the same places, equal values at the same places, and  *)
(* the same pieces where no part reads.                                     *)
OnlyRunsDiffer(parts, t, u) ==
  /\ \A i \in DOMAIN t : t[i].kind = u[i].kind
  /\ \A i, j \in DOMAIN t : Equal(t[i], t[j]) <=> Equal(u[i], u[j])
  /\ \A i \in DOMAIN t : Unread(parts, t[i]) => t[i] = u[i]

(* Where two texts of one output were read.                                 *)
LEMMA ReadAlike ==
  ASSUME NEW n \in Nat, NEW parts \in [1 .. n -> Simple], Distinct(parts),
         NEW len \in Nat, NEW t \in [1 .. len -> Pieces], NEW u \in [1 .. len -> Pieces],
         NEW x, StageOf(x, parts, t, n), StageOf(x, parts, u, n), NEW i \in 1 .. len
  PROVE  /\ Unread(parts, t[i]) => t[i] = u[i]
         /\ t[i].kind = u[i].kind
         /\ ~Unread(parts, t[i]) =>
              \E j \in 1 .. n : /\ ReadFirst(parts, j, t[i]) /\ ReadFirst(parts, j, u[i])
                                /\ RankIn(parts, j, t, i) = RankIn(parts, j, u, i)
                                /\ Inside(parts[j], t[i]) => t[i].value[2] = u[i].value[2]
<1>0. DOMAIN parts = 1 .. n /\ PlaceIs(x, parts, t, i) /\ PlaceIs(x, parts, u, i)
  BY PlaceFacts
<1>1. \A j \in 1 .. n : parts[j] \in Simple /\ j \in DOMAIN parts
  OBVIOUS
<1>2. t[i] \in Pieces /\ u[i] \in Pieces
  OBVIOUS
<1>3. ASSUME NEW v, NEW w, PlaceIs(x, parts, v, i), PlaceIs(x, parts, w, i), Unread(parts, v[i])
      PROVE  Unread(parts, w[i]) /\ v[i] = w[i]
  <2>1. x[i] = v[i] /\ x[i].kind \in Kinds
    BY <1>3 DEF PlaceIs
  <2>2. Unread(parts, w[i])
    <3> SUFFICES ASSUME ~Unread(parts, w[i]) PROVE FALSE
      OBVIOUS
    <3>1. PICK j \in 1 .. n : ReadFirst(parts, j, w[i]) /\ x[i] = Written(parts, j, w, i)
      BY <1>0, <1>3 DEF PlaceIs
    <3>2. Written(parts, j, w, i).kind \notin Kinds
      BY <1>1, WrittenUnread
    <3> QED
      BY <2>1, <3>1, <3>2
  <2>3. x[i] = w[i]
    BY <1>3, <2>2 DEF PlaceIs
  <2> QED
    BY <2>1, <2>2, <2>3
<1>4. CASE Unread(parts, t[i])
  BY <1>0, <1>3, <1>4
<1>5. CASE ~Unread(parts, t[i])
  <2>1. ~Unread(parts, u[i])
    BY <1>0, <1>3, <1>5
  <2>2. PICK j \in 1 .. n : ReadFirst(parts, j, t[i]) /\ x[i] = Written(parts, j, t, i)
    BY <1>0, <1>5 DEF PlaceIs
  <2>3. PICK k \in 1 .. n : ReadFirst(parts, k, u[i]) /\ x[i] = Written(parts, k, u, i)
    BY <1>0, <2>1 DEF PlaceIs
  <2>4. /\ parts[j].token = parts[k].token
        /\ Inside(parts[j], t[i]) <=> Inside(parts[k], u[i])
        /\ RankIn(parts, j, t, i) = RankIn(parts, k, u, i)
        /\ Inside(parts[j], t[i]) => t[i].value[2] = u[i].value[2]
    <3>1. Written(parts, j, t, i) = Written(parts, k, u, i)
      BY <2>2, <2>3
    <3> QED
      BY <3>1, WrittenTells
  <2>5. j = k
    BY <1>1, <2>4 DEF Distinct
  <2>6. Reads(parts[j], t[i]) /\ Reads(parts[j], u[i])
    BY <2>2, <2>3, <2>5 DEF ReadFirst
  <2>7. t[i].kind = u[i].kind
    <3>1. CASE Inside(parts[j], t[i])
      BY <1>1, <1>2, <2>4, <2>5, <2>6, <3>1, InsideIs
    <3>2. CASE ~Inside(parts[j], t[i])
      BY <1>1, <1>2, <2>4, <2>5, <2>6, <3>2, OneKind
    <3> QED
      BY <3>1, <3>2
  <2> QED
    BY <1>5, <2>2, <2>3, <2>4, <2>5, <2>7
<1> QED
  BY <1>4, <1>5

(* Two places one part reads first have one number exactly if they have one *)
(* value.                                                                   *)
LEMMA RankInTells ==
  ASSUME NEW n \in Nat, NEW parts \in [1 .. n -> Simple],
         NEW len \in Nat, NEW t \in [1 .. len -> Pieces], NEW j \in 1 .. n,
         NEW a \in 1 .. len, NEW b \in 1 .. len, ReadFirst(parts, j, t[a]), ReadFirst(parts, j, t[b])
  PROVE  RankIn(parts, j, t, a) = RankIn(parts, j, t, b) <=> Same(parts[j], t[a]) = Same(parts[j], t[b])
<1> DEFINE M == Mine(parts, j, t)
           key == Keys(parts[j], t)
<1>1. M \in SUBSET (Nat \ {0}) /\ a \in M /\ b \in M
  BY DEF Mine
<1>2. key[a] = Same(parts[j], t[a]) /\ key[b] = Same(parts[j], t[b])
  BY DEF Keys
<1> HIDE DEF M, key
<1>3. RankOf(key, M, a) = RankOf(key, M, b) <=> key[a] = key[b]
  BY <1>1, RankTells
<1> QED
  BY <1>2, <1>3 DEF RankIn, M, key

(* Nothing but run-to-run values is hidden.                                 *)
LEMMA OutputsTell ==
  ASSUME NEW n \in Nat, NEW parts \in [1 .. n -> Simple], Distinct(parts),
         NEW len \in Nat, NEW t \in [1 .. len -> Pieces], NEW u \in [1 .. len -> Pieces],
         NEW x, StageOf(x, parts, t, n), StageOf(x, parts, u, n)
  PROVE  OnlyRunsDiffer(parts, t, u)
<1>1. ASSUME NEW i \in 1 .. len
      PROVE  /\ t[i] \in Pieces /\ u[i] \in Pieces /\ t[i].kind = u[i].kind
             /\ Unread(parts, t[i]) => t[i] = u[i]
  BY ReadAlike
<1>2. ASSUME NEW i \in 1 .. len, NEW k \in 1 .. len, t[i].kind = t[k].kind
      PROVE  Equal(t[i], t[k]) <=> Equal(u[i], u[k])
  <2>1. u[i].kind = u[k].kind /\ u[i].kind = t[i].kind
    BY <1>1, <1>2
  <2>2. Unread(parts, t[i]) <=> Unread(parts, t[k])
    BY <1>2, KindDecides DEF Unread
  <2>3. CASE Unread(parts, t[i])
    BY <1>1, <2>2, <2>3
  <2>4. CASE ~Unread(parts, t[i])
    <3>1. PICK j \in 1 .. n : /\ ReadFirst(parts, j, t[i]) /\ ReadFirst(parts, j, u[i])
                              /\ RankIn(parts, j, t, i) = RankIn(parts, j, u, i)
                              /\ Inside(parts[j], t[i]) => t[i].value[2] = u[i].value[2]
      BY <2>4, ReadAlike
    <3>2. PICK m \in 1 .. n : /\ ReadFirst(parts, m, t[k]) /\ ReadFirst(parts, m, u[k])
                              /\ RankIn(parts, m, t, k) = RankIn(parts, m, u, k)
                              /\ Inside(parts[m], t[k]) => t[k].value[2] = u[k].value[2]
      BY <2>2, <2>4, ReadAlike
    <3>3. m = j
      <4>1. ReadFirst(parts, j, t[k])
        BY <1>2, <3>1, KindDecides
      <4>2. \A a, b \in 1 .. n : ReadFirst(parts, a, t[k]) /\ ReadFirst(parts, b, t[k]) => ~(a < b)
        BY DEF ReadFirst
      <4> QED
        BY <3>2, <4>1, <4>2
    <3>4. /\ RankIn(parts, j, t, i) = RankIn(parts, j, t, k)
               <=> Same(parts[j], t[i]) = Same(parts[j], t[k])
          /\ RankIn(parts, j, u, i) = RankIn(parts, j, u, k)
               <=> Same(parts[j], u[i]) = Same(parts[j], u[k])
      <4>1. ASSUME NEW v \in [1 .. len -> Pieces], ReadFirst(parts, j, v[i]), ReadFirst(parts, j, v[k])
            PROVE  RankIn(parts, j, v, i) = RankIn(parts, j, v, k)
                     <=> Same(parts[j], v[i]) = Same(parts[j], v[k])
        BY <4>1, RankInTells
      <4> QED
        BY <3>1, <3>2, <3>3, <4>1
    <3>5. Same(parts[j], t[i]) = Same(parts[j], t[k]) <=> Same(parts[j], u[i]) = Same(parts[j], u[k])
      BY <3>1, <3>2, <3>3, <3>4
    <3>6. /\ parts[j] \in Simple /\ Reads(parts[j], t[i]) /\ Reads(parts[j], t[k])
          /\ Reads(parts[j], u[i]) /\ Reads(parts[j], u[k])
      BY <3>1, <3>2, <3>3 DEF ReadFirst
    <3>7. /\ Inside(parts[j], t[i]) <=> Inside(parts[j], t[k])
          /\ Inside(parts[j], t[i]) <=> Inside(parts[j], u[i])
          /\ Inside(parts[j], t[i]) <=> Inside(parts[j], u[k])
      BY <1>2, <2>1, KindDecides
    <3>8. CASE Inside(parts[j], t[i])
      <4>1. /\ Equal(t[i], t[k]) <=> Same(parts[j], t[i]) = Same(parts[j], t[k]) /\ t[i].value[2] = t[k].value[2]
            /\ Equal(u[i], u[k]) <=> Same(parts[j], u[i]) = Same(parts[j], u[k]) /\ u[i].value[2] = u[k].value[2]
        BY <1>1, <3>6, <3>7, <3>8, SameGroup
      <4> QED
        BY <3>1, <3>2, <3>3, <3>5, <3>7, <3>8, <4>1
    <3>9. CASE ~Inside(parts[j], t[i])
      <4>1. /\ Same(parts[j], t[i]) = Same(parts[j], t[k]) <=> Equal(t[i], t[k])
            /\ Same(parts[j], u[i]) = Same(parts[j], u[k]) <=> Equal(u[i], u[k])
        BY <1>1, <3>6, <3>7, <3>9, SameIsEqual
      <4> QED
        BY <3>5, <4>1
    <3> QED
      BY <3>8, <3>9
  <2> QED
    BY <2>3, <2>4
<1>3. ASSUME NEW i \in 1 .. len, NEW k \in 1 .. len PROVE Equal(t[i], t[k]) <=> Equal(u[i], u[k])
  <2>1. CASE t[i].kind = t[k].kind
    BY <1>2, <2>1
  <2>2. CASE t[i].kind # t[k].kind
    <3>1. u[i].kind # u[k].kind
      BY <1>1, <2>2
    <3> QED
      BY <2>2, <3>1 DEF Equal
  <2> QED
    BY <2>1, <2>2
<1> QED
  BY <1>1, <1>3 DEF OnlyRunsDiffer

(* A chain reads the starts of uuids only where no uuids comes before.      *)
UuidsBefore(parts) ==
  \A k \in DOMAIN parts : parts[k] = HexIds => \E j \in DOMAIN parts : parts[j] = Uuids /\ j < k

(* In such a chain the first part that reads a value reads the whole of it  *)
(* (_scrub.py:186).                                                         *)
LEMMA WholeValues ==
  ASSUME NEW n \in Nat, NEW parts \in [1 .. n -> Simple], UuidsBefore(parts),
         NEW p \in Pieces, NEW j \in 1 .. n, ReadFirst(parts, j, p)
  PROVE  ~Inside(parts[j], p)
<1> SUFFICES ASSUME Inside(parts[j], p) PROVE FALSE
  OBVIOUS
<1>1. parts[j] \in Simple /\ Reads(parts[j], p)
  BY DEF ReadFirst
<1>2. parts[j] = HexIds /\ p.kind = "uuid"
  BY <1>1, InsideIs
<1>3. PICK k \in 1 .. n : parts[k] = Uuids /\ k < j
  BY <1>2 DEF UuidsBefore
<1>4. Reads(parts[k], p)
  BY <1>2, <1>3 DEF Reads, Real, Uuids
<1>5. k \in 1 .. j - 1
  BY <1>3
<1> QED
  BY <1>4, <1>5 DEF ReadFirst

(* And run-to-run values are hidden.                                        *)
LEMMA OutputsAgree ==
  ASSUME NEW n \in Nat, NEW parts \in [1 .. n -> Simple], UuidsBefore(parts),
         NEW len \in Nat, NEW t \in [1 .. len -> Pieces], NEW u \in [1 .. len -> Pieces],
         NEW x, NEW y, StageOf(x, parts, t, n), StageOf(y, parts, u, n), OnlyRunsDiffer(parts, t, u)
  PROVE  x = y
<1>0. ASSUME NEW i \in 1 .. len
      PROVE  DOMAIN parts = 1 .. n /\ PlaceIs(x, parts, t, i) /\ PlaceIs(y, parts, u, i)
  BY PlaceFacts
<1>1. ASSUME NEW i \in 1 .. len
      PROVE  /\ t[i] \in Pieces /\ u[i] \in Pieces /\ t[i].kind = u[i].kind
             /\ Unread(parts, t[i]) => t[i] = u[i]
  BY DEF OnlyRunsDiffer
<1>2. ASSUME NEW i \in 1 .. len, Unread(parts, t[i]) PROVE x[i] = y[i]
  <2>1. Unread(parts, u[i])
    BY <1>1, <1>2
  <2>2. x[i] = t[i]
    BY <1>0, <1>2 DEF PlaceIs
  <2>3. y[i] = u[i]
    BY <1>0, <2>1 DEF PlaceIs
  <2> QED
    BY <1>1, <1>2, <2>2, <2>3
<1>3. ASSUME NEW i \in 1 .. len, ~Unread(parts, t[i]) PROVE x[i] = y[i]
  <2>1. PICK j \in 1 .. n : ReadFirst(parts, j, t[i]) /\ x[i] = Written(parts, j, t, i)
    BY <1>0, <1>3 DEF PlaceIs
  <2>2. ReadFirst(parts, j, u[i])
    BY <1>1, <2>1, KindDecides
  <2>3. y[i] = Written(parts, j, u, i)
    BY <2>2 DEF StageOf
  <2> DEFINE M == Mine(parts, j, t)
  <2>4. M = Mine(parts, j, u) /\ M \in SUBSET (Nat \ {0}) /\ i \in M /\ M \subseteq 1 .. len
    <3>1. \A a \in 1 .. len : ReadFirst(parts, j, t[a]) <=> ReadFirst(parts, j, u[a])
      BY <1>1, KindDecides
    <3> QED
      BY <2>1, <3>1 DEF Mine
  <2>5. ASSUME NEW a \in M
        PROVE  /\ a \in 1 .. len /\ t[a] \in Pieces /\ u[a] \in Pieces
               /\ Reads(parts[j], t[a]) /\ Reads(parts[j], u[a])
               /\ ~Inside(parts[j], t[a]) /\ ~Inside(parts[j], u[a])
    <3>1. a \in 1 .. len /\ t[a] \in Pieces /\ u[a] \in Pieces
      BY <2>4
    <3>2. ReadFirst(parts, j, t[a]) /\ ReadFirst(parts, j, u[a])
      BY <2>4 DEF Mine
    <3>3. ~Inside(parts[j], t[a]) /\ ~Inside(parts[j], u[a])
      BY <3>1, <3>2, WholeValues
    <3> QED
      BY <3>1, <3>2, <3>3 DEF ReadFirst
  <2> HIDE DEF M
  <2>6. ASSUME NEW a \in M, NEW b \in M
        PROVE  Keys(parts[j], t)[a] = Keys(parts[j], t)[b] <=> Keys(parts[j], u)[a] = Keys(parts[j], u)[b]
    <3>1. parts[j] \in Simple
      OBVIOUS
    <3>2. /\ Same(parts[j], t[a]) = Same(parts[j], t[b]) <=> Equal(t[a], t[b])
          /\ Same(parts[j], u[a]) = Same(parts[j], u[b]) <=> Equal(u[a], u[b])
      BY <2>5, <3>1, SameIsEqual
    <3>3. Equal(t[a], t[b]) <=> Equal(u[a], u[b])
      BY <2>5 DEF OnlyRunsDiffer
    <3>4. /\ Keys(parts[j], t)[a] = Same(parts[j], t[a]) /\ Keys(parts[j], t)[b] = Same(parts[j], t[b])
          /\ Keys(parts[j], u)[a] = Same(parts[j], u[a]) /\ Keys(parts[j], u)[b] = Same(parts[j], u[b])
      BY <2>5 DEF Keys
    <3> QED
      BY <3>2, <3>3, <3>4
  <2>7. RankOf(Keys(parts[j], t), M, i) = RankOf(Keys(parts[j], u), M, i)
    BY <2>4, <2>6, RankAlike
  <2> QED
    BY <2>1, <2>3, <2>4, <2>5, <2>7 DEF Written, M
<1>4. \A i \in 1 .. len : x[i] = y[i]
  BY <1>2, <1>3
<1>5. x = [i \in 1 .. len |-> x[i]] /\ y = [i \in 1 .. len |-> y[i]]
  BY DEF StageOf
<1> QED
  BY <1>4, <1>5

-----------------------------------------------------------------------------
(* The parts of a chain of one scrubber or of two, one after the other.     *)
FlattensTo(f, seqs) ==
  f = [i \in 1 .. Len(seqs) |-> IF i = 1 THEN seqs[i] ELSE f[i - 1] \o seqs[i]]

Flat(seqs) == IF Len(seqs) = 0 THEN seqs ELSE (CHOOSE f : FlattensTo(f, seqs))[Len(seqs)]

(* The parts of several scrubbers are the parts of each in turn.            *)
LEMMA FlattenIsFlat ==
  ASSUME NEW seqs
  PROVE  FlattenSeq(seqs) = Flat(seqs)
BY Zenon DEF FlattenSeq, Flat, FlattensTo

(* Those of one scrubber are its own.                                       *)
LEMMA FlatOne ==
  ASSUME NEW seqs, Len(seqs) = 1
  PROVE  Flat(seqs) = seqs[1]
<1> DEFINE g == [i \in 1 .. 1 |-> seqs[i]]
           f == CHOOSE h : FlattensTo(h, seqs)
<1>1. [i \in 1 .. 1 |-> IF i = 1 THEN seqs[i] ELSE g[i - 1] \o seqs[i]] = g
  <2>1. \A i \in 1 .. 1 : i = 1
    OBVIOUS
  <2> QED
    BY <2>1
<1>2. FlattensTo(g, seqs)
  BY <1>1 DEF FlattensTo
<1>3. FlattensTo(f, seqs)
  <2> HIDE DEF g
  <2> QED
    BY <1>2, Zenon
<1> HIDE DEF f
<1>4. f[1] = seqs[1]
  BY <1>3 DEF FlattensTo
<1> QED
  BY <1>4 DEF Flat, f

(* Those of two are the parts of the first and then of the second.          *)
LEMMA FlatTwo ==
  ASSUME NEW seqs, Len(seqs) = 2
  PROVE  Flat(seqs) = seqs[1] \o seqs[2]
<1> DEFINE g == [i \in 1 .. 2 |-> IF i = 1 THEN seqs[1] ELSE seqs[1] \o seqs[2]]
           f == CHOOSE h : FlattensTo(h, seqs)
<1>1. [i \in 1 .. 2 |-> IF i = 1 THEN seqs[i] ELSE g[i - 1] \o seqs[i]] = g
  <2>1. \A i \in 1 .. 2 : i = 1 \/ i = 2
    OBVIOUS
  <2>2. g[1] = seqs[1]
    OBVIOUS
  <2>3. \A i \in 1 .. 2 : (IF i = 1 THEN seqs[i] ELSE g[i - 1] \o seqs[i])
                            = IF i = 1 THEN seqs[1] ELSE seqs[1] \o seqs[2]
    <3> HIDE DEF g
    <3> QED
      BY <2>1, <2>2
  <2> QED
    BY <2>3
<1>2. FlattensTo(g, seqs)
  BY <1>1 DEF FlattensTo
<1>3. FlattensTo(f, seqs)
  <2> HIDE DEF g
  <2> QED
    BY <1>2, Zenon
<1> HIDE DEF f
<1>4. f[1] = seqs[1] /\ f[2] = f[1] \o seqs[2]
  BY <1>3 DEF FlattensTo
<1>5. Flat(seqs) = f[2]
  BY DEF Flat, f
<1>6. f[2] = seqs[1] \o seqs[2]
  BY <1>4, Zenon
<1> QED
  BY <1>5, <1>6

(* A chain of one scrubber does what the scrubber does (_scrub.py:327-344). *)
LEMMA ChainOfOne ==
  ASSUME NEW s
  PROVE  ChainOf(<<One(s)>>) = [parts |-> <<s>>, numbers |-> {s.token}]
<1> DEFINE scrubbers == <<One(s)>>
           seqs == [k \in DOMAIN scrubbers |-> scrubbers[k].parts]
<1>1. DOMAIN scrubbers = 1 .. 1 /\ scrubbers[1].parts = <<s>> /\ scrubbers[1].numbers = {s.token}
  BY DEF One
<1>2. seqs = <<<<s>>>>
  BY <1>1
<1> HIDE DEF seqs
<1>3. FlattenSeq(seqs) = <<s>>
  <2>1. Len(seqs) = 1 /\ seqs[1] = <<s>>
    BY <1>2
  <2> QED
    BY <2>1, FlatOne, FlattenIsFlat
<1> HIDE DEF scrubbers
<1>4. UNION {scrubbers[k].numbers : k \in DOMAIN scrubbers} = {s.token}
  BY <1>1
<1> QED
  BY <1>3, <1>4 DEF ChainOf, seqs, scrubbers

(* A chain nested before a scrubber keeps its parts and the names it writes *)
(* (_scrub.py:327-342).                                                     *)
LEMMA ChainOfTwo ==
  ASSUME NEW c, NEW s
  PROVE  ChainOf(<<c, One(s)>>) = [parts |-> c.parts \o <<s>>, numbers |-> c.numbers \cup {s.token}]
<1> DEFINE scrubbers == <<c, One(s)>>
           seqs == [k \in DOMAIN scrubbers |-> scrubbers[k].parts]
<1>1. /\ DOMAIN scrubbers = 1 .. 2 /\ scrubbers[1] = c
      /\ scrubbers[2].parts = <<s>> /\ scrubbers[2].numbers = {s.token}
  BY DEF One
<1>2. seqs = <<c.parts, <<s>>>>
  BY <1>1
<1> HIDE DEF seqs
<1>3. FlattenSeq(seqs) = c.parts \o <<s>>
  <2>1. Len(seqs) = 2 /\ seqs[1] = c.parts /\ seqs[2] = <<s>>
    BY <1>2
  <2> QED
    BY <2>1, FlatTwo, FlattenIsFlat
<1> HIDE DEF scrubbers
<1>4. UNION {scrubbers[k].numbers : k \in DOMAIN scrubbers} = c.numbers \cup {s.token}
  <2>1. \A k \in 1 .. 2 : k = 1 \/ k = 2
    OBVIOUS
  <2>2. {scrubbers[k].numbers : k \in DOMAIN scrubbers} = {c.numbers, {s.token}}
    BY <1>1, <2>1
  <2> QED
    BY <2>2
<1> QED
  BY <1>3, <1>4 DEF ChainOf, seqs, scrubbers

-----------------------------------------------------------------------------
(* A chain knows the names of its parts, and no two of them write one.      *)
ScrubInv ==
  /\ chain.parts \in Seq(Simple) /\ Distinct(chain.parts)
  /\ chain.numbers = {chain.parts[k].token : k \in DOMAIN chain.parts}
  /\ left \in Seq(Pieces) /\ right \in Seq(Pieces) /\ Len(left) = Len(right)

(* So it is with a chain of one scrubber, before any output.                *)
LEMMA ScrubStarts == ScrubInit => ScrubInv
<1> SUFFICES ASSUME ScrubInit PROVE ScrubInv
  OBVIOUS
<1>1. PICK s \in Simple : chain = [parts |-> <<s>>, numbers |-> {s.token}]
  BY ChainOfOne DEF ScrubInit
<1>2. left = <<>> /\ right = <<>>
  BY DEF ScrubInit
<1>3. chain.parts = <<s>> /\ chain.numbers = {s.token}
  BY <1>1
<1>4. DOMAIN chain.parts = {1} /\ chain.parts[1] = s
  BY <1>3
<1>5. chain.parts \in Seq(Simple)
  BY <1>3
<1>6. Distinct(chain.parts) /\ chain.numbers = {chain.parts[k].token : k \in DOMAIN chain.parts}
  BY <1>3, <1>4 DEF Distinct
<1> QED
  BY <1>2, <1>5, <1>6 DEF ScrubInv

(* A scrubber that writes none of the names of a chain goes after it.       *)
LEMMA ExtendKeeps ==
  ASSUME ScrubInv, NEW s \in Simple, ~Raises(chain, One(s)), chain' = ChainOf(<<chain, One(s)>>),
         UNCHANGED <<left, right>>
  PROVE  ScrubInv'
<1>1. /\ chain.parts \in Seq(Simple) /\ Distinct(chain.parts)
      /\ chain.numbers = {chain.parts[k].token : k \in DOMAIN chain.parts}
  BY DEF ScrubInv
<1>2. chain'.parts = chain.parts \o <<s>> /\ chain'.numbers = chain.numbers \cup {s.token}
  <2>1. ChainOf(<<chain, One(s)>>)
          = [parts |-> chain.parts \o <<s>>, numbers |-> chain.numbers \cup {s.token}]
    BY ChainOfTwo
  <2> DEFINE longer == chain.parts \o <<s>>
             more == chain.numbers \cup {s.token}
  <2>2. chain' = [parts |-> longer, numbers |-> more]
    BY <2>1
  <2> HIDE DEF longer, more
  <2>3. chain'.parts = longer /\ chain'.numbers = more
    BY <2>2
  <2> QED
    BY <2>3 DEF longer, more
<1>3. s.token \notin chain.numbers
  BY DEF Raises, One
<1> DEFINE p == chain.parts
           q == chain'.parts
<1>4. PICK n \in Nat : n = Len(p)
  BY <1>1
<1>5. DOMAIN p = 1 .. n
  BY <1>1, <1>4
<1>6. q = Append(p, s)
  BY <1>1, <1>2
<1>7. /\ q \in Seq(Simple) /\ DOMAIN q = 1 .. n + 1 /\ q[n + 1] = s
      /\ \A k \in 1 .. n : q[k] = p[k]
  <2>1. p \in Seq(Simple) /\ s \in Simple
    BY <1>1
  <2> HIDE DEF p, q
  <2> QED
    BY <1>4, <1>6, <2>1
<1> HIDE DEF p, q
<1>8. \A k \in 1 .. n + 1 : k \in 1 .. n \/ k = n + 1
  OBVIOUS
<1>9. \A k \in 1 .. n : p[k].token # s.token
  BY <1>1, <1>3, <1>5 DEF p
<1>10. Distinct(q)
  BY <1>1, <1>5, <1>7, <1>8, <1>9 DEF Distinct, p
<1>11. chain'.numbers = {q[k].token : k \in DOMAIN q}
  <2>1. chain.numbers = {p[k].token : k \in 1 .. n}
    BY <1>1, <1>5 DEF p
  <2>2. \A v : v \in {q[k].token : k \in 1 .. n + 1} <=> v \in chain.numbers \/ v = s.token
    BY <1>7, <1>8, <2>1
  <2> QED
    BY <1>2, <1>7, <2>2
<1> QED
  BY <1>7, <1>10, <1>11 DEF ScrubInv, q

(* Nesting a chain and writing an output keep it (_scrub.py:327-342).       *)
LEMMA ScrubKept == ScrubInv /\ [ScrubNext]_scrubVars => ScrubInv'
<1> SUFFICES ASSUME ScrubInv, [ScrubNext]_scrubVars PROVE ScrubInv'
  OBVIOUS
<1>1. CASE Extend
  BY <1>1, ExtendKeeps DEF Extend
<1>2. CASE Write
  <2>1. PICK p \in Pieces, q \in Pieces : left' = Append(left, p) /\ right' = Append(right, q)
    BY <1>2 DEF Write
  <2>2. chain' = chain
    BY <1>2 DEF Write
  <2>3. left' \in Seq(Pieces) /\ right' \in Seq(Pieces) /\ Len(left') = Len(right')
    BY <2>1 DEF ScrubInv
  <2> QED
    BY <2>2, <2>3 DEF ScrubInv
<1>3. CASE UNCHANGED scrubVars
  BY <1>3 DEF scrubVars, ScrubInv
<1> QED
  BY <1>1, <1>2, <1>3 DEF ScrubNext, ScrubRest

(* Two outputs through such a chain differ in run-to-run values alone       *)
(* exactly if they scrub to one text (_scrub.py:313-319).                   *)
LEMMA ScrubInvTells == ScrubInv => ScrubsRunsAlone
<1> SUFFICES ASSUME ScrubInv PROVE SwapsAreSeen /\ RunsScrubAlike
  BY DEF ScrubsRunsAlone
<1> DEFINE parts == chain.parts
           x == Scrubbed(chain, left)
           y == Scrubbed(chain, right)
<1>1. PICK n \in Nat : n = Len(parts)
  BY DEF ScrubInv
<1>2. parts \in [1 .. n -> Simple] /\ Distinct(parts)
  BY <1>1 DEF ScrubInv
<1>3. PICK len \in Nat : len = Len(left)
  BY DEF ScrubInv
<1>4. left \in [1 .. len -> Pieces] /\ right \in [1 .. len -> Pieces]
  BY <1>3 DEF ScrubInv
<1>5. StageOf(x, parts, left, n) /\ StageOf(y, parts, right, n)
  <2>1. chain.parts \in [1 .. n -> Simple]
    BY <1>2
  <2> HIDE DEF x, y, parts
  <2> QED
    BY <1>4, <2>1, ScrubbedIs DEF x, y, parts
<1>6. SameButForRuns <=> OnlyRunsDiffer(parts, left, right)
  <2>1. \A p : ReadByChain(p) <=> ~Unread(parts, p)
    BY DEF ReadByChain, Unread
  <2> HIDE DEF parts
  <2> QED
    BY <2>1 DEF SameButForRuns, OnlyRunsDiffer
<1>7. UuidsFirst => UuidsBefore(parts)
  BY DEF UuidsFirst, UuidsBefore, PlaceOf
<1> HIDE DEF parts, x, y
<1>8. x = y => OnlyRunsDiffer(parts, left, right)
  BY <1>2, <1>4, <1>5, OutputsTell
<1>9. UuidsFirst /\ OnlyRunsDiffer(parts, left, right) => x = y
  BY <1>2, <1>4, <1>5, <1>7, OutputsAgree
<1> QED
  BY <1>6, <1>8, <1>9 DEF SwapsAreSeen, RunsScrubAlike, x, y

(* Whatever the caller nests, two outputs scrub to one text exactly if they *)
(* differ in run-to-run values alone, when no hex_ids comes before uuids    *)
(* (_scrub.py:313-319, 92-93, 170, 186).                                    *)
THEOREM ScrubsRunsAloneHolds == ScrubSpec => []ScrubsRunsAlone
<1>1. ScrubSpec => []ScrubInv
  BY ScrubStarts, ScrubKept, PTL DEF ScrubSpec
<1> QED
  BY <1>1, ScrubInvTells, PTL
=============================================================================
