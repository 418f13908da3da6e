---------------------------- MODULE ReleaseProofs ----------------------------
(***************************************************************************)
(* Proofs about Release, for every set of modules, versions and backends   *)
(* and every number of edits, merges and failures: what is released is the *)
(* tagged commit, what the gate lets pass is released whole, and a version *)
(* is spent on defects alone.                                              *)
(***************************************************************************)
EXTENDS Release, TLAPS

Trees ==
  [tracked : SUBSET Modules, present : SUBSET Modules, imports : SUBSET Modules,
   version : Assigned \cup {"none"}, packaging : Packagings \cup {"none"}]

Runs ==
  [of : Versions \cup {"none", "gate", "pr"},
   step : {"none", "list", "others", "missing", "copy", "require", "fetch", "build", "create"},
   version : Assigned \cup Versions \cup {"none"}, tracked : SUBSET Modules,
   todo : SUBSET (Modules \cup {"init", "packaging"}), copied : Trees,
   edited : BOOLEAN, gate : BOOLEAN]

Types ==
  /\ tree \in Trees /\ pr \in Trees /\ main \in Seq(Trees)
  /\ tags \in [Versions -> [commit : Trees, onMain : BOOLEAN]]
  /\ run \in Runs
  /\ passed \subseteq Trees /\ defective \subseteq Trees
  /\ checked \subseteq Versions \cup {"gate", "pr"}
  /\ said \in [Versions -> {"none", "spent", "re-run", "released", "failed"}]
  /\ published \in [Versions -> Trees]
  /\ backend \in Nat \ {0} /\ breaks \in Nat

(* A tag on main is of a merge, and nothing is known of a tag before it is. *)
TagsInv ==
  \A v \in Versions :
    /\ tags[v].onMain => \E k \in DOMAIN main : main[k] = tags[v].commit
    /\ v \in checked \/ said[v] # "none" \/ published[v] # NoTree \/ run.of = v => tags[v] # NoTag

(* A run that is to release a tag has found it to be one of main.           *)
AllowedInv ==
  run.step # "none" =>
    /\ run.of # "none"
    /\ ~run.gate => run.of \in Versions /\ ~Refused(run.of)
    /\ run.edited => run.of = "gate"
    /\ run.step = "create" => /\ ~run.gate /\ run.copied.version = run.version
                              /\ run.copied.imports \subseteq run.copied.tracked

(* What a run holds of the tree it began on, as long as nobody edits that.  *)
HeldInv ==
  run.step # "none" /\ ~run.edited =>
    /\ run.version = Root.version
    /\ run.step # "list" => run.tracked = Root.tracked
    /\ run.step \notin {"list", "others"} => Root.present \subseteq Root.tracked
    /\ run.step \notin {"list", "others", "missing"} => Root.present = Root.tracked
    /\ run.step \in {"list", "others", "missing"} => run.copied.tracked = {}
    /\ run.step \notin {"list", "others", "missing"} =>
         /\ run.copied.tracked = run.tracked \ run.todo
         /\ "init" \notin run.todo => /\ run.copied.version = Root.version
                                      /\ run.copied.imports = Root.imports
         /\ "packaging" \notin run.todo => run.copied.packaging = Root.packaging
    /\ run.step \notin {"list", "others", "missing", "copy"} => run.todo = {}

(* The first backend makes sound artifacts of the tree.                     *)
FirstSound(t) == Suits[1][t.packaging] = "sound" /\ t.imports \subseteq t.tracked

(* Until anything else changes, the gate passes sound trees alone and a     *)
(* commit found defective is not sound.                                     *)
GateInv ==
  /\ \A t \in passed : t.present = t.tracked /\ (Steady => FirstSound(t))
  /\ Steady => \A t \in defective : ~FirstSound(t)

Inv == Types /\ TagsInv /\ AllowedInv /\ HeldInv /\ GateInv /\ ReleasedIsTheCommit /\ OnlyDefectsSpend

-----------------------------------------------------------------------------
(* Types *)

LEMMA NoRunIsRun == NoRun \in Runs /\ NoTree \in Trees
BY DEF NoRun, NoTree, Runs, Trees

(* The tree a run works on is a tree. *)
LEMMA RootIsTree == ASSUME Types, run.of \in Versions \cup {"gate", "pr"} PROVE Root \in Trees
BY NamesAssumption DEF Types, Root

(* A run goes on: nothing but the run changes. *)
LEMMA GoTypes == ASSUME Types, NEW next \in Runs, Go(next) PROVE Types'
BY DEF Go, Types, outside, records, counts

LEMMA StartTypes ==
  ASSUME NEW of \in Versions \cup {"gate", "pr"}, NEW version \in Assigned \cup Versions \cup {"none"},
         NEW gate \in BOOLEAN, Start(of, version, gate)
  PROVE  run' \in Runs /\ run'.of = of /\ run'.step = "list" /\ run'.version = version
         /\ run'.gate = gate /\ ~run'.edited /\ run'.copied = NoTree
BY NoRunIsRun DEF Start, NoRun, NoTree, Runs, Trees

LEMMA CheckoutIsTree == ASSUME NEW t \in Trees PROVE Checkout(t) \in Trees
BY DEF Checkout, Trees

(* The records after an exit. *)
LEMMA ExitTypes ==
  ASSUME Types, run.of \in Versions \cup {"gate", "pr"}, NEW code,
         NEW message \in {"none", "spent", "re-run", "released", "failed"}, Exit(code, message),
         ~run.gate => run.of \in Versions
  PROVE  /\ run' \in Runs /\ passed' \subseteq Trees /\ defective' \subseteq Trees
         /\ checked' \subseteq Versions \cup {"gate", "pr"}
         /\ said' \in [Versions -> {"none", "spent", "re-run", "released", "failed"}]
BY RootIsTree, NoRunIsRun DEF Exit, Types, Runs

-----------------------------------------------------------------------------
(* Runs of check_dist *)

(* A run that goes on disturbs nothing but what is known of it. *)
LEMMA GoKeeps ==
  ASSUME Inv, NEW next \in Runs, Go(next), next.of = run.of, (AllowedInv /\ HeldInv)'
  PROVE  Inv'
<1>1. run' = next /\ UNCHANGED <<tree, pr, main, tags, backend, passed, defective, checked, said,
                                published, breaks>>
  BY DEF Go, outside, records, counts
<1>2. Types'
  BY GoTypes DEF Inv
<1>3. TagsInv'
  BY <1>1 DEF Inv, TagsInv
<1>4. GateInv'
  BY <1>1 DEF Inv, GateInv, Steady, FirstSound
<1>5. ReleasedIsTheCommit' /\ OnlyDefectsSpend'
  BY <1>1 DEF Inv, ReleasedIsTheCommit, OnlyDefectsSpend
<1> QED
  BY <1>2, <1>3, <1>4, <1>5 DEF Inv

(* A run works on the same tree as long as it is not edited. *)
LEMMA RootStays == ASSUME UNCHANGED <<tree, pr, tags>>, run'.of = run.of PROVE Root' = Root
BY DEF Root

(* git ls-files *)
LEMMA ListKeeps == ASSUME Inv, List PROVE Inv'
<1> DEFINE next == [run EXCEPT !.step = "others", !.tracked = Root.tracked]
<1>1. run.step = "list" /\ Go(next)
  BY DEF List
<1>2. Root \in Trees
  BY <1>1, RootIsTree DEF Inv, AllowedInv, Types, Runs
<1>3. next \in Runs /\ next.of = run.of
  BY <1>2 DEF Inv, Types, Runs, Trees
<1>4. run' = next /\ Root' = Root /\ UNCHANGED <<tree, pr, tags>>
  BY <1>1, <1>3, RootStays DEF Go, outside
<1>5. AllowedInv'
  BY <1>1, <1>4 DEF Inv, Types, Runs, AllowedInv, Refused
<1>6. HeldInv'
  BY <1>1, <1>4 DEF Inv, Types, Runs, HeldInv
<1> QED
  BY <1>1, <1>3, <1>5, <1>6, GoKeeps

(* Neither a module that git does not track nor one that is missing. *)
LEMMA LookKeeps ==
  ASSUME Inv, \/ Others /\ Root.present \subseteq Root.tracked
              \/ Missing /\ run.tracked \subseteq Root.present
  PROVE  Inv'
<1>1. run.step \in {"others", "missing"} /\ Root \in Trees
  BY RootIsTree DEF Others, Missing, Inv, AllowedInv, Types, Runs
<1>2. CASE Others /\ Root.present \subseteq Root.tracked
  <2> DEFINE next == [run EXCEPT !.step = "missing"]
  <2>1. run.step = "others" /\ Go(next)
    BY <1>2 DEF Others
  <2>2. next \in Runs /\ next.of = run.of
    BY DEF Inv, Types, Runs
  <2>3. run' = next /\ Root' = Root /\ UNCHANGED <<tree, pr, tags>>
    BY <2>1, <2>2, RootStays DEF Go, outside
  <2>4. AllowedInv'
    BY <2>1, <2>3 DEF Inv, Types, Runs, AllowedInv, Refused
  <2>5. HeldInv'
    BY <1>2, <2>1, <2>3 DEF Inv, Types, Runs, HeldInv
  <2> QED
    BY <2>1, <2>2, <2>4, <2>5, GoKeeps
<1>3. CASE Missing /\ run.tracked \subseteq Root.present
  <2>1. run.step = "missing" /\ Go([run EXCEPT !.step = "copy", !.todo = Files(run.tracked)])
    BY <1>3 DEF Missing
  <2> DEFINE files == Files(run.tracked)
             next  == [run EXCEPT !.step = "copy", !.todo = files]
  <2>0. files \in SUBSET (Modules \cup {"init", "packaging"})
    BY DEF Inv, Types, Runs, Files
  <2>2. Go(next) /\ next \in Runs /\ next.of = run.of
    <3> HIDE DEF files
    <3>1. next \in Runs /\ next.of = run.of
      BY <2>0 DEF Inv, Types, Runs
    <3> QED
      BY <2>1, <3>1 DEF files
  <2>3. run' = next /\ Root' = Root /\ UNCHANGED <<tree, pr, tags>>
    BY <2>1, <2>2, RootStays DEF Go, outside
  <2>4. AllowedInv'
    BY <2>1, <2>3 DEF Inv, Types, Runs, AllowedInv, Refused
  <2>5. HeldInv'
    <3>1. /\ run'.step = "copy" /\ run'.todo = Files(run.tracked) /\ run'.tracked = run.tracked
          /\ run'.copied = run.copied /\ run'.version = run.version /\ run'.edited = run.edited
      BY <2>3 DEF Inv, Types, Runs
    <3>2. ASSUME ~run.edited
          PROVE  Root.present = Root.tracked /\ run.copied.tracked = run.tracked \ Files(run.tracked)
      <4>1. run.tracked = Root.tracked /\ Root.present \subseteq Root.tracked /\ run.copied.tracked = {}
        BY <2>1, <3>2 DEF Inv, HeldInv
      <4>2. Root.present = Root.tracked
        BY <4>1, <1>3
      <4> QED
        BY <4>1, <4>2 DEF Files
    <3> QED
      BY <2>1, <2>3, <3>1, <3>2 DEF Inv, HeldInv, Files
  <2> QED
    BY <2>1, <2>2, <2>4, <2>5, GoKeeps
<1> QED
  BY <1>2, <1>3

(* One more file is copied. *)
LEMMA CopyKeeps == ASSUME Inv, Copy, ~Fail(NOT_BUILT) PROVE Inv'
<1>1. run.step = "copy" /\ Root \in Trees /\ run.copied \in Trees
  BY RootIsTree DEF Copy, Inv, AllowedInv, Types, Runs
<1>2. PICK file \in run.todo :
        LET next == [run EXCEPT !.todo = @ \ {file}, !.step = IF run.todo = {file} THEN "require" ELSE "copy"]
        IN  \/ file \in Modules \cap Root.present /\ Go([next EXCEPT !.copied.tracked = @ \cup {file}])
            \/ file = "init" /\ Go([next EXCEPT !.copied.version = Root.version, !.copied.imports = Root.imports])
            \/ file = "packaging" /\ Go([next EXCEPT !.copied.packaging = Root.packaging])
  BY Zenon DEF Copy
<1> DEFINE next == [run EXCEPT !.todo = @ \ {file}, !.step = IF run.todo = {file} THEN "require" ELSE "copy"]
<1>3. /\ next \in Runs /\ next.of = run.of /\ next.copied = run.copied
      /\ next.version = run.version /\ next.tracked = run.tracked /\ next.edited = run.edited
      /\ next.gate = run.gate /\ next.todo = run.todo \ {file}
      /\ next.step = IF run.todo = {file} THEN "require" ELSE "copy"
  BY <1>1 DEF Inv, Types, Runs
<1> DEFINE Copies(copy) == run' = [next EXCEPT !.copied = copy] /\ copy \in Trees /\ Go(run')
<1>4. \/ file \in Modules \cap Root.present /\ Copies([run.copied EXCEPT !.tracked = @ \cup {file}])
      \/ file = "init" /\ Copies([run.copied EXCEPT !.version = Root.version, !.imports = Root.imports])
      \/ file = "packaging" /\ Copies([run.copied EXCEPT !.packaging = Root.packaging])
  <2>1. CASE file \in Modules \cap Root.present /\ Go([next EXCEPT !.copied.tracked = @ \cup {file}])
    <3>1. [next EXCEPT !.copied.tracked = @ \cup {file}]
            = [next EXCEPT !.copied = [run.copied EXCEPT !.tracked = @ \cup {file}]]
      BY <1>3 DEF Runs
    <3>2. [run.copied EXCEPT !.tracked = @ \cup {file}] \in Trees
      BY <1>1, <2>1 DEF Trees
    <3> QED
      BY <2>1, <3>1, <3>2 DEF Go
  <2>2. CASE file = "init" /\ Go([next EXCEPT !.copied.version = Root.version, !.copied.imports = Root.imports])
    <3>1. [next EXCEPT !.copied.version = Root.version, !.copied.imports = Root.imports]
            = [next EXCEPT !.copied = [run.copied EXCEPT !.version = Root.version, !.imports = Root.imports]]
      BY <1>3 DEF Runs
    <3>2. [run.copied EXCEPT !.version = Root.version, !.imports = Root.imports] \in Trees
      BY <1>1 DEF Trees
    <3> QED
      BY <2>2, <3>1, <3>2 DEF Go
  <2>3. CASE file = "packaging" /\ Go([next EXCEPT !.copied.packaging = Root.packaging])
    <3>1. [next EXCEPT !.copied.packaging = Root.packaging]
            = [next EXCEPT !.copied = [run.copied EXCEPT !.packaging = Root.packaging]]
      BY <1>3 DEF Runs
    <3>2. [run.copied EXCEPT !.packaging = Root.packaging] \in Trees
      BY <1>1 DEF Trees
    <3> QED
      BY <2>3, <3>1, <3>2 DEF Go
  <2> QED
    BY <1>2, <2>1, <2>2, <2>3
<1>5. PICK copy \in Trees :
        /\ Go(run') /\ run' = [next EXCEPT !.copied = copy]
        /\ \/ file \in Modules \cap Root.present /\ copy = [run.copied EXCEPT !.tracked = @ \cup {file}]
           \/ file = "init" /\ copy = [run.copied EXCEPT !.version = Root.version, !.imports = Root.imports]
           \/ file = "packaging" /\ copy = [run.copied EXCEPT !.packaging = Root.packaging]
  BY <1>4
<1> HIDE DEF next
<1>6. /\ run' \in Runs /\ run'.of = run.of /\ run'.copied = copy
      /\ run'.version = run.version /\ run'.tracked = run.tracked /\ run'.edited = run.edited
      /\ run'.gate = run.gate /\ run'.todo = run.todo \ {file}
      /\ run'.step = IF run.todo = {file} THEN "require" ELSE "copy"
  BY <1>3, <1>5 DEF Runs
<1>7. Root' = Root /\ UNCHANGED <<tree, pr, tags>>
  BY <1>5, <1>6, RootStays DEF Go, outside
<1>8. AllowedInv'
  BY <1>1, <1>6, <1>7 DEF Inv, AllowedInv, Refused
<1>9. HeldInv'
  <2>1. ASSUME ~run.edited
        PROVE  /\ copy.tracked = run.tracked \ run'.todo
               /\ "init" \notin run'.todo => copy.version = Root.version /\ copy.imports = Root.imports
               /\ "packaging" \notin run'.todo => copy.packaging = Root.packaging
    <3>1. /\ run.copied.tracked = run.tracked \ run.todo /\ Root.present = run.tracked
          /\ "init" \notin run.todo => /\ run.copied.version = Root.version
                                       /\ run.copied.imports = Root.imports
          /\ "packaging" \notin run.todo => run.copied.packaging = Root.packaging
      BY <1>1, <2>1 DEF Inv, HeldInv
    <3>2. run'.todo = run.todo \ {file} /\ file \in run.todo
      BY <1>2, <1>6
    <3>3. run.tracked \subseteq Modules /\ "init" \notin Modules /\ "packaging" \notin Modules
      BY NamesAssumption DEF Inv, Types, Runs
    <3>4. CASE file \in Modules \cap Root.present /\ copy = [run.copied EXCEPT !.tracked = @ \cup {file}]
      <4>1. /\ copy.tracked = run.copied.tracked \cup {file} /\ copy.version = run.copied.version
            /\ copy.imports = run.copied.imports /\ copy.packaging = run.copied.packaging
        BY <1>1, <3>4 DEF Trees
      <4> QED
        BY <3>1, <3>2, <3>3, <3>4, <4>1
    <3>5. CASE file = "init" /\ copy = [run.copied EXCEPT !.version = Root.version, !.imports = Root.imports]
      <4>1. /\ copy.tracked = run.copied.tracked /\ copy.version = Root.version
            /\ copy.imports = Root.imports /\ copy.packaging = run.copied.packaging
        BY <1>1, <3>5 DEF Trees
      <4> QED
        BY <3>1, <3>2, <3>3, <3>5, <4>1
    <3>6. CASE file = "packaging" /\ copy = [run.copied EXCEPT !.packaging = Root.packaging]
      <4>1. /\ copy.tracked = run.copied.tracked /\ copy.version = run.copied.version
            /\ copy.imports = run.copied.imports /\ copy.packaging = Root.packaging
        BY <1>1, <3>6 DEF Trees
      <4> QED
        BY <3>1, <3>2, <3>3, <3>6, <4>1
    <3> QED
      BY <1>5, <3>4, <3>5, <3>6
  <2> QED
    BY <1>1, <1>6, <1>7, <2>1 DEF Inv, HeldInv
<1> QED
  BY <1>5, <1>6, <1>8, <1>9, GoKeeps

(* The build goes on, or makes artifacts without problems. *)
LEMMA BuildingKeeps ==
  ASSUME Inv, NEW step \in {"fetch", "build", "create"}, Go([run EXCEPT !.step = step]),
         run.step \in {"require", "fetch", "build"},
         step = "create" => ~run.gate /\ ~Problems(run.copied, run.version)
  PROVE  Inv'
<1> DEFINE next == [run EXCEPT !.step = step]
<1>1. next \in Runs /\ next.of = run.of
  BY DEF Inv, Types, Runs
<1>2. run' = next /\ Root' = Root /\ UNCHANGED <<tree, pr, tags>>
  BY <1>1, RootStays DEF Go, outside
<1>3. AllowedInv'
  BY <1>2 DEF Inv, Types, Runs, AllowedInv, Refused, Problems
<1>4. HeldInv'
  BY <1>2 DEF Inv, Types, Runs, HeldInv
<1> QED
  BY <1>1, <1>3, <1>4, GoKeeps

-----------------------------------------------------------------------------
(* Ends of a run *)

(* What is at fault with a commit whose tag is spent. *)
AtFault(t) ==
  (\E k \in 1 .. backend : Suits[k][t.packaging] # "sound") \/ ~(t.imports \subseteq t.tracked)

(* Nothing is at work once a run has ended. *)
LEMMA RestIsAllowed == ASSUME run' = NoRun PROVE (AllowedInv /\ HeldInv)'
BY DEF AllowedInv, HeldInv, NoRun

(* A run that ends without a release. *)
LEMMA ExitKeeps ==
  ASSUME Inv, run.step # "none", NEW code,
         NEW message \in {"none", "spent", "re-run", "released", "failed"}, Exit(code, message),
         UNCHANGED <<outside, published>>, breaks' \in {breaks, breaks + 1},
         run.of = "gate" /\ code = 0 /\ ~run.edited =>
           tree.present = tree.tracked /\ (Steady => FirstSound(tree)),
         run.of # "gate" /\ code = DEFECTIVE /\ Steady' => ~FirstSound(Root),
         ~run.gate /\ message = "spent" /\ breaks' = 0 => AtFault(Root)
  PROVE  Inv'
<1>1. /\ run.of \in Versions \cup {"gate", "pr"}
      /\ ~run.gate => run.of \in Versions
      /\ UNCHANGED <<tree, pr, main, tags, backend, published>> /\ run' = NoRun
      /\ Steady' => Steady
  BY DEF Inv, Types, Runs, AllowedInv, outside, Exit, Steady
<1>2. Types'
  BY <1>1, ExitTypes DEF Inv, Types
<1>3. TagsInv'
  BY <1>1, NamesAssumption DEF Inv, Types, TagsInv, Exit, NoRun
<1>4. GateInv'
  <2>1. \A t \in passed' : t \in passed \/ (t = tree /\ run.of = "gate" /\ code = 0 /\ ~run.edited)
    BY DEF Exit
  <2>2. \A t \in defective' : t \in defective \/ (t = Root /\ run.of # "gate" /\ code = DEFECTIVE)
    BY DEF Exit
  <2> QED
    BY <1>1, <2>1, <2>2 DEF Inv, GateInv, FirstSound
<1>5. ReleasedIsTheCommit'
  BY <1>1 DEF Inv, ReleasedIsTheCommit
<1>6. OnlyDefectsSpend'
  <2> SUFFICES ASSUME NEW v \in Versions, said'[v] = "spent", breaks' = 0
               PROVE  \/ ~tags[v].onMain \/ tags[v].commit.version # v
                      \/ AtFault(tags[v].commit)
    BY <1>1 DEF OnlyDefectsSpend, AtFault
  <2>1. breaks = 0
    BY DEF Inv, Types
  <2>2. CASE said[v] = "spent"
    BY <2>1, <2>2 DEF Inv, OnlyDefectsSpend, AtFault
  <2>3. CASE said[v] # "spent"
    <3>1. ~run.gate /\ v = run.of /\ message = "spent"
      BY <2>3 DEF Exit, Inv, Types
    <3>2. Root = tags[v].commit
      BY <3>1, NamesAssumption DEF Root
    <3> QED
      BY <3>1, <3>2
  <2> QED
    BY <2>2, <2>3
<1> QED
  BY <1>1, <1>2, <1>3, <1>4, <1>5, <1>6, RestIsAllowed DEF Inv

(* What was copied is what was begun on, once everything is. *)
LEMMA AllCopied ==
  ASSUME Inv, run.step \in {"require", "fetch", "build", "create"}, ~run.edited
  PROVE  /\ Root.present = Root.tracked /\ run.version = Root.version
         /\ run.copied.version = Root.version /\ run.copied.imports = Root.imports
         /\ run.copied.packaging = Root.packaging /\ run.copied.tracked = Root.tracked
<1>1. run.todo = {} /\ run.copied.tracked = run.tracked \ run.todo /\ run.tracked = Root.tracked
  BY DEF Inv, HeldInv
<1> QED
  BY <1>1 DEF Inv, HeldInv

(* A defect is the commit's own, as the backend stands. *)
LEMMA DefectIsFault ==
  ASSUME Inv, run.step \in {"require", "build"}, run.of # "gate",
         Made(run.copied) # "sound" \/ Problems(run.copied, run.version)
  PROVE  AtFault(Root) /\ (Steady => ~FirstSound(Root))
<1>1. ~run.edited /\ backend \in 1 .. backend
  BY DEF Inv, Types, AllowedInv
<1>2. Suits[backend][Root.packaging] # "sound" \/ ~(Root.imports \subseteq Root.tracked)
  BY <1>1, AllCopied DEF Made, Problems
<1> QED
  BY <1>1, <1>2 DEF AtFault, Steady, FirstSound

(* A failure that is nobody's defect. *)
LEMMA FailureKeeps ==
  ASSUME Inv, run.step # "none", NEW message \in {"re-run", "failed"},
         NEW code \in {0, NOT_BUILT}, code = 0 => run.of # "gate",
         Exit(code, message), UNCHANGED <<outside, published, breaks>>
  PROVE  Inv'
<1>1. code # DEFECTIVE /\ message # "spent"
  BY DEF NOT_BUILT, DEFECTIVE
<1>2. code = 0 => code # NOT_BUILT
  BY DEF NOT_BUILT
<1> QED
  BY <1>1, <1>2, ExitKeeps

(* A failure on a defect. *)
LEMMA DefectKeeps ==
  ASSUME Inv, run.step \in {"require", "build"}, Fail(DEFECTIVE),
         Made(run.copied) # "sound" \/ Problems(run.copied, run.version)
  PROVE  Inv'
<1>1. Exit(DEFECTIVE, "spent") /\ UNCHANGED <<outside, published, breaks>>
  BY DEF Fail, counts
<1>2. ~run.gate => run.of # "gate"
  BY NamesAssumption DEF Inv, AllowedInv
<1>3. run.of # "gate" => AtFault(Root) /\ (Steady => ~FirstSound(Root))
  BY DefectIsFault
<1>4. Steady' => Steady
  BY <1>1 DEF Steady, outside
<1>5. DEFECTIVE # 0
  BY DEF DEFECTIVE
<1> QED
  BY <1>1, <1>2, <1>3, <1>4, <1>5, ExitKeeps

(* A run that publishes what it made. *)
LEMMA CreateKeeps == ASSUME Inv, Create PROVE Inv'
<1> DEFINE v == run.of
<1>1. /\ run.step = "create" /\ published' = [published EXCEPT ![v] = run.copied]
      /\ Exit(0, "released") /\ UNCHANGED <<tree, pr, main, tags, backend, breaks>> /\ run' = NoRun
  BY DEF Create, Exit, outside, counts
<1>2. v \in Versions /\ ~Refused(v) /\ ~run.gate /\ v \notin {"gate", "pr"} /\ Root = tags[v].commit
  BY <1>1, NamesAssumption DEF Inv, AllowedInv, Root
<1>3. /\ tags[v].onMain /\ tags[v].commit.version = v
      /\ run.copied.version = v /\ run.copied.tracked = tags[v].commit.tracked
      /\ tags[v].commit.imports \subseteq run.copied.tracked
  <2>1. ~run.edited
    BY <1>1, <1>2 DEF Inv, AllowedInv
  <2> QED
    BY <1>1, <1>2, <2>1, AllCopied DEF Inv, AllowedInv, Refused
<1>4. Types'
  BY <1>1, <1>2, ExitTypes DEF Inv, Types, Runs
<1>5. /\ passed' = passed /\ defective' = defective /\ checked' = checked
      /\ said' = [said EXCEPT ![v] = "released"]
  BY <1>1, <1>2 DEF Exit, DEFECTIVE
<1>6. TagsInv'
  BY <1>1, <1>2, <1>5, NamesAssumption DEF Inv, Types, TagsInv, NoRun
<1>7. GateInv'
  BY <1>1, <1>5 DEF Inv, GateInv, Steady, FirstSound
<1>8. ReleasedIsTheCommit'
  <2>1. \E k \in DOMAIN main : main[k] = tags[v].commit
    BY <1>2, <1>3 DEF Inv, TagsInv
  <2> QED
    BY <1>1, <1>2, <1>3, <2>1 DEF Inv, Types, ReleasedIsTheCommit
<1>9. OnlyDefectsSpend'
  BY <1>1, <1>2, <1>5 DEF Inv, Types, OnlyDefectsSpend
<1> QED
  BY <1>1, <1>4, <1>6, <1>7, <1>8, <1>9, RestIsAllowed DEF Inv

(* A gate that finds no problems passes its tree, if it is the one it built. *)
LEMMA PassKeeps ==
  ASSUME Inv, run.step = "build", run.gate, ~Problems(run.copied, run.version),
         Exit(0, "none"), UNCHANGED <<outside, published, counts>>
  PROVE  Inv'
<1>1. ASSUME run.of = "gate", ~run.edited
      PROVE  tree.present = tree.tracked /\ (Steady => FirstSound(tree))
  <2>1. Root = tree
    BY <1>1 DEF Root
  <2> QED
    BY <1>1, <2>1, AllCopied DEF Problems, Made, Steady, FirstSound
<1>2. 0 # DEFECTIVE /\ "none" # "spent"
  BY DEF DEFECTIVE
<1> QED
  BY <1>1, <1>2, ExitKeeps DEF counts

(* Something else than the files stops the build. *)
LEMMA BreakKeeps == ASSUME Inv, BuildBreaks PROVE Inv'
<1>1. /\ run.step = "build" /\ Exit(DEFECTIVE, "spent") /\ breaks' = breaks + 1
      /\ UNCHANGED <<outside, published>> /\ breaks' # 0 /\ DEFECTIVE # 0
  BY DEF BuildBreaks, DEFECTIVE, Inv, Types
<1>2. ~Steady'
  BY <1>1 DEF Steady
<1> QED
  BY <1>1, <1>2, ExitKeeps

(* Every step of a run of check_dist. *)
LEMMA CheckKeeps ==
  ASSUME Inv, \/ List \/ Others \/ Missing \/ Copy \/ Require \/ Fetch \/ ToolFails \/ BuildBreaks
              \/ Build \/ Create \/ CreateFails
  PROVE  Inv'
<1>1. ASSUME Fail(NOT_BUILT), run.step # "none" PROVE Inv'
  BY <1>1, FailureKeeps DEF Fail, NOT_BUILT, DEFECTIVE, counts
<1>2. CASE List
  BY <1>2, ListKeeps
<1>3. CASE Others
  BY <1>1, <1>3, LookKeeps DEF Others
<1>4. CASE Missing
  BY <1>1, <1>4, LookKeeps DEF Missing
<1>5. CASE Copy
  BY <1>1, <1>5, CopyKeeps DEF Copy
<1>6. CASE Require
  BY <1>6, DefectKeeps, BuildingKeeps DEF Require
<1>7. CASE Fetch
  BY <1>7, BuildingKeeps DEF Fetch
<1>8. CASE ToolFails
  BY <1>8, FailureKeeps DEF ToolFails, CodeOfFailure, NOT_BUILT, DEFECTIVE
<1>9. CASE BuildBreaks
  BY <1>9, BreakKeeps
<1>10. CASE Build
  <2>1. run.step = "build"
    BY <1>10 DEF Build
  <2>2. CASE Made(run.copied) = "refused" \/ Problems(run.copied, run.version)
    BY <1>10, <2>1, <2>2, DefectKeeps DEF Build
  <2>3. CASE ~(Made(run.copied) = "refused" \/ Problems(run.copied, run.version))
    BY <1>10, <2>1, <2>3, PassKeeps, BuildingKeeps DEF Build
  <2> QED
    BY <2>2, <2>3
<1>11. CASE Create
  BY <1>11, CreateKeeps
<1>12. CASE CreateFails
  <2>1. run.of # "gate"
    BY <1>12, NamesAssumption DEF CreateFails, Inv, AllowedInv
  <2> QED
    BY <1>12, <2>1, FailureKeeps DEF CreateFails
<1> QED
  BY <1>2, <1>3, <1>4, <1>5, <1>6, <1>7, <1>8, <1>9, <1>10, <1>11, <1>12

-----------------------------------------------------------------------------
(* The gate, the pull request and the release workflow *)

(* A run starts on its tree; of the tag it is to release, that is allowed. *)
LEMMA StartKeeps ==
  ASSUME Inv, NEW of \in Versions \cup {"gate", "pr"}, NEW gate \in BOOLEAN,
         NEW version \in Assigned \cup Versions \cup {"none"}, Start(of, version, gate),
         UNCHANGED <<tree, main, tags, passed, defective, said, published, backend, breaks>>,
         pr' \in Trees, checked' \subseteq checked, version = Root'.version,
         of \in Versions => tags[of] # NoTag,
         ~gate => of \in Versions /\ ~Refused(of)
  PROVE  Inv'
<1>1. /\ run' \in Runs /\ run'.of = of /\ run'.step = "list" /\ run'.version = version
      /\ run'.gate = gate /\ ~run'.edited /\ run'.copied.tracked = {}
  BY StartTypes DEF NoTree
<1>2. Types'
  BY <1>1 DEF Inv, Types
<1>3. TagsInv'
  BY <1>1 DEF Inv, TagsInv
<1>4. AllowedInv'
  BY <1>1, NamesAssumption DEF AllowedInv, Refused
<1>5. HeldInv'
  BY <1>1 DEF HeldInv
<1>6. GateInv' /\ ReleasedIsTheCommit' /\ OnlyDefectsSpend'
  BY DEF Inv, GateInv, Steady, FirstSound, ReleasedIsTheCommit, OnlyDefectsSpend
<1> QED
  BY <1>2, <1>3, <1>4, <1>5, <1>6 DEF Inv

LEMMA GateKeeps == ASSUME Inv, Gate PROVE Inv'
<1>1. /\ Start("gate", tree.version, TRUE)
      /\ UNCHANGED <<tree, pr, main, tags, passed, defective, checked, said, published, backend, breaks>>
  BY DEF Gate, outside, records, counts
<1>2. run'.of = "gate" /\ Root' = tree /\ tree.version \in Assigned \cup {"none"} /\ pr' \in Trees
  BY <1>1, StartTypes DEF Inv, Types, Trees, Root
<1> QED
  BY <1>1, <1>2, StartKeeps, NamesAssumption

LEMMA PushKeeps == ASSUME Inv, Push PROVE Inv'
<1>1. /\ Start("pr", tree.version, TRUE) /\ pr' = Checkout(tree)
      /\ UNCHANGED <<tree, main, tags, passed, defective, said, published, backend, breaks>>
      /\ checked' \subseteq checked
  BY DEF Push, counts
<1>2. pr' \in Trees /\ pr'.version = tree.version /\ tree.version \in Assigned \cup {"none"}
  BY <1>1, CheckoutIsTree DEF Inv, Types, Trees, Checkout
<1>3. Root' = pr'
  <2>1. run'.of = "pr"
    BY <1>1, <1>2, StartTypes
  <2> QED
    BY <2>1 DEF Root
<1> QED
  BY <1>1, <1>2, <1>3, StartKeeps, NamesAssumption

(* The workflow's gate, and the release of a tag of main. *)
LEMMA JobKeeps ==
  ASSUME Inv, NEW v \in Versions, tags[v] # NoTag, NEW gate \in BOOLEAN,
         NEW version, Start(v, version, gate), version = tags[v].commit.version,
         ~gate => ~Refused(v),
         UNCHANGED <<outside, records, published, breaks>>
  PROVE  Inv'
<1>1. UNCHANGED <<tree, pr, main, tags, passed, defective, checked, said, published, backend, breaks>>
  BY DEF outside, records
<1>2. version \in Assigned \cup {"none"} /\ pr' \in Trees
  BY <1>1 DEF Inv, Types, Trees
<1>3. Root' = tags[v].commit
  <2>1. run'.of = v
    BY <1>2, StartTypes
  <2> QED
    BY <1>1, <2>1, NamesAssumption DEF Root
<1> QED
  BY <1>1, <1>2, <1>3, StartKeeps

LEMMA ChecksKeeps == ASSUME Inv, Checks PROVE Inv'
<1>1. PICK v \in Versions : tags[v] # NoTag /\ Start(v, tags[v].commit.version, TRUE)
  BY DEF Checks
<1> QED
  BY <1>1, JobKeeps DEF Checks, counts

(* The release job starts a run, or says why it does not. *)
LEMMA ReleaseKeeps == ASSUME Inv, Release PROVE Inv'
<1>1. PICK v \in Versions \cap checked :
        \/ ~Refused(v) /\ Start(v, v, FALSE) /\ UNCHANGED said
        \/ Refused(v) /\ said' = [said EXCEPT ![v] = "spent"] /\ UNCHANGED run
        \/ said' = [said EXCEPT ![v] = "re-run"] /\ UNCHANGED run
  BY DEF Release
<1>2. /\ UNCHANGED <<tree, pr, main, tags, passed, defective, checked, published, backend, breaks>>
      /\ UNCHANGED outside
  BY DEF Release, outside
<1>3. tags[v] # NoTag
  BY DEF Inv, TagsInv
<1>4. CASE ~Refused(v) /\ Start(v, v, FALSE) /\ UNCHANGED said
  <2>1. v = tags[v].commit.version
    BY <1>4 DEF Refused
  <2> QED
    BY <1>2, <1>3, <1>4, <2>1, JobKeeps DEF records
<1>5. CASE /\ UNCHANGED run
           /\ \E message \in {"spent", "re-run"} :
                said' = [said EXCEPT ![v] = message] /\ (message = "spent" => Refused(v))
  <2>1. Types' /\ TagsInv'
    BY <1>2, <1>3, <1>5 DEF Inv, Types, TagsInv
  <2>2. Root' = Root
    BY <1>2, <1>5, RootStays
  <2>3. AllowedInv' /\ HeldInv'
    BY <1>2, <1>5, <2>2 DEF Inv, AllowedInv, HeldInv, Refused
  <2>4. GateInv' /\ ReleasedIsTheCommit'
    BY <1>2, <1>5 DEF Inv, GateInv, Steady, FirstSound, ReleasedIsTheCommit
  <2>5. OnlyDefectsSpend'
    BY <1>2, <1>5 DEF Inv, Types, OnlyDefectsSpend, Refused
  <2> QED
    BY <2>1, <2>3, <2>4, <2>5 DEF Inv
<1> QED
  BY <1>1, <1>4, <1>5

(* A merge makes main longer. *)
LEMMA MergeKeeps == ASSUME Inv, Merge PROVE Inv'
<1>1. /\ run = NoRun /\ main' = Append(main, pr) /\ pr' = NoTree /\ checked' \subseteq checked
      /\ UNCHANGED <<tree, tags, run, passed, defective, said, published, backend, breaks>>
  BY DEF Merge, counts
<1>2. DOMAIN main \subseteq DOMAIN main' /\ \A k \in DOMAIN main : main'[k] = main[k]
  BY <1>1 DEF Inv, Types
<1>3. Types'
  BY <1>1, NoRunIsRun DEF Inv, Types
<1>4. TagsInv'
  BY <1>1, <1>2 DEF Inv, TagsInv
<1>5. AllowedInv' /\ HeldInv'
  BY <1>1, RestIsAllowed
<1>6. ReleasedIsTheCommit'
  BY <1>1, <1>2 DEF Inv, ReleasedIsTheCommit
<1>7. GateInv' /\ OnlyDefectsSpend'
  BY <1>1 DEF Inv, GateInv, Steady, FirstSound, OnlyDefectsSpend
<1> QED
  BY <1>3, <1>4, <1>5, <1>6, <1>7 DEF Inv

(* A tag is put on a commit, for good. *)
LEMMA TagKeeps == ASSUME Inv, Tag PROVE Inv'
<1>1. PICK v \in Versions :
        /\ tags[v] = NoTag
        /\ \/ \E k \in DOMAIN main : tags' = [tags EXCEPT ![v] = [commit |-> main[k], onMain |-> TRUE]]
           \/ tags' = [tags EXCEPT ![v] = [commit |-> Checkout(tree), onMain |-> FALSE]]
  BY DEF Tag
<1>2. UNCHANGED <<tree, pr, main, run, passed, defective, checked, said, published, backend, breaks>>
  BY DEF Tag, records, counts
<1>3. PICK tag \in [commit : Trees, onMain : BOOLEAN] :
        /\ tags' = [tags EXCEPT ![v] = tag]
        /\ tag.onMain => \E k \in DOMAIN main : main[k] = tag.commit
  <2>1. \A k \in DOMAIN main : main[k] \in Trees
    BY DEF Inv, Types
  <2>2. Checkout(tree) \in Trees
    BY CheckoutIsTree DEF Inv, Types
  <2>3. ASSUME NEW k \in DOMAIN main, tags' = [tags EXCEPT ![v] = [commit |-> main[k], onMain |-> TRUE]]
        PROVE  \E tag \in [commit : Trees, onMain : BOOLEAN] :
                 /\ tags' = [tags EXCEPT ![v] = tag]
                 /\ tag.onMain => \E j \in DOMAIN main : main[j] = tag.commit
    <3> DEFINE tag == [commit |-> main[k], onMain |-> TRUE]
    <3>1. tag \in [commit : Trees, onMain : BOOLEAN] /\ main[k] = tag.commit
      BY <2>1
    <3> QED
      BY <2>3, <3>1, Zenon
  <2>4. ASSUME tags' = [tags EXCEPT ![v] = [commit |-> Checkout(tree), onMain |-> FALSE]]
        PROVE  \E tag \in [commit : Trees, onMain : BOOLEAN] :
                 /\ tags' = [tags EXCEPT ![v] = tag]
                 /\ tag.onMain => \E j \in DOMAIN main : main[j] = tag.commit
    <3> DEFINE tag == [commit |-> Checkout(tree), onMain |-> FALSE]
    <3>1. tag \in [commit : Trees, onMain : BOOLEAN] /\ ~tag.onMain
      BY <2>2
    <3> QED
      BY <2>4, <3>1, Zenon
  <2> QED
    BY <1>1, <2>3, <2>4, Zenon
<1>4. /\ tags' \in [Versions -> [commit : Trees, onMain : BOOLEAN]] /\ tags'[v] = tag
      /\ \A w \in Versions : w # v => tags'[w] = tags[w]
  BY <1>3 DEF Inv, Types
<1>5. v \notin checked /\ said[v] = "none" /\ published[v] = NoTree /\ run.of # v
  BY <1>1 DEF Inv, TagsInv
<1>6. Types' /\ TagsInv'
  BY <1>2, <1>3, <1>4, <1>5 DEF Inv, Types, TagsInv
<1>7. run.step # "none" => Root' = Root
  <2>1. run.step # "none" => run.of \in Versions \cup {"gate", "pr"}
    BY DEF Inv, Types, Runs, AllowedInv
  <2> QED
    BY <1>2, <1>4, <1>5, <2>1 DEF Root
<1>8. AllowedInv' /\ HeldInv'
  BY <1>2, <1>4, <1>5, <1>7 DEF Inv, AllowedInv, HeldInv, Refused
<1>9. GateInv' /\ ReleasedIsTheCommit' /\ OnlyDefectsSpend'
  BY <1>2, <1>4, <1>5 DEF Inv, GateInv, Steady, FirstSound, ReleasedIsTheCommit, OnlyDefectsSpend
<1> QED
  BY <1>6, <1>8, <1>9 DEF Inv

(* The working tree is edited; the gate may run on it. *)
LEMMA EditKeeps == ASSUME Inv, Edit PROVE Inv'
<1>1. PICK m \in Modules, v \in Assigned, p \in Packagings :
       \/ \E used \in SUBSET {m} : tree' = [tree EXCEPT !.present = @ \cup {m}, !.imports = @ \cup used]
       \/ tree' = [tree EXCEPT !.tracked = @ \cup (tree.present \cap {m})]
       \/ tree' = [tree EXCEPT !.present = @ \ {m}]
       \/ tree' = [tree EXCEPT !.version = v]
       \/ tree' = [tree EXCEPT !.packaging = p]
  BY Zenon DEF Edit
<1>2. /\ run' = IF run.of = "gate" THEN [run EXCEPT !.edited = TRUE] ELSE run
      /\ UNCHANGED <<pr, main, tags, passed, defective, checked, said, published, backend, breaks>>
  BY DEF Edit, records, counts
<1>3. tree' \in Trees
  <2>1. tree \in Trees
    BY DEF Inv, Types
  <2>2. ASSUME NEW used \in SUBSET {m}, tree' = [tree EXCEPT !.present = @ \cup {m}, !.imports = @ \cup used]
        PROVE  tree' \in Trees
    <3>1. tree.present \cup {m} \subseteq Modules /\ tree.imports \cup used \subseteq Modules
      BY <2>1 DEF Trees
    <3> QED
      BY <2>1, <2>2, <3>1 DEF Trees
  <2>3. ASSUME tree' = [tree EXCEPT !.tracked = @ \cup (tree.present \cap {m})] PROVE tree' \in Trees
    <3>1. tree.tracked \cup (tree.present \cap {m}) \subseteq Modules
      BY <2>1 DEF Trees
    <3> QED
      BY <2>1, <2>3, <3>1 DEF Trees
  <2>4. ASSUME tree' = [tree EXCEPT !.present = @ \ {m}] PROVE tree' \in Trees
    BY <2>1, <2>4 DEF Trees
  <2>5. ASSUME tree' = [tree EXCEPT !.version = v] \/ tree' = [tree EXCEPT !.packaging = p]
        PROVE  tree' \in Trees
    BY <2>1, <2>5 DEF Trees
  <2> QED
    BY <1>1, <2>2, <2>3, <2>4, <2>5
<1>4. /\ run' \in Runs /\ run'.of = run.of /\ run'.step = run.step /\ run'.gate = run.gate
      /\ run'.edited = (run.edited \/ run.of = "gate")
      /\ run'.copied = run.copied /\ run'.version = run.version /\ run'.tracked = run.tracked
      /\ run'.todo = run.todo
  BY <1>2 DEF Inv, Types, Runs
<1>5. Types' /\ TagsInv'
  BY <1>2, <1>3, <1>4 DEF Inv, Types, TagsInv
<1>6. ~run'.edited => Root' = Root
  BY <1>2, <1>4 DEF Root
<1>7. AllowedInv' /\ HeldInv'
  BY <1>2, <1>4, <1>6 DEF Inv, AllowedInv, HeldInv, Refused
<1>8. GateInv' /\ ReleasedIsTheCommit' /\ OnlyDefectsSpend'
  BY <1>2 DEF Inv, GateInv, Steady, FirstSound, ReleasedIsTheCommit, OnlyDefectsSpend
<1> QED
  BY <1>5, <1>7, <1>8 DEF Inv

(* Another backend comes out: what was at fault stays at fault. *)
LEMMA BackendKeeps == ASSUME Inv, NewBackend PROVE Inv'
<1>1. /\ backend' = backend + 1 /\ backend \in Nat \ {0}
      /\ UNCHANGED <<tree, pr, main, tags, run, passed, defective, checked, said, published, breaks>>
  BY DEF NewBackend, records, counts, Inv, Types
<1>2. Types' /\ TagsInv'
  BY <1>1 DEF Inv, Types, TagsInv
<1>3. Root' = Root
  BY <1>1, RootStays
<1>4. AllowedInv' /\ HeldInv'
  BY <1>1, <1>3 DEF Inv, AllowedInv, HeldInv, Refused
<1>5. ~Steady'
  BY <1>1 DEF Steady
<1>6. GateInv' /\ ReleasedIsTheCommit'
  BY <1>1, <1>5 DEF Inv, GateInv, ReleasedIsTheCommit
<1>7. OnlyDefectsSpend'
  <2> SUFFICES ASSUME NEW v \in Versions, said[v] = "spent", breaks = 0
               PROVE  \/ ~tags[v].onMain \/ tags[v].commit.version # v
                      \/ \E k \in 1 .. backend' : Suits[k][tags[v].commit.packaging] # "sound"
                      \/ ~(tags[v].commit.imports \subseteq tags[v].commit.tracked)
    BY <1>1 DEF OnlyDefectsSpend
  <2>1. \A k \in 1 .. backend : k \in 1 .. backend'
    BY <1>1
  <2> QED
    BY <2>1 DEF Inv, OnlyDefectsSpend
<1> QED
  BY <1>2, <1>4, <1>6, <1>7 DEF Inv

-----------------------------------------------------------------------------
LEMMA InitKeeps == Init => Inv
<1> SUFFICES ASSUME Init PROVE Inv
  OBVIOUS
<1>1. PICK modules \in SUBSET Modules, v \in Assigned, p \in Packagings :
        tree = [tracked |-> modules, present |-> modules, imports |-> modules, version |-> v, packaging |-> p]
  BY DEF Init
<1>2. tree \in Trees
  BY <1>1 DEF Trees
<1>3. /\ run = NoRun /\ tags = [w \in Versions |-> NoTag] /\ NoTag \in [commit : Trees, onMain : BOOLEAN]
      /\ NoTag.onMain = FALSE
  BY NoRunIsRun DEF Init, NoTag
<1>4. Types
  BY <1>2, <1>3, NoRunIsRun DEF Init, Types
<1>5. TagsInv
  BY <1>3, NamesAssumption DEF Init, TagsInv, NoRun
<1>6. AllowedInv /\ HeldInv
  BY <1>3 DEF AllowedInv, HeldInv, NoRun
<1>7. GateInv /\ ReleasedIsTheCommit /\ OnlyDefectsSpend
  BY <1>3 DEF Init, GateInv, ReleasedIsTheCommit, OnlyDefectsSpend
<1> QED
  BY <1>4, <1>5, <1>6, <1>7 DEF Inv

LEMMA NextKeeps == Inv /\ [Next]_vars => Inv'
<1> SUFFICES ASSUME Inv, [Next]_vars PROVE Inv'
  OBVIOUS
<1>1. CASE UNCHANGED vars
  <2>1. /\ UNCHANGED <<tree, pr, main, tags, run, passed, defective, checked, said, published, backend, breaks>>
        /\ Root' = Root
    BY <1>1, RootStays DEF vars, outside, records, counts
  <2>2. Types' /\ TagsInv'
    BY <2>1 DEF Inv, Types, TagsInv
  <2>3. AllowedInv' /\ HeldInv'
    BY <2>1 DEF Inv, AllowedInv, HeldInv, Refused
  <2>4. GateInv' /\ ReleasedIsTheCommit' /\ OnlyDefectsSpend'
    BY <2>1 DEF Inv, GateInv, Steady, FirstSound, ReleasedIsTheCommit, OnlyDefectsSpend
  <2> QED
    BY <2>2, <2>3, <2>4 DEF Inv
<1>2. CASE \/ List \/ Others \/ Missing \/ Copy \/ Require \/ Fetch \/ ToolFails \/ BuildBreaks
           \/ Build \/ Create \/ CreateFails
  BY <1>2, CheckKeeps
<1>3. CASE Gate \/ Push \/ Merge \/ Tag \/ Checks \/ Release \/ Edit \/ NewBackend
  BY <1>3, GateKeeps, PushKeeps, MergeKeeps, TagKeeps, ChecksKeeps, ReleaseKeeps, EditKeeps, BackendKeeps
<1> QED
  BY <1>1, <1>2, <1>3 DEF Next, Rest

(* The invariant holds throughout. *)
THEOREM InvHolds == Spec => []Inv
BY InitKeeps, NextKeeps, PTL DEF Spec

(* For every number of modules, versions, backends and steps, whatever is   *)
(* edited meanwhile and however often the job runs, a release is the tagged *)
(* commit of main under its own version, with every module the commit       *)
(* tracks and all that it imports (check_dist.py:7-10, 133-145).            *)
THEOREM ReleasedIsTheCommitHolds == Spec => []ReleasedIsTheCommit
<1>1. Inv => ReleasedIsTheCommit
  BY DEF Inv
<1> QED
  BY InvHolds, <1>1, PTL

(* A tree on which the gate exits 0 while nobody edits it has no module     *)
(* that a release would leave out, and its commit no defect a tag would be  *)
(* spent on, while the backend stays and no build is stopped half way       *)
(* (check_dist.py:3-5, 149-160).                                            *)
THEOREM GateForetellsHolds == Spec => []GateForetells
<1>1. Inv => GateForetells
  <2> SUFFICES ASSUME Inv, NEW t \in passed, Steady, Checkout(t) \in defective PROVE FALSE
    BY DEF Inv, GateInv, GateForetells
  <2>1. t \in Trees
    BY DEF Inv, Types
  <2>2. Checkout(t).packaging = t.packaging /\ Checkout(t).imports = t.imports
        /\ Checkout(t).tracked = t.tracked
    BY <2>1 DEF Checkout, Trees
  <2> QED
    BY <2>2 DEF Inv, GateInv, FirstSound
<1> QED
  BY InvHolds, <1>1, PTL

(* No tool that fails, no network and no disk ever spends a version number: *)
(* behind every tag called spent is its commit, its version or its place    *)
(* off main (check_dist.py:12-19).                                          *)
THEOREM OnlyDefectsSpendHolds == Spec => []OnlyDefectsSpend
<1>1. Inv => OnlyDefectsSpend
  BY DEF Inv
<1> QED
  BY InvHolds, <1>1, PTL
=============================================================================
