------------------------------- MODULE Release -------------------------------
(***************************************************************************)
(* Building, checking and releasing (tools/check_dist.py, and the gate and *)
(* the release workflow that run it, .github/workflows).                   *)
(*                                                                         *)
(* A tree has the modules git tracks, those that are on disk, those        *)
(* onus/__init__.py imports, the version it assigns, and a packaging (what *)
(* the other files make of the artifacts).  A run of check_dist builds     *)
(* from the maintainer's working tree, from a pull request's checkout, or  *)
(* from a tag's.  Every run fetches the newest build backend there is.     *)
(***************************************************************************)
EXTENDS Integers, Sequences, FiniteSets

CONSTANTS Modules,
          Versions, Assigned,    \* those that are tagged, those that a tree may assign
          Backends,              \* those that come out, the oldest 1
          Suits,                 \* what a backend makes of a packaging: "sound", "defective", "refused"
          MaxEdits, MaxMerges, MaxFailures, MaxBreaks   \* bounds on the environment

VARIABLES tree,      \* the working tree
          pr,        \* the tree of the pull request
          main,      \* the trees merged
          tags,      \* permanent: the tagged commit, and whether it is on main
          run,       \* the run of check_dist, one at a time
          passed,    \* trees nobody edited while the gate ran and exited 0
          defective, \* commits a run exited 3 on
          checked,   \* "pr", and the tags, whose gate passed
          said,      \* what the release workflow last said of a tag
          published, \* what each release holds
          backend, edits, failures, breaks

outside == <<tree, pr, main, tags, backend, edits>>
records == <<passed, defective, checked, said>>
counts  == <<failures, breaks>>
vars    == <<outside, run, records, published, counts>>

Packagings == DOMAIN Suits[1]

(* No tag and no module has a name that stands for something else here.    *)
ASSUME NamesAssumption ==
  /\ {"none", "gate", "pr"} \cap Versions = {}
  /\ {"init", "packaging"} \cap Modules = {}

ASSUME ReleaseAssumption ==
  /\ Backends \subseteq Nat \ {0} /\ 1 \in Backends
  /\ Suits \in [Backends -> [Packagings -> {"sound", "defective", "refused", "unreadable"}]]

DEFECTIVE == 3
NOT_BUILT == 4

NoTree == [tracked |-> {}, present |-> {}, imports |-> {}, version |-> "none", packaging |-> "none"]
NoTag  == [commit |-> NoTree, onMain |-> FALSE]
NoRun  == [of |-> "none", step |-> "none", version |-> "none", tracked |-> {}, todo |-> {}, copied |-> NoTree,
           edited |-> FALSE, gate |-> FALSE]

(* What a checkout of the tree's commit holds. *)
Checkout(t) == [t EXCEPT !.present = t.tracked]

Root == CASE run.of = "gate" -> tree
          [] run.of = "pr" -> pr
          [] OTHER -> tags[run.of].commit

Files(tracked) == tracked \cup {"init", "packaging"}

-----------------------------------------------------------------------------
(* check_dist *)

Start(of, version, gate) ==
  run' = [NoRun EXCEPT !.of = of, !.step = "list", !.version = version, !.gate = gate]

(* The run exits; one that was to release a tag also says something. *)
Exit(code, message) ==
  /\ run' = NoRun
  /\ passed' = IF run.of = "gate" /\ code = 0 /\ ~run.edited THEN passed \cup {tree} ELSE passed
  /\ defective' = IF run.of # "gate" /\ code = DEFECTIVE THEN defective \cup {Root} ELSE defective
  /\ checked' = IF run.gate /\ code = 0 THEN checked \cup {run.of} ELSE checked
  /\ said' = IF run.gate THEN said ELSE [said EXCEPT ![run.of] = message]

Fail(code) ==
  /\ Exit(code, IF code = DEFECTIVE THEN "spent" ELSE "re-run")
  /\ UNCHANGED <<outside, published, counts>>

Go(next) == run' = next /\ UNCHANGED <<outside, records, published, counts>>

(* git ls-files *)
List == run.step = "list" /\ Go([run EXCEPT !.step = "others", !.tracked = Root.tracked])

(* Mutant: what git does not track is left to the maintainer. *)
OthersIgnored == run.step = "others" /\ Go([run EXCEPT !.step = "missing"])

(* git ls-files --others; stray_modules *)
Others ==
  /\ run.step = "others"
  /\ IF Root.present \subseteq Root.tracked THEN Go([run EXCEPT !.step = "missing"]) ELSE Fail(NOT_BUILT)

(* Tracked, but missing from the working tree. *)
Missing ==
  /\ run.step = "missing"
  /\ IF run.tracked \subseteq Root.present
     THEN Go([run EXCEPT !.step = "copy", !.todo = Files(run.tracked)])
     ELSE Fail(NOT_BUILT)

(* One file after another into the scratch folder, in no order. *)
Copy ==
  /\ run.step = "copy"
  /\ \E file \in run.todo :
       LET next == [run EXCEPT !.todo = @ \ {file}, !.step = IF run.todo = {file} THEN "require" ELSE "copy"]
       IN  \/ file \in Modules \ Root.present /\ Fail(NOT_BUILT)
           \/ file \in Modules \cap Root.present /\ Go([next EXCEPT !.copied.tracked = @ \cup {file}])
           \/ file = "init" /\ Go([next EXCEPT !.copied.version = Root.version, !.copied.imports = Root.imports])
           \/ file = "packaging" /\ Go([next EXCEPT !.copied.packaging = Root.packaging])

Made(copied) == Suits[backend][copied.packaging]

(* build_requirements *)
Require ==
  /\ run.step = "require"
  /\ IF Made(run.copied) = "unreadable" THEN Fail(DEFECTIVE) ELSE Go([run EXCEPT !.step = "fetch"])

Fetch == run.step = "fetch" /\ Go([run EXCEPT !.step = "build"])

(* Mutant: whatever stops the build is a defect. *)
CodeOfFailureDefect == DEFECTIVE

CodeOfFailure == NOT_BUILT

(* A tool does not start, the network or the disk fails. *)
ToolFails ==
  /\ run.step \in {"list", "others", "copy", "fetch", "build"} /\ failures < MaxFailures
  /\ Exit(CodeOfFailure, IF CodeOfFailure = DEFECTIVE THEN "spent" ELSE "re-run")
  /\ failures' = failures + 1
  /\ UNCHANGED <<outside, published, breaks>>

(* uv build starts, and is stopped by something else than the files. *)
BuildBreaks ==
  /\ run.step = "build" /\ breaks < MaxBreaks
  /\ Exit(DEFECTIVE, "spent")
  /\ breaks' = breaks + 1
  /\ UNCHANGED <<outside, published, failures>>

(* problems: the files' names and metadata, and what the wheel reports *)
Problems(copied, version) ==
  Made(copied) # "sound" \/ copied.version # version \/ ~(copied.imports \subseteq copied.tracked)

(* uv build; problems *)
Build ==
  /\ run.step = "build"
  /\ IF Made(run.copied) = "refused" \/ Problems(run.copied, run.version)
     THEN Fail(DEFECTIVE)
     ELSE IF run.gate THEN Exit(0, "none") /\ UNCHANGED <<outside, published, counts>>
     ELSE Go([run EXCEPT !.step = "create"])

-----------------------------------------------------------------------------
(* The gate, the pull request and the release workflow *)

Gate == run = NoRun /\ Start("gate", tree.version, TRUE) /\ UNCHANGED <<outside, records, published, counts>>

(* The working tree's commit is pushed, and checked there. *)
Push ==
  /\ run = NoRun /\ Len(main) < MaxMerges
  /\ pr' = Checkout(tree) /\ checked' = checked \ {"pr"} /\ Start("pr", tree.version, TRUE)
  /\ UNCHANGED <<tree, main, tags, passed, defective, said, published, backend, edits, counts>>

(* "all checks passed" is required. *)
Merge ==
  /\ run = NoRun /\ "pr" \in checked /\ Len(main) < MaxMerges
  /\ main' = Append(main, pr) /\ pr' = NoTree /\ checked' = checked \ {"pr"}
  /\ UNCHANGED <<tree, tags, run, passed, defective, said, published, backend, edits, counts>>

(* The maintainer tags a merge, or a commit of the working tree. *)
Tag ==
  /\ \E v \in Versions :
       /\ tags[v] = NoTag
       /\ \/ \E k \in DOMAIN main : tags' = [tags EXCEPT ![v] = [commit |-> main[k], onMain |-> TRUE]]
          \/ tags' = [tags EXCEPT ![v] = [commit |-> Checkout(tree), onMain |-> FALSE]]
  /\ UNCHANGED <<tree, pr, main, run, records, published, backend, edits, counts>>

(* The workflow's gate runs on the tagged commit; a re-run of a job that    *)
(* passed is not needed.                                                    *)
Checks ==
  /\ run = NoRun
  /\ \E v \in Versions \ checked : tags[v] # NoTag /\ Start(v, tags[v].commit.version, TRUE)
  /\ UNCHANGED <<outside, records, published, counts>>

(* Mutant: the tag may be anywhere. *)
RefusedMismatch(v) == tags[v].commit.version # v

(* "Refuse a tag that is not a release of main" *)
Refused(v) == ~tags[v].onMain \/ tags[v].commit.version # v

(* The release job starts, or is run again. *)
Release ==
  /\ run = NoRun
  /\ \E v \in Versions \cap checked :
       /\ published[v] = NoTree
       /\ \/ ~Refused(v) /\ Start(v, v, FALSE) /\ UNCHANGED <<said, failures>>
          \/ Refused(v) /\ said' = [said EXCEPT ![v] = "spent"] /\ UNCHANGED <<run, failures>>
          \/ /\ failures < MaxFailures /\ failures' = failures + 1    \* main could not be fetched
             /\ said' = [said EXCEPT ![v] = "re-run"] /\ UNCHANGED run
  /\ UNCHANGED <<outside, passed, defective, checked, published, breaks>>

(* gh release create *)
Create ==
  /\ run.step = "create"
  /\ published' = [published EXCEPT ![run.of] = run.copied]
  /\ Exit(0, "released")
  /\ UNCHANGED <<outside, counts>>

CreateFails ==
  /\ run.step = "create" /\ failures < MaxFailures /\ failures' = failures + 1
  /\ Exit(0, "failed")
  /\ UNCHANGED <<outside, published, breaks>>

(* The maintainer works on, whatever runs. *)
Edit ==
  /\ edits < MaxEdits /\ edits' = edits + 1
  /\ \E m \in Modules, v \in Assigned, p \in Packagings :
       \/ \E used \in SUBSET {m} : tree' = [tree EXCEPT !.present = @ \cup {m}, !.imports = @ \cup used]
       \/ tree' = [tree EXCEPT !.tracked = @ \cup (tree.present \cap {m})]
       \/ tree' = [tree EXCEPT !.present = @ \ {m}]
       \/ tree' = [tree EXCEPT !.version = v]
       \/ tree' = [tree EXCEPT !.packaging = p]
  /\ run' = IF run.of = "gate" THEN [run EXCEPT !.edited = TRUE] ELSE run
  /\ UNCHANGED <<pr, main, tags, records, published, backend, counts>>

NewBackend ==
  /\ backend + 1 \in Backends /\ backend' = backend + 1
  /\ UNCHANGED <<tree, pr, main, tags, run, records, published, edits, counts>>

Rest == run = NoRun /\ UNCHANGED vars

Init ==
  /\ \E modules \in SUBSET Modules, v \in Assigned, p \in Packagings :
       tree = [tracked |-> modules, present |-> modules, imports |-> modules, version |-> v, packaging |-> p]
  /\ pr = NoTree /\ main = <<>> /\ tags = [v \in Versions |-> NoTag] /\ run = NoRun
  /\ passed = {} /\ defective = {} /\ checked = {}
  /\ said = [v \in Versions |-> "none"] /\ published = [v \in Versions |-> NoTree]
  /\ backend = 1 /\ edits = 0 /\ failures = 0 /\ breaks = 0

Next ==
  \/ List \/ Others \/ Missing \/ Copy \/ Require \/ Fetch \/ ToolFails \/ BuildBreaks \/ Build
  \/ Gate \/ Push \/ Merge \/ Tag \/ Checks \/ Release \/ Create \/ CreateFails
  \/ Edit \/ NewBackend \/ Rest

Spec == Init /\ [][Next]_vars

-----------------------------------------------------------------------------
(* Properties *)

(* A release is the tagged commit of main under its own version, with every *)
(* module the commit tracks and all that it imports: whatever was edited    *)
(* meanwhile, and however often the job ran (check_dist.py:7-10, 133-145;   *)
(* release.yml:3-6).                                                        *)
ReleasedIsTheCommit ==
  \A v \in Versions : published[v] # NoTree =>
    /\ \E k \in DOMAIN main : main[k] = tags[v].commit
    /\ published[v].version = v
    /\ published[v].tracked = tags[v].commit.tracked
    /\ tags[v].commit.imports \subseteq published[v].tracked

(* No build was stopped half way, and the backend is the first one still. *)
Steady == breaks = 0 /\ backend = 1

(* Nobody edits while the gate runs, and it exits 0: then no module on disk *)
(* would be left out of a release, and that commit has no defect a tag      *)
(* would be spent on, while the backend stays what it is (check_dist.py:    *)
(* 3-5, 149-160, 208-210).                                                  *)
GateForetells ==
  \A t \in passed : t.present = t.tracked /\ (Steady => Checkout(t) \notin defective)

(* A tag is called spent only if its commit, its version or its place off   *)
(* main is at fault: no tool that fails, no network or disk spends a        *)
(* version number (check_dist.py:12-19; release.yml:69-71).                 *)
OnlyDefectsSpend ==
  \A v \in Versions : said[v] = "spent" /\ breaks = 0 =>
    \/ ~tags[v].onMain \/ tags[v].commit.version # v
    \/ \E k \in 1 .. backend : Suits[k][tags[v].commit.packaging] # "sound"
    \/ ~(tags[v].commit.imports \subseteq tags[v].commit.tracked)
=============================================================================
