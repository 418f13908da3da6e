------------------------------ MODULE Baseline ------------------------------
(***************************************************************************)
(* Approved baselines (onus/baseline/_approved.py): suites that run beside *)
(* each other, comparing or recording, over one approved folder, while the *)
(* source and the files are edited and suites are killed.                  *)
(*                                                                         *)
(* A suite is a sequence of assertApproved calls, in the order they run.   *)
(* A call is [stem, ext, text, record, forbid]: the scrubbed text it       *)
(* produces now, the record of its producer, arguments and scrubbers, and  *)
(* the texts its forbid patterns match.  A stem belongs to one test.  A    *)
(* source is [suite, unreal]: unreal are the producers that are mocks, not *)
(* importable, or written among the tests (unreal, 86-117).  A suite ends  *)
(* with the check of ApprovedProducersAreReal.                             *)
(***************************************************************************)
EXTENDS Integers, Sequences, FiniteSets, SequencesExt

CONSTANTS Suites,    \* processes that run the suite
          Sources,   \* what the source may be
          Texts, Records, Stems, Exts,
          Nothing, Cut,  \* no file; a file cut short, which no text or record is
          MaxStarts, MaxEdits  \* bounds on the runs started and the files edited by hand

Calls == [stem : Stems, ext : Exts, text : Texts, record : Records, forbid : SUBSET Texts]

ASSUME SourcesAssumption ==
  /\ IsFiniteSet(Exts)
  /\ \A source \in Sources : source.suite \in Seq(Calls)

ASSUME FilesAssumption ==
  Nothing # Cut /\ {Nothing, Cut} \cap Texts = {} /\ {Nothing, Cut} \cap Records = {}

VARIABLES approved,  \* text files, by stem and ext
          meta,      \* the record beside them, by stem
          run,       \* where each suite is
          spent      \* starts and edits so far

vars == <<approved, meta, run, spent>>

Modes == {"compare", "record", "elsewhere"}

Idle == [pc |-> "idle", mode |-> "compare", source |-> Nothing, todo |-> <<>>,
         held |-> {}, failed |-> FALSE, calm |-> TRUE]

Init ==
  /\ approved = [stem \in Stems |-> [ext \in Exts |-> Nothing]]
  /\ meta = [stem \in Stems |-> Nothing]
  /\ run = [s \in Suites |-> Idle]
  /\ spent = [starts |-> 0, edits |-> 0]

Running(s) == run[s].pc \notin {"idle", "ended"}

(* The suite's own step; a write disturbs the others. *)
Goes(s, state)  == run' = [run EXCEPT ![s] = state]
Disturbs(s, state) ==
  run' = [q \in Suites |-> IF q = s THEN state ELSE [run[q] EXCEPT !.calm = FALSE]]

Call(s)      == Head(run[s].todo)
At(s, pc)    == [run[s] EXCEPT !.pc = pc]

Passed(s)    == [run[s] EXCEPT !.pc = "call", !.todo = Tail(@)]
Failed(s)    == [run[s] EXCEPT !.pc = "call", !.todo = Tail(@), !.failed = TRUE]

(* A suite runs the source as it is when it starts.  ONUS_APPROVE_ROOT is   *)
(* unset, set to the checkout, or to something else.                        *)
Start(s) ==
  /\ ~Running(s) /\ spent.starts < MaxStarts
  /\ \E mode \in Modes, source \in Sources :
       Goes(s, [Idle EXCEPT !.pc = "call", !.mode = mode, !.source = source, !.todo = source.suite])
  /\ spent' = [spent EXCEPT !.starts = @ + 1]
  /\ UNCHANGED <<approved, meta>>

-----------------------------------------------------------------------------
(* assertApproved *)

Refused(s) ==
  \/ Call(s).record.producer \in run[s].source.unreal
  \/ Call(s).stem \in run[s].held

Produced(s) ==
  CASE Call(s).text \in Call(s).forbid -> Failed(s)
    [] Call(s).text \notin Call(s).forbid /\ run[s].mode = "compare"   -> At(s, "look")
    [] Call(s).text \notin Call(s).forbid /\ run[s].mode = "record"    -> At(s, "out")
    [] Call(s).text \notin Call(s).forbid /\ run[s].mode = "elsewhere" -> Failed(s)

Produce(s) ==
  /\ run[s].pc = "call" /\ run[s].todo # <<>>
  /\ Goes(s, IF Refused(s) THEN Failed(s)
             ELSE [Produced(s) EXCEPT !.held = @ \cup {Call(s).stem}])
  /\ UNCHANGED <<approved, meta, spent>>

File(s) == approved[Call(s).stem][Call(s).ext]

Look(s) ==
  /\ run[s].pc = "look"
  /\ Goes(s, IF Nothing \in {File(s), meta[Call(s).stem]} THEN Failed(s) ELSE At(s, "readout"))
  /\ UNCHANGED <<approved, meta, spent>>

(* Mutant: the record is not read. *)
ReadOutOnly(s) ==
  /\ run[s].pc = "readout"
  /\ Goes(s, IF File(s) # Call(s).text THEN Failed(s) ELSE Passed(s))
  /\ UNCHANGED <<approved, meta, spent>>

(* A file that is gone by now is an error, which fails the test too. *)
ReadOut(s) ==
  /\ run[s].pc = "readout"
  /\ Goes(s, IF File(s) # Call(s).text THEN Failed(s) ELSE At(s, "readmeta"))
  /\ UNCHANGED <<approved, meta, spent>>

ReadMeta(s) ==
  /\ run[s].pc = "readmeta"
  /\ Goes(s, IF meta[Call(s).stem] # Call(s).record THEN Failed(s) ELSE Passed(s))
  /\ UNCHANGED <<approved, meta, spent>>

-----------------------------------------------------------------------------
(* _record: each file only when it differs; opening it cuts it. *)

SetFile(s, content) == approved' = [approved EXCEPT ![Call(s).stem][Call(s).ext] = content]

(* Mutant: the file is written anew each time. *)
OpenOutAnyway(s) ==
  /\ run[s].pc = "out"
  /\ Disturbs(s, At(s, "fillout")) /\ SetFile(s, Cut)
  /\ UNCHANGED <<meta, spent>>

(* Mutant: a text that is right already is taken to have its record. *)
OpenOutAlone(s) ==
  /\ run[s].pc = "out"
  /\ IF File(s) = Call(s).text THEN Goes(s, Passed(s)) /\ UNCHANGED approved
     ELSE Disturbs(s, At(s, "fillout")) /\ SetFile(s, Cut)
  /\ UNCHANGED <<meta, spent>>

OpenOut(s) ==
  /\ run[s].pc = "out"
  /\ IF File(s) = Call(s).text THEN Goes(s, At(s, "meta")) /\ UNCHANGED approved
     ELSE Disturbs(s, At(s, "fillout")) /\ SetFile(s, Cut)
  /\ UNCHANGED <<meta, spent>>

FillOut(s) ==
  /\ run[s].pc = "fillout"
  /\ SetFile(s, Call(s).text) /\ Disturbs(s, At(s, "meta"))
  /\ UNCHANGED <<meta, spent>>

OpenMeta(s) ==
  /\ run[s].pc = "meta"
  /\ IF meta[Call(s).stem] = Call(s).record THEN Goes(s, Passed(s)) /\ UNCHANGED meta
     ELSE /\ meta' = [meta EXCEPT ![Call(s).stem] = Cut]
          /\ Disturbs(s, At(s, "fillmeta"))
  /\ UNCHANGED <<approved, spent>>

FillMeta(s) ==
  /\ run[s].pc = "fillmeta"
  /\ meta' = [meta EXCEPT ![Call(s).stem] = Call(s).record]
  /\ Disturbs(s, Passed(s))
  /\ UNCHANGED <<approved, spent>>

-----------------------------------------------------------------------------
(* ApprovedProducersAreReal *)

Outputs(stem) == {ext \in Exts : approved[stem][ext] # Nothing}

(* Some record; to each record one file and to each file a record; each     *)
(* record whole, and of a real producer.                                    *)
FolderIsWhole(unreal) ==
  /\ \E stem \in Stems : meta[stem] # Nothing
  /\ \A stem \in Stems :
       /\ Cardinality(Outputs(stem)) = IF meta[stem] = Nothing THEN 0 ELSE 1
       /\ meta[stem] # Nothing => meta[stem] # Cut /\ meta[stem].producer \notin unreal

CheckFolder(s) ==
  /\ run[s].pc = "call" /\ run[s].todo = <<>>
  /\ Goes(s, [run[s] EXCEPT !.pc = "ended", !.held = {},
                !.failed = @ \/ ~FolderIsWhole(run[s].source.unreal)])
  /\ UNCHANGED <<approved, meta, spent>>

Suite(s) == \/ Start(s) \/ Produce(s) \/ Look(s) \/ ReadOut(s) \/ ReadMeta(s)
            \/ OpenOut(s) \/ FillOut(s) \/ OpenMeta(s) \/ FillMeta(s) \/ CheckFolder(s)

-----------------------------------------------------------------------------
(* What happens around it *)

Kill(s) ==
  /\ Running(s) /\ Goes(s, Idle)
  /\ UNCHANGED <<approved, meta, spent>>

(* A file is deleted, restored, or written by hand. *)
EditFile ==
  /\ spent.edits < MaxEdits
  /\ \E stem \in Stems :
       \/ /\ \E ext \in Exts, content \in Texts \cup {Nothing} :
               approved' = [approved EXCEPT ![stem][ext] = content]
          /\ UNCHANGED meta
       \/ /\ \E content \in Records \cup {Nothing} : meta' = [meta EXCEPT ![stem] = content]
          /\ UNCHANGED approved
  /\ run' = [s \in Suites |-> [run[s] EXCEPT !.calm = FALSE]]
  /\ spent' = [spent EXCEPT !.edits = @ + 1]

Rest ==
  /\ \A s \in Suites : ~Running(s)
  /\ spent.starts = MaxStarts /\ UNCHANGED vars

Next == (\E s \in Suites : Suite(s) \/ Kill(s)) \/ EditFile \/ Rest

Spec == Init /\ [][Next]_vars

-----------------------------------------------------------------------------
(* Properties *)

(* Every call of a suite is of a real producer, forbids nothing it makes,   *)
(* and has a stem of its own.                                               *)
Proper(suite, unreal) ==
  \A i \in DOMAIN suite :
    /\ suite[i].record.producer \notin unreal /\ suite[i].text \notin suite[i].forbid
    /\ \A j \in DOMAIN suite : suite[i].stem = suite[j].stem => i = j

(* The pair a call wants stands alone under its stem. *)
Stands(call) ==
  /\ approved[call.stem] = [ext \in Exts |-> IF ext = call.ext THEN call.text ELSE Nothing]
  /\ meta[call.stem] = call.record

(* A pair that no call wants is left alone if it is whole. *)
LeftBehind(stem, unreal) ==
  \/ meta[stem] = Nothing /\ Outputs(stem) = {}
  \/ meta[stem] \in Records /\ meta[stem].producer \notin unreal /\ Cardinality(Outputs(stem)) = 1

(* A suite that compares undisturbed passes exactly if its calls are proper *)
(* and every approved file, every record and nothing beside them is there,  *)
(* whatever was killed, raced or edited before (_approved.py:171-178,       *)
(* 309-312).                                                                *)
CalmCompareIsRight ==
  \A s \in Suites :
    LET was == run[s].source
    IN  run[s].pc = "ended" /\ run[s].mode = "compare" /\ run[s].calm =>
          (~run[s].failed <=>
             /\ Proper(was.suite, was.unreal)
             /\ \A i \in DOMAIN was.suite : Stands(was.suite[i])
             /\ \E stem \in Stems : meta[stem] # Nothing
             /\ \A stem \in Stems \ {was.suite[i].stem : i \in DOMAIN was.suite} :
                  LeftBehind(stem, was.unreal))

(* A suite that records undisturbed, and passes, leaves what a comparison   *)
(* wants, from whatever an earlier kill or race left half written           *)
(* (_approved.py:180-182, 292-295).                                         *)
RecordingRepairs ==
  \A s \in Suites :
    run[s].pc = "ended" /\ run[s].mode = "record" /\ run[s].calm /\ ~run[s].failed =>
      \A i \in DOMAIN run[s].source.suite : Stands(run[s].source.suite[i])

(* Runs of one source leave a folder that is right for it alone: "A file    *)
(* already equal to the output is not rewritten" (docs/plan.md:438), so a   *)
(* comparison beside a recording run sees no file cut short                 *)
(* (_approved.py:293-295).                                                  *)
RightStaysRight ==
  [][\A from \in Sources :
       LET Right == Proper(from.suite, from.unreal) /\ \A i \in DOMAIN from.suite : Stands(from.suite[i])
       IN  /\ spent'.edits = spent.edits /\ Right
           /\ \A s \in Suites : Running(s) => run[s].source = from
           => Right']_vars
=============================================================================
