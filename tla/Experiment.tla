----------------------------- MODULE Experiment -----------------------------
(***************************************************************************)
(* The loop of tools/experiment.py that runs the cases of an experiment,   *)
(* the progress file that lets an interrupted experiment be resumed, and   *)
(* the counter that decides when the database is created and loaded again. *)
(*                                                                         *)
(* A case is known to the progress file by its metadata alone, so two      *)
(* cases that replacement rules make equal share one record.  What         *)
(* benchmark.main does is external to this module: a call does its work,   *)
(* raises, or returns although it failed, as it does when the set-up of a  *)
(* region raises in a future nobody reads or a pod fails (see Benchmark).  *)
(* A start of the program reads the file unless --new is given, and ends   *)
(* normally, at the user's refusal, or by an interruption, which is not an *)
(* Exception and so is caught nowhere.                                     *)
(***************************************************************************)
EXTENDS Integers, Sequences

CONSTANTS
  Metadata,       \* the metadata of the cases
  Cases,          \* the cases in the order benchmark_args yields them
  ReloadEvery,    \* exp["reload_every"], 0 when it is not given
  MaxErrors,      \* bound: calls of benchmark.main that raise, or return without their work
  MaxInterrupts   \* bound: interruptions, refusals, and starts with --new or --dry-run

ASSUME CasesAssumption == Cases \in Seq(Metadata)
ASSUME ReloadEveryAssumption == ReloadEvery \in Nat
ASSUME BoundsAssumption == MaxErrors \in Nat /\ MaxInterrupts \in Nat

VARIABLES
  disk,           \* the rows of the progress file; no file reads as no rows
  progress,       \* Progress.progress, the records in memory
  pc,             \* where the program is, "down" when it does not run
  pos,            \* the next case of the generator
  cur,            \* the record of the case at hand
  reload_counter,
  args,           \* --skip-create-load and --dry-run of this start
  db,             \* external: "unknown", "partial" (created, or half loaded),
                  \* "loaded", or "spoiled" by a call that hid its failure
  last,           \* history: how the last execution of each metadata ended
  saved,          \* history: metadata a finished save() has recorded as done
                  \* and that no interrupted one has lost since
  since_load,     \* history: executions tried since the last load
  fresh,          \* history: no load since the start or the last error
  errors, interrupts

vars == <<disk, progress, pc, pos, cur, reload_counter, args, db, last, saved,
          since_load, fresh, errors, interrupts>>

history == <<last, saved, since_load, fresh>>
budget == <<errors, interrupts>>

Status == {"done", "error", "pending"}
Record == [meta : Metadata, status : Status, reloaded : BOOLEAN]

\* An execution that returned did its work, or hid a failure, or was a dry run;
\* one that failed raised or was interrupted.
Returned == {"ran", "hidden", "dry"}
Outcome == Returned \cup {"never", "failed"}

Init ==
  /\ disk = <<>> /\ progress = <<>>
  /\ pc = "down" /\ pos = 1 /\ cur = 0
  /\ reload_counter = 0
  /\ args = [skip |-> FALSE, dry |-> FALSE]
  /\ db = "unknown"
  /\ last = [m \in Metadata |-> "never"] /\ saved = {} /\ since_load = 0 /\ fresh = TRUE
  /\ errors = 0 /\ interrupts = 0

----------------------------------------------------------------------------
\* A slip: the counter of a resumed experiment starts at its full value.
FullCounter == IF disk = <<>> THEN 0 ELSE ReloadEvery
FirstCounter == 0

\* Progress.load, or its absence with --new, and the locals of main.
Start(new, skip, dry) ==
  /\ pc = "down"
  /\ new \/ dry => interrupts < MaxInterrupts
  /\ progress' = IF new THEN <<>> ELSE disk
  /\ saved' = IF new THEN {} ELSE saved
  /\ interrupts' = IF new \/ dry THEN interrupts + 1 ELSE interrupts
  /\ args' = [skip |-> skip, dry |-> dry]
  /\ pc' = "next" /\ pos' = 1 /\ cur' = 0
  /\ reload_counter' = FirstCounter
  /\ fresh' = TRUE
  /\ UNCHANGED <<disk, db, last, since_load, errors>>

----------------------------------------------------------------------------
\* save() truncates the file when it opens it and has written the rows when it
\* closes it: the caller goes to a control point of its own in between.
BeginSave(at) == disk' = <<>> /\ pc' = at

DoneIn(records) ==
  {records[k].meta : k \in {j \in DOMAIN records : records[j].status = "done"}}

\* A slip: a record is only saved once its case was tried.
EndSaveTried ==
  /\ disk' = SelectSeq(progress, LAMBDA r : r.status # "pending")
  /\ saved' = saved \cup DoneIn(progress)

EndSave ==
  /\ disk' = progress
  /\ saved' = saved \cup DoneIn(progress)

\* The records get_or_insert compares the metadata with, in its order.
Matching(m) == {k \in DOMAIN progress : progress[k].meta = m}
First(K) == CHOOSE k \in K : \A j \in K : k <= j

\* Two slips: no case is skipped; a failed case is skipped as well.
SkipNone(k) == FALSE
SkipTried(k) == progress[k].status # "pending"
Skip(k) == progress[k].status = "done"

\* The head of the loop: get_or_insert, the skipping of a done case, and the
\* insertion of a new record.
NextCase ==
  /\ pc = "next" /\ pos <= Len(Cases)
  /\ LET m == Cases[pos] IN
     \/ /\ Matching(m) # {}
        /\ LET k == First(Matching(m)) IN
           IF Skip(k)
             THEN pos' = pos + 1 /\ UNCHANGED <<pc, cur>>
             ELSE pc' = "decide" /\ cur' = k /\ UNCHANGED pos
        /\ UNCHANGED <<disk, progress>>
     \/ /\ Matching(m) = {}
        /\ progress' = Append(progress, [meta |-> m, status |-> "pending",
                                         reloaded |-> FALSE])
        /\ cur' = Len(progress) + 1
        /\ BeginSave("insert")
        /\ UNCHANGED pos
  /\ UNCHANGED <<reload_counter, args, db, history, budget>>

SaveInserted ==
  /\ pc = "insert"
  /\ EndSave
  /\ pc' = "decide"
  /\ UNCHANGED <<progress, pos, cur, reload_counter, args, db, last,
                 since_load, fresh, budget>>

\* --interactive: a refusal leaves the loop, and the record, as they are.
Refuse ==
  /\ pc = "decide" /\ interrupts < MaxInterrupts
  /\ interrupts' = interrupts + 1
  /\ pc' = "join"
  /\ UNCHANGED <<disk, progress, pos, cur, reload_counter, args, db, history,
                 errors>>

\* Is the database created and loaded before this execution?
ReloadDue == ~args.skip /\ reload_counter = 0

Decide ==
  /\ pc = "decide"
  /\ pc' = IF ReloadDue THEN "create" ELSE "execute"
  /\ UNCHANGED <<disk, progress, pos, cur, reload_counter, args, db, history,
                 budget>>

\* A call of benchmark.main that returns.  Nothing in what it returns tells one
\* that did its work from one that failed in a thread or in a pod.
Returns(worked) ==
  /\ worked \/ (errors < MaxErrors /\ ~args.dry)
  /\ errors' = IF worked THEN errors ELSE errors + 1
  /\ UNCHANGED interrupts

\* benchmark.main(["create", ...]): the tables are dropped and made anew.
Create ==
  /\ pc = "create"
  /\ \E worked \in BOOLEAN :
       /\ Returns(worked)
       /\ db' = IF args.dry THEN db ELSE IF worked THEN "partial" ELSE "spoiled"
  /\ pc' = "load"
  /\ UNCHANGED <<disk, progress, pos, cur, reload_counter, args, history>>

\* The data is what it should be when neither this call nor the one before it
\* hid a failure; the program goes on in any case.
Load ==
  /\ pc = "load"
  /\ \E worked \in BOOLEAN :
       /\ Returns(worked)
       /\ db' = IF args.dry THEN db
                ELSE IF worked /\ db = "partial" THEN "loaded" ELSE "spoiled"
  /\ progress' = [progress EXCEPT ![cur].reloaded = TRUE]
  /\ reload_counter' = ReloadEvery
  /\ since_load' = 0 /\ fresh' = FALSE
  /\ pc' = "execute"
  /\ UNCHANGED <<disk, pos, cur, args, last, saved>>

\* How the execution of the case at hand ended.
Ended(outcome) == last' = [last EXCEPT ![progress[cur].meta] = outcome]

\* benchmark.main(["execute", ...]) returns a result, of the jobs it finds.
Execute ==
  /\ pc = "execute"
  /\ \E worked \in BOOLEAN :
       /\ Returns(worked)
       /\ Ended(IF args.dry THEN "dry" ELSE IF worked THEN "ran" ELSE "hidden")
  /\ since_load' = since_load + 1
  /\ pc' = "finish"
  /\ UNCHANGED <<disk, progress, pos, cur, reload_counter, args, db, saved,
                 fresh>>

\* A slip: the executions are not counted.
Uncounted(c) == c
Counted(c) == c - 1

\* The else branch of the try statement, and the save() that follows it.
Done ==
  /\ pc = "finish"
  /\ progress' = [progress EXCEPT ![cur].status = "done"]
  /\ reload_counter' = Counted(reload_counter)
  /\ BeginSave("save")
  /\ UNCHANGED <<pos, cur, args, db, history, budget>>

\* A slip: a failure is recorded as done.
FailureAsDone == "done"
Failure == "error"

\* What a create or a load that does not return leaves behind.
BrokenOff ==
  CASE pc = "create" /\ ~args.dry -> {db, "partial"}
    [] pc = "load" /\ ~args.dry -> {"partial"}
    [] OTHER -> {db}

\* The except branch, for create, load and execute, and for the submission of
\* the result to the collector.
Fail ==
  /\ pc \in {"create", "load", "execute", "finish"}
  /\ errors < MaxErrors /\ errors' = errors + 1
  /\ db' \in BrokenOff
  /\ IF pc = "execute" THEN Ended("failed") ELSE UNCHANGED last
  /\ since_load' = IF pc = "execute" THEN since_load + 1 ELSE since_load
  /\ progress' = [progress EXCEPT ![cur].status = Failure]
  /\ reload_counter' = 0
  /\ fresh' = TRUE
  /\ BeginSave("save")
  /\ UNCHANGED <<pos, cur, args, saved, interrupts>>

SaveResult ==
  /\ pc = "save"
  /\ EndSave
  /\ pc' = "next" /\ pos' = pos + 1
  /\ UNCHANGED <<progress, cur, reload_counter, args, db, last,
                 since_load, fresh, budget>>

EndLoop ==
  /\ pc = "next" /\ pos > Len(Cases)
  /\ pc' = "join"
  /\ UNCHANGED <<disk, progress, pos, cur, reload_counter, args, db, history,
                 budget>>

\* collector.join() (module ResultCollector), and the end of the program.
Exit ==
  /\ pc = "join"
  /\ pc' = "down"
  /\ UNCHANGED <<disk, progress, pos, cur, reload_counter, args, db, history,
                 budget>>

\* The program is interrupted.  Inside save() any number of rows may have
\* reached the file; a row that was cut short no longer matches its case.
Interrupt ==
  /\ pc # "down" /\ interrupts < MaxInterrupts
  /\ interrupts' = interrupts + 1
  /\ IF pc \in {"insert", "save"}
       THEN \E n \in 0..Len(progress) :
              /\ disk' = SubSeq(progress, 1, n)
              /\ saved' = saved \cap DoneIn(disk')
       ELSE UNCHANGED <<disk, saved>>
  /\ db' \in BrokenOff
  /\ IF pc = "execute" THEN Ended("failed") ELSE UNCHANGED last
  /\ pc' = "down"
  /\ UNCHANGED <<progress, pos, cur, reload_counter, args, since_load, fresh,
                 errors>>

Next ==
  \/ \E new, skip, dry \in BOOLEAN : Start(new, skip, dry)
  \/ NextCase \/ SaveInserted \/ Refuse \/ Decide
  \/ Create \/ Load \/ Execute \/ Done \/ Fail
  \/ SaveResult \/ EndLoop \/ Exit \/ Interrupt

Spec == Init /\ [][Next]_vars

\* The program runs until it stops, and whoever runs the experiment starts it
\* again, without --skip-create-load and --dry-run, while cases are left.
FairSpec ==
  /\ Spec
  /\ WF_vars(Start(FALSE, FALSE, FALSE))
  /\ WF_vars(NextCase \/ SaveInserted \/ Decide \/ Create \/ Load \/ Execute
               \/ Done \/ SaveResult \/ EndLoop \/ Exit)

----------------------------------------------------------------------------
Working == {"decide", "create", "load", "execute", "finish"}

\* The type invariant.
TypeOK ==
  /\ disk \in Seq(Record) /\ progress \in Seq(Record)
  /\ pc \in Working \cup {"down", "next", "insert", "save", "join"}
  /\ pos \in Nat \ {0}
  /\ cur \in Nat
  /\ reload_counter \in Int
  /\ args \in [skip : BOOLEAN, dry : BOOLEAN]
  /\ db \in {"unknown", "partial", "loaded", "spoiled"}
  /\ last \in [Metadata -> Outcome] /\ saved \subseteq Metadata
  /\ since_load \in Nat /\ fresh \in BOOLEAN
  /\ errors \in 0..MaxErrors /\ interrupts \in 0..MaxInterrupts

\* "On resuming, the successful cases will be skipped" (module docstring): a
\* case that a finished save() recorded as done is not run again, whatever
\* interrupted the program since, unless --new asks for it, or save() itself was
\* interrupted after it had emptied the file and before it wrote that record.
SavedDoneIsSkipped == pc \in Working => progress[cur].meta \notin saved

\* A failure that is seen is never taken for a success: a record says "done"
\* only when the last execution of its metadata, by this start or an earlier
\* one, returned, and never of one that raised or was interrupted.  That is all
\* the word tells: a dry run writes it too, and so does an execution that hid a
\* failure of its own.
DoneHasReturned ==
  \A k \in DOMAIN progress :
    progress[k].status = "done" => last[progress[k].meta] \in Returned

\* The loop never executes on a database whose creation or loading raised or
\* was interrupted, by this start or by an earlier one, before it has created
\* and loaded it again: what it executes on is loaded, or spoiled by a call
\* that returned although it had failed.
ExecutesOnLoaded ==
  pc = "execute" /\ ~args.skip /\ ~args.dry => db \in {"loaded", "spoiled"}

\* "The number of data points between reloads of the database": with
\* reload_every given, no more than that many executions share one load, and a
\* load comes earlier only at a start and after an error.
ReloadOnTime ==
  /\ pc = "execute" /\ ~args.skip /\ ReloadEvery > 0 => since_load < ReloadEvery
  /\ pc = "create" /\ ~fresh => ReloadEvery > 0 /\ since_load = ReloadEvery

\* While a case runs, the file holds what memory holds, but for the record of
\* that case: this is the point an interrupted experiment resumes from.
SavedPoint ==
  pc \in Working =>
    /\ cur \in DOMAIN progress
    /\ DOMAIN disk = DOMAIN progress
    /\ \A k \in DOMAIN disk \ {cur} : disk[k] = progress[k]

\* An experiment that is started again as long as cases are left completes,
\* after finitely many errors and interruptions.
Completes ==
  <>[](\A m \in {Cases[i] : i \in DOMAIN Cases} :
         \E k \in DOMAIN progress : progress[k].meta = m /\ progress[k].status = "done")
=============================================================================
