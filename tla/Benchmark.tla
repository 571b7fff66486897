------------------------------ MODULE Benchmark ------------------------------
(***************************************************************************)
(* tools/benchmark.py, with print_logs of tools/utils.py: calls of         *)
(* benchmark.main one after the other, as the experiment runner makes      *)
(* them, each setting up Kubernetes jobs in its namespaces, following the  *)
(* logs of one pod per job until it ends, and returning the throughput     *)
(* parsed from them.                                                       *)
(*                                                                         *)
(* Create and load share one job name, and a call knows a job by its name  *)
(* alone, so what a call reads may be the job of an earlier one.  The      *)
(* cluster is external: a job has one pod, "Failed" stands for a job that  *)
(* was given up, and its steps interleave with those of the tool.          *)
(***************************************************************************)
EXTENDS Naturals, FiniteSets

CONSTANTS
  Region,         \* config["regions"]
  Global,         \* the namespace "global"
  GlobalRegion,   \* config["global_region"], one of Region or not
  Operations,     \* the operations that are called
  Filters,        \* values of --regions; {} when the option is not given
  Attempts,       \* attempts of get_job_logs, 10 in the code
  MaxCalls,       \* bound: calls of benchmark.main
  MaxFaults       \* bound: commands, API calls, pods and streams that fail

ASSUME OperationsAssumption ==
  Operations \subseteq {"create", "load", "sload", "execute", "delete"}
ASSUME NamespaceAssumption == Global \notin Region /\ IsFiniteSet(Region)
ASSUME BoundsAssumption ==
  Attempts \in Nat \ {0} /\ MaxCalls \in Nat /\ MaxFaults \in Nat

Namespace == Region \cup {Global}
RegionOf(ns) == IF ns = Global THEN GlobalRegion ELSE ns
JobName == {"create-load", "execute"}
JobOf(op) == IF op = "execute" THEN "execute" ELSE "create-load"

VARIABLES
  pc,             \* "idle", "pre", "do", "log", "wait"
  call,           \* the arguments of the call at hand
  gen,            \* the number of the call at hand
  task,           \* run_benchmark, per namespace and job
  kept,           \* history: jobs whose deletion failed in this call
  job,            \* external: the jobs, with the call that applied each
  log,            \* get_job_logs, per namespace
  left,           \* the attempts get_job_logs has left
  seen,           \* the call whose job's logs are read, per namespace
  printer,        \* the threads of print_logs
  alive_threads, exit_event,
  reported,       \* the namespaces whose throughput was added
  outcome,        \* of the last call: "ok" or "raised"
  faults

vars == <<pc, call, gen, task, kept, job, log, left, seen, printer,
          alive_threads, exit_event, reported, outcome, faults>>

setup == <<task, kept>>
reading == <<log, left, seen>>
printing == <<printer, alive_threads, exit_event, reported>>

NoJob == [gen |-> 0, phase |-> "Succeeded"]
Key == Namespace \X JobName

Fault == faults < MaxFaults /\ faults' = faults + 1

Init ==
  /\ pc = "idle" /\ gen = 0 /\ outcome = "ok" /\ faults = 0
  /\ call = [op |-> "create", only |-> {}, logs_only |-> FALSE]
  /\ task = [k \in Key |-> "off"] /\ kept = {}
  /\ job = [k \in Key |-> NoJob]
  /\ log = [ns \in Namespace |-> "off"]
  /\ left = [ns \in Namespace |-> 0] /\ seen = [ns \in Namespace |-> 0]
  /\ printer = [ns \in Namespace |-> "off"]
  /\ alive_threads = 0 /\ exit_event = FALSE /\ reported = {}

----------------------------------------------------------------------------
Chosen == {ns \in Namespace : call.only = {} \/ RegionOf(ns) \in call.only}

\* The namespaces whose jobs the operation sets up, or whose logs it reads.
Targets ==
  CASE call.op \in {"create", "sload"} -> Chosen \cap {Global}
    [] call.op = "execute" -> Chosen \ {Global}
    [] OTHER -> Chosen

Keys ==
  IF call.op = "delete" THEN Targets \X JobName ELSE Targets \X {JobOf(call.op)}

Sync == call.op \in {"create", "sload"}

\* The call ends, and its threads and locals are gone.
End(o) ==
  /\ pc' = "idle" /\ outcome' = o
  /\ task' = [k \in Key |-> "off"] /\ kept' = {}
  /\ log' = [ns \in Namespace |-> "off"]
  /\ left' = [ns \in Namespace |-> 0] /\ seen' = [ns \in Namespace |-> 0]
  /\ printer' = [ns \in Namespace |-> "off"]
  /\ alive_threads' = 0 /\ exit_event' = FALSE /\ reported' = {}
Goes(to) == pc' = to /\ UNCHANGED <<outcome, reading, printing>>

\* Operation.run up to the call of do, or of log with --logs-only.
Call(op, only, logs_only) ==
  /\ pc = "idle" /\ gen < MaxCalls
  /\ gen' = gen + 1
  /\ call' = [op |-> op, only |-> only, logs_only |-> logs_only]
  /\ pc' = CASE logs_only -> "log"
             [] ~logs_only /\ op = "delete" /\ Global \in Chosen' -> "pre"
             [] OTHER -> "do"
  /\ task' = [k \in Key |-> IF k \in Keys' /\ ~logs_only THEN "delete" ELSE "off"]
  /\ left' = [ns \in Namespace |-> Attempts]
  /\ UNCHANGED <<kept, job, log, seen, printing, outcome, faults>>

\* A slip: the existing job is only deleted by the operation "delete".
DeletedForDelete(k) == IF call.op = "delete" THEN NoJob ELSE job[k]
Deleted(k) == NoJob

\* run_benchmark: helm template, which may raise and touches nothing, kubectl
\* delete (check=False) and, in ApplyJob, kubectl apply (check=True).
DeleteJob(k) ==
  LET deleted == [task EXCEPT ![k] = IF call.op = "delete" THEN "ok" ELSE "apply"] IN
  /\ pc = "do" /\ task[k] = "delete"
  /\ \/ /\ task' = deleted
        /\ job' = [job EXCEPT ![k] = Deleted(k)] /\ UNCHANGED <<kept, faults>>
     \/ Fault /\ task' = deleted /\ kept' = kept \cup {k} /\ UNCHANGED job
     \/ Fault /\ task' = [task EXCEPT ![k] = "raised"] /\ UNCHANGED <<kept, job>>
  /\ UNCHANGED <<pc, call, gen, reading, printing, outcome>>

\* Delete.do deletes the global create-load job by itself, before its pool.
PreDelete ==
  LET k == <<Global, "create-load">> IN
  /\ pc = "pre"
  /\ \/ Goes("do") /\ job' = [job EXCEPT ![k] = NoJob] /\ UNCHANGED <<setup, faults>>
     \/ Goes("do") /\ Fault /\ kept' = kept \cup {k} /\ UNCHANGED <<job, task>>
     \/ End("raised") /\ Fault /\ UNCHANGED job
  /\ UNCHANGED <<call, gen>>

\* An existing job is left as it is when nothing in it changed, and cannot be
\* changed otherwise.
ApplyJob(k) ==
  /\ pc = "do" /\ task[k] = "apply"
  /\ \/ /\ task' = [task EXCEPT ![k] = "ok"]
        /\ job' = IF job[k].gen # 0 THEN job
                  ELSE [job EXCEPT ![k] = [gen |-> gen, phase |-> "Pending"]]
        /\ UNCHANGED faults
     \/ /\ task' = [task EXCEPT ![k] = "raised"]
        /\ IF job[k].gen # 0 THEN UNCHANGED faults ELSE Fault
        /\ UNCHANGED job
  /\ UNCHANGED <<pc, call, gen, kept, reading, printing, outcome>>

SetUp == \A k \in Keys : task[k] \in {"ok", "raised"}

\* What a failed setup does to the call: create and sload run it themselves,
\* the others leave the exception in a future that nobody reads.  A pool of
\* no workers cannot be made.
SetupRaises ==
  \/ Sync /\ \E k \in Keys : task[k] = "raised"
  \/ call.op = "execute" /\ Targets = {}

EndDo ==
  /\ pc = "do" /\ SetUp
  /\ IF SetupRaises THEN End("raised") ELSE Goes("log") /\ UNCHANGED setup
  /\ UNCHANGED <<call, gen, job, faults>>

----------------------------------------------------------------------------
\* delete has no log, and neither has create or sload in another region.
NoLogs ==
  /\ pc = "log" /\ (call.op = "delete" \/ (Sync /\ Targets = {}))
  /\ End("ok")
  /\ UNCHANGED <<call, gen, job, faults>>

\* get_job_logs: the job is read; it may be absent, or the call may fail.
ReadJob(ns) ==
  LET k == <<ns, JobOf(call.op)>> IN
  /\ pc = "log" /\ call.op # "delete" /\ ns \in Targets /\ log[ns] = "off"
  /\ \/ /\ job[k].gen # 0
        /\ log' = [log EXCEPT ![ns] = "pods"]
        /\ seen' = [seen EXCEPT ![ns] = job[k].gen]
        /\ UNCHANGED faults
     \/ /\ log' = [log EXCEPT ![ns] = "raised"]
        /\ IF job[k].gen = 0 THEN UNCHANGED faults ELSE Fault
        /\ UNCHANGED seen
  /\ UNCHANGED <<pc, call, gen, setup, job, left, printing, outcome>>

Pod(ns) == job[<<ns, JobOf(call.op)>>].phase

\* The loop that waits for a pod that is running, pending or succeeded, which
\* an exception other than ApiException ends.
FindPod(ns) ==
  /\ pc = "log" /\ log[ns] = "pods"
  /\ \/ /\ Pod(ns) # "Failed" /\ log' = [log EXCEPT ![ns] = "logs"]
        /\ UNCHANGED faults
     \/ Fault /\ log' = [log EXCEPT ![ns] = "raised"]
  /\ UNCHANGED <<pc, call, gen, setup, job, left, seen, printing, outcome>>

HasAttempt(n) == n > 0

\* The attempts to open the log, which a pending pod does not have.  An
\* ApiException costs one attempt, any other exception raises at once.
OpenLog(ns) ==
  LET retry == left' = [left EXCEPT ![ns] = @ - 1] /\ UNCHANGED log
      ends(with) == log' = [log EXCEPT ![ns] = with] /\ UNCHANGED left
  IN
  /\ pc = "log" /\ log[ns] = "logs"
  /\ \/ ~HasAttempt(left[ns]) /\ ends("raised") /\ UNCHANGED faults
     \/ /\ HasAttempt(left[ns])
        /\ IF Pod(ns) = "Pending" THEN retry ELSE ends("got")
        /\ UNCHANGED faults
     \/ HasAttempt(left[ns]) /\ Fault /\ (retry \/ ends("raised"))
  /\ UNCHANGED <<pc, call, gen, setup, job, seen, printing, outcome>>

LogRaised == \E ns \in Targets : log[ns] = "raised"

\* print_logs reads the results of the pool, which raises what they raised,
\* and starts one thread per log.
PrintLogs ==
  /\ pc = "log" /\ call.op # "delete" /\ ~(Sync /\ Targets = {})
  /\ \A ns \in Targets : log[ns] \in {"got", "raised"}
  /\ IF LogRaised
       THEN End("raised")
       ELSE /\ printer' = [ns \in Namespace |->
                             IF ns \in Targets THEN "reading" ELSE "off"]
            /\ alive_threads' = Cardinality(Targets)
            /\ pc' = "wait"
            /\ UNCHANGED <<outcome, setup, reading, exit_event, reported>>
  /\ UNCHANGED <<call, gen, job, faults>>

\* A slip: no thread sets the event.
NoThread(n) == FALSE
LastThread(n) == n = 0

\* A slip: the last result counts, not the sum.
Replace(results, ns) == {ns}
Add(results, ns) == results \cup {ns}

\* A thread comes to the end of its log; a job that failed printed no result.
EndPrint(ns) ==
  /\ pc = "wait" /\ printer[ns] = "reading" /\ Pod(ns) \in {"Succeeded", "Failed"}
  /\ printer' = [printer EXCEPT ![ns] = "ended"]
  /\ alive_threads' = alive_threads - 1
  /\ exit_event' = (exit_event \/ LastThread(alive_threads'))
  /\ reported' = IF call.op = "execute" /\ Pod(ns) = "Succeeded"
                   THEN Add(reported, ns) ELSE reported
  /\ UNCHANGED <<pc, call, gen, setup, job, reading, outcome, faults>>

\* The stream breaks, or a line cannot be decoded: the thread raises.
DiePrint(ns) ==
  /\ pc = "wait" /\ printer[ns] = "reading" /\ Fault
  /\ printer' = [printer EXCEPT ![ns] = "died"]
  /\ UNCHANGED <<pc, call, gen, setup, job, reading, alive_threads, exit_event,
                 reported, outcome>>

\* exit_event.wait() returns.
Return ==
  /\ pc = "wait" /\ exit_event
  /\ End("ok")
  /\ UNCHANGED <<call, gen, job, faults>>

----------------------------------------------------------------------------
\* External: the pods of the jobs.
PodStep(k) ==
  /\ job[k].gen # 0
  /\ \/ /\ job[k].phase = "Pending" /\ UNCHANGED faults
        /\ job' = [job EXCEPT ![k].phase = "Running"]
     \/ /\ job[k].phase = "Running" /\ UNCHANGED faults
        /\ job' = [job EXCEPT ![k].phase = "Succeeded"]
     \/ /\ job[k].phase \in {"Pending", "Running"} /\ Fault
        /\ job' = [job EXCEPT ![k].phase = "Failed"]
  /\ UNCHANGED <<pc, call, gen, setup, reading, printing, outcome>>

Tool ==
  \/ \E k \in Key : DeleteJob(k) \/ ApplyJob(k)
  \/ PreDelete \/ EndDo \/ NoLogs \/ PrintLogs \/ Return
  \/ \E ns \in Namespace : \/ ReadJob(ns) \/ FindPod(ns) \/ OpenLog(ns)
                           \/ EndPrint(ns) \/ DiePrint(ns)

Next ==
  \/ \E op \in Operations, only \in Filters, logs_only \in BOOLEAN :
       Call(op, only, logs_only)
  \/ Tool
  \/ \E k \in Key : PodStep(k)

Spec == Init /\ [][Next]_vars

\* The tool takes a step while it can, and so does each pod.  This is all that
\* is asked: which of its threads runs next is open.
FairSpec == Spec /\ WF_vars(Tool) /\ \A k \in Key : WF_vars(PodStep(k))

----------------------------------------------------------------------------
\* The type invariant.
TypeOK ==
  /\ pc \in {"idle", "pre", "do", "log", "wait"} /\ outcome \in {"ok", "raised"}
  /\ call \in [op : {"create"} \cup Operations, only : {{}} \cup Filters,
               logs_only : BOOLEAN]
  /\ gen \in 0..MaxCalls /\ faults \in 0..MaxFaults
  /\ task \in [Key -> {"off", "delete", "apply", "ok", "raised"}]
  /\ kept \subseteq Key
  /\ job \in [Key -> [gen : 0..MaxCalls,
                      phase : {"Pending", "Running", "Succeeded", "Failed"}]]
  /\ log \in [Namespace -> {"off", "pods", "logs", "got", "raised"}]
  /\ left \in [Namespace -> 0..Attempts] /\ seen \in [Namespace -> 0..MaxCalls]
  /\ printer \in [Namespace -> {"off", "reading", "ended", "died"}]
  /\ alive_threads \in Nat /\ exit_event \in BOOLEAN
  /\ reported \subseteq Namespace

\* A call that set up its own jobs never takes the logs of an earlier job of
\* the same name for its own: a namespace whose logs are stale is one whose
\* setup raised, or whose old job could not be deleted.
StaleHasCause ==
  pc = "wait" /\ ~call.logs_only =>
    \A ns \in Targets : LET k == <<ns, JobOf(call.op)>> IN
      seen[ns] = gen \/ task[k] = "raised" \/ k \in kept

\* The call returns only when every log was read to its end, so that no thread
\* is still reading and none has died, and the throughput of an execution
\* without any failure is the sum over all its namespaces.
FullResult ==
  pc = "wait" /\ exit_event =>
    /\ \A ns \in Targets : printer[ns] = "ended"
    /\ call.op = "execute" /\ faults = 0 => reported = Targets

\* The reasons for a call that never returns: no namespace was chosen, a thread
\* of print_logs died before it counted itself out, or the pods of a job failed
\* before the tool found one.
Hopeless ==
  \/ pc = "wait" /\ Targets = {}
  \/ \E ns \in Targets : printer[ns] = "died"
  \/ \E ns \in Targets : log[ns] = "pods" /\ Pod(ns) = "Failed"

\* Every call returns, whatever fails, but for these reasons: get_job_logs gives
\* up after its attempts, and exit_event is set however the threads end.
CallReturns == pc # "idle" ~> pc = "idle" \/ Hopeless
=============================================================================
