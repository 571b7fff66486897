--------------------------- MODULE BenchmarkProofs ---------------------------
(***************************************************************************)
(* Proofs about the benchmark driver: a call that set up its own jobs does *)
(* not read the logs of earlier ones without a cause, and it returns with  *)
(* the results of all its namespaces.                                      *)
(*                                                                         *)
(* The first is about the end of three phases, so the invariant says of    *)
(* each what is known of the job of a namespace: which call it is of.  The *)
(* second rests on alive_threads being the number of the threads that have *)
(* not come to the end of their logs, the ones that died included.         *)
(***************************************************************************)
EXTENDS Benchmark, FiniteSetTheorems, TLAPS

USE OperationsAssumption, NamespaceAssumption, BoundsAssumption

KeyOf(ns) == <<ns, JobOf(call.op)>>

\* What a call keeps for itself is gone when it ends.
LocalsInv ==
  /\ pc = "pre" => call.op = "delete"
  /\ pc \notin {"log", "wait"} => log = [ns \in Namespace |-> "off"]
  /\ pc = "wait" => call.op # "delete" /\ \A ns \in Targets : log[ns] = "got"
  /\ pc # "wait" => exit_event = FALSE /\ reported = {}

\* The job is of this call, or there is a cause for its not being.
OwnJob(k) == job[k].gen = gen \/ k \in kept

\* While run_benchmark works: a job of an earlier call is still there only
\* before its deletion, or because that failed.
SetupInv ==
  ~call.logs_only /\ call.op # "delete" =>
    /\ pc \in {"pre", "do"} => \A k \in Keys :
         /\ task[k] \in {"delete", "apply", "ok", "raised"}
         /\ task[k] = "apply" => job[k].gen = 0 \/ k \in kept
         /\ task[k] = "ok" => OwnJob(k)
    /\ pc \in {"log", "wait"} => \A k \in Keys :
         task[k] = "raised" \/ (task[k] = "ok" /\ OwnJob(k))

\* What get_job_logs reads, in each of its steps.
ReadInv ==
  pc \in {"log", "wait"} /\ ~call.logs_only => \A ns \in Targets :
    log[ns] \in {"pods", "logs", "got"} =>
      seen[ns] = gen \/ task[KeyOf(ns)] = "raised" \/ KeyOf(ns) \in kept

Open == {ns \in Targets : printer[ns] \in {"reading", "died"}}

\* The threads of print_logs and their counter.
PrintInv ==
  pc = "wait" =>
    /\ \A ns \in Namespace : printer[ns] # "off" <=> ns \in Targets
    /\ alive_threads = Cardinality(Open)
    /\ exit_event => Open = {}
    /\ call.op = "execute" /\ faults = 0 =>
         reported = {ns \in Targets : printer[ns] = "ended"}

\* Without a failure no job is given up.
NoneFailed == faults = 0 => \A k \in Key : job[k].phase # "Failed"

BInv ==
  /\ TypeOK /\ LocalsInv /\ SetupInv /\ ReadInv /\ PrintInv /\ NoneFailed

----------------------------------------------------------------------------
\* The namespaces and jobs of a call.
LEMMA TargetsAre ==
  /\ Targets \subseteq Namespace /\ IsFiniteSet(Targets)
  /\ Keys \subseteq Key
  /\ call.op # "delete" => \A ns \in Targets : KeyOf(ns) \in Keys
<1>1. IsFiniteSet(Namespace)
  BY FS_AddElement DEF Namespace
<1>2. Chosen \subseteq Namespace
  BY DEF Chosen
<1>3. Targets \subseteq Namespace
  BY <1>2 DEF Targets
<1>4. IsFiniteSet(Targets)
  BY <1>1, <1>3, FS_Subset
<1>5. Keys \subseteq Key
  BY <1>3 DEF Keys, Key, JobName, JobOf
<1>6. call.op # "delete" => \A ns \in Targets : KeyOf(ns) \in Keys
  BY DEF Keys, KeyOf
<1> QED
  BY <1>3, <1>4, <1>5, <1>6

\* They are the same throughout the call.
LEMMA SameCall ==
  ASSUME UNCHANGED call
  PROVE  Targets' = Targets /\ Keys' = Keys /\ \A ns : KeyOf(ns)' = KeyOf(ns)
<1>1. Chosen' = Chosen
  BY DEF Chosen
<1>2. Targets' = Targets
  BY <1>1 DEF Targets
<1>3. Keys' = Keys
  BY <1>2 DEF Keys
<1>4. \A ns : KeyOf(ns)' = KeyOf(ns)
  BY DEF KeyOf
<1> QED
  BY <1>2, <1>3, <1>4

\* The key of a namespace is a key.
LEMMA KeyType == \A ns \in Namespace : KeyOf(ns) \in Key
BY DEF KeyOf, Key, JobName, JobOf

\* A call that ends leaves nothing but its jobs.
LEMMA EndKeeps ==
  ASSUME BInv, NEW o \in {"ok", "raised"}, End(o), UNCHANGED <<call, gen>>,
         job' \in [Key -> [gen : 0..MaxCalls,
                           phase : {"Pending", "Running", "Succeeded", "Failed"}]],
         faults' \in 0..MaxFaults, NoneFailed'
  PROVE  BInv'
<1>1. pc' = "idle" /\ exit_event' = FALSE /\ reported' = {} /\ kept' = {}
  BY DEF End
<1>2. TypeOK'
  <2>1. exit_event' \in BOOLEAN
    BY <1>1
  <2> QED
    BY <1>1, <2>1 DEF BInv, TypeOK, End
<1>3. LocalsInv' /\ SetupInv' /\ ReadInv' /\ PrintInv'
  BY <1>1 DEF End, LocalsInv, SetupInv, ReadInv, PrintInv
<1> QED
  BY <1>2, <1>3 DEF BInv

\* A new call.
LEMMA CallStep ==
  ASSUME BInv, NEW op \in Operations, NEW only \in Filters, NEW logs_only \in BOOLEAN,
         Call(op, only, logs_only)
  PROVE  BInv'
<1>0. /\ TypeOK /\ LocalsInv /\ NoneFailed /\ pc = "idle"
      /\ call' = [op |-> op, only |-> only, logs_only |-> logs_only]
      /\ gen' = gen + 1 /\ gen < MaxCalls
      /\ task' = [k \in Key |-> IF k \in Keys' /\ ~logs_only THEN "delete" ELSE "off"]
      /\ left' = [ns \in Namespace |-> Attempts]
      /\ UNCHANGED <<kept, job, log, seen, printing, outcome, faults>>
  BY DEF BInv, Call
<1>1. /\ call'.logs_only = logs_only /\ call'.op = op
      /\ pc' \in {"log", "pre", "do"} /\ (~logs_only => pc' # "log")
      /\ pc' = "pre" => op = "delete"
  <2>1. pc' = CASE logs_only -> "log"
               [] ~logs_only /\ op = "delete" /\ Global \in Chosen' -> "pre"
               [] OTHER -> "do"
    BY Zenon DEF Call
  <2> QED
    BY <1>0, <2>1
<1>2. TypeOK'
  <2>1. call' \in [op : {"create"} \cup Operations, only : {{}} \cup Filters,
                   logs_only : BOOLEAN]
    BY <1>0
  <2>2. task' \in [Key -> {"off", "delete", "apply", "ok", "raised"}]
    BY <1>0
  <2>3. gen' \in 0..MaxCalls /\ left' \in [Namespace -> 0..Attempts]
    BY <1>0 DEF TypeOK
  <2> QED
    BY <1>0, <1>1, <2>1, <2>2, <2>3 DEF TypeOK, printing
<1>3. LocalsInv' /\ PrintInv' /\ NoneFailed'
  BY <1>0, <1>1 DEF LocalsInv, PrintInv, NoneFailed, printing
<1>4. SetupInv'
  <2>1. ~logs_only => pc' \notin {"log", "wait"} /\ \A k \in Keys' : task'[k] = "delete"
    <3>1. Keys' \subseteq Key
      <4>1. Targets' \subseteq Namespace
        BY DEF Targets, Chosen
      <4> QED
        BY <4>1 DEF Keys, Key, JobName, JobOf
    <3> QED
      BY <1>0, <1>1, <3>1
  <2> QED
    BY <1>1, <2>1 DEF SetupInv
<1>5. ReadInv'
  BY <1>0, <1>1 DEF ReadInv
<1> QED
  BY <1>2, <1>3, <1>4, <1>5 DEF BInv

\* What a step of run_benchmark leaves alone.
LEMMA SetupFrame ==
  ASSUME BInv, pc = "do", UNCHANGED <<pc, call, gen, reading, printing, outcome>>,
         task' \in [Key -> {"off", "delete", "apply", "ok", "raised"}],
         kept' \subseteq Key,
         job' \in [Key -> [gen : 0..MaxCalls,
                           phase : {"Pending", "Running", "Succeeded", "Failed"}]],
         faults' \in 0..MaxFaults
  PROVE  TypeOK' /\ LocalsInv' /\ ReadInv' /\ PrintInv'
<1>1. TypeOK'
  BY DEF BInv, TypeOK, reading, printing
<1>2. LocalsInv' /\ ReadInv' /\ PrintInv'
  BY DEF BInv, LocalsInv, ReadInv, PrintInv, reading, printing
<1> QED
  BY <1>1, <1>2

\* The setup of the other jobs stays as it is.
LEMMA SetupOne ==
  ASSUME BInv, pc = "do", NEW k \in Key, UNCHANGED <<pc, call, gen>>,
         \A j \in Key \ {k} : task'[j] = task[j] /\ job'[j].gen = job[j].gen,
         kept \subseteq kept',
         ~call.logs_only /\ call.op # "delete" /\ k \in Keys =>
           /\ task'[k] \in {"apply", "ok", "raised"}
           /\ task'[k] = "apply" => job'[k].gen = 0 \/ k \in kept'
           /\ task'[k] = "ok" => job'[k].gen = gen \/ k \in kept'
  PROVE  SetupInv'
<1> SUFFICES ASSUME ~call.logs_only, call.op # "delete", NEW j \in Keys
             PROVE  /\ task'[j] \in {"delete", "apply", "ok", "raised"}
                    /\ task'[j] = "apply" => job'[j].gen = 0 \/ j \in kept'
                    /\ task'[j] = "ok" => job'[j].gen = gen \/ j \in kept'
  BY SameCall DEF SetupInv, OwnJob
<1>1. CASE j = k
  BY <1>1
<1>2. CASE j # k
  <2>1. /\ task'[j] = task[j] /\ job'[j].gen = job[j].gen
    BY <1>2, TargetsAre
  <2> QED
    BY <2>1 DEF BInv, SetupInv, OwnJob
<1> QED
  BY <1>1, <1>2

LEMMA DeleteJobStep ==
  ASSUME BInv, NEW k \in Key, DeleteJob(k)
  PROVE  BInv'
<1> DEFINE deleted == [task EXCEPT ![k] = IF call.op = "delete" THEN "ok" ELSE "apply"]
<1>0. /\ TypeOK /\ NoneFailed /\ pc = "do" /\ task[k] = "delete"
      /\ UNCHANGED <<pc, call, gen, reading, printing, outcome>>
      /\ task \in [Key -> {"off", "delete", "apply", "ok", "raised"}]
      /\ kept \subseteq Key
      /\ job \in [Key -> [gen : 0..MaxCalls,
                          phase : {"Pending", "Running", "Succeeded", "Failed"}]]
      /\ faults \in 0..MaxFaults
  BY DEF BInv, TypeOK, DeleteJob
<1>1. CASE task' = deleted /\ job' = [job EXCEPT ![k] = Deleted(k)]
           /\ UNCHANGED <<kept, faults>>
  <2>1. TypeOK' /\ LocalsInv' /\ ReadInv' /\ PrintInv'
    BY <1>0, <1>1, SetupFrame DEF Deleted, NoJob
  <2>2. SetupInv'
    BY <1>0, <1>1, SetupOne DEF Deleted, NoJob
  <2>3. NoneFailed'
    BY <1>0, <1>1 DEF NoneFailed, Deleted, NoJob
  <2> QED
    BY <2>1, <2>2, <2>3 DEF BInv
<1>2. CASE Fault /\ task' = deleted /\ kept' = kept \cup {k} /\ UNCHANGED job
  <2>1. TypeOK' /\ LocalsInv' /\ ReadInv' /\ PrintInv'
    BY <1>0, <1>2, SetupFrame DEF Fault
  <2>2. SetupInv'
    BY <1>0, <1>2, SetupOne
  <2>3. NoneFailed'
    BY <1>0, <1>2 DEF NoneFailed, Fault
  <2> QED
    BY <2>1, <2>2, <2>3 DEF BInv
<1>3. CASE Fault /\ task' = [task EXCEPT ![k] = "raised"] /\ UNCHANGED <<kept, job>>
  <2>1. TypeOK' /\ LocalsInv' /\ ReadInv' /\ PrintInv'
    BY <1>0, <1>3, SetupFrame DEF Fault
  <2>2. SetupInv'
    BY <1>0, <1>3, SetupOne
  <2>3. NoneFailed'
    BY <1>0, <1>3 DEF NoneFailed, Fault
  <2> QED
    BY <2>1, <2>2, <2>3 DEF BInv
<1> QED
  BY <1>1, <1>2, <1>3 DEF DeleteJob

LEMMA ApplyJobStep ==
  ASSUME BInv, NEW k \in Key, ApplyJob(k)
  PROVE  BInv'
<1>0. /\ TypeOK /\ NoneFailed /\ SetupInv /\ pc = "do" /\ task[k] = "apply"
      /\ UNCHANGED <<pc, call, gen, kept, reading, printing, outcome>>
      /\ task \in [Key -> {"off", "delete", "apply", "ok", "raised"}]
      /\ kept \subseteq Key /\ gen \in 0..MaxCalls
      /\ job \in [Key -> [gen : 0..MaxCalls,
                          phase : {"Pending", "Running", "Succeeded", "Failed"}]]
      /\ faults \in 0..MaxFaults
  BY DEF BInv, TypeOK, ApplyJob
<1>1. CASE /\ task' = [task EXCEPT ![k] = "ok"]
           /\ job' = IF job[k].gen # 0 THEN job
                     ELSE [job EXCEPT ![k] = [gen |-> gen, phase |-> "Pending"]]
           /\ UNCHANGED faults
  <2>1. TypeOK' /\ LocalsInv' /\ ReadInv' /\ PrintInv'
    <3>1. job' \in [Key -> [gen : 0..MaxCalls,
                            phase : {"Pending", "Running", "Succeeded", "Failed"}]]
      BY <1>0, <1>1
    <3>2. task' \in [Key -> {"off", "delete", "apply", "ok", "raised"}]
      BY <1>0, <1>1
    <3> QED
      BY <1>0, <1>1, <3>1, <3>2, SetupFrame
  <2>2. SetupInv'
    <3>1. /\ \A j \in Key \ {k} : task'[j] = task[j] /\ job'[j].gen = job[j].gen
          /\ task'[k] = "ok"
          /\ job[k].gen = 0 => job'[k].gen = gen
      BY <1>0, <1>1
    <3>2. ~call.logs_only /\ call.op # "delete" /\ k \in Keys =>
            job'[k].gen = gen \/ k \in kept'
      BY <1>0, <3>1 DEF SetupInv
    <3> QED
      BY <1>0, <3>1, <3>2, SetupOne
  <2>3. NoneFailed'
    BY <1>0, <1>1 DEF NoneFailed
  <2> QED
    BY <2>1, <2>2, <2>3 DEF BInv
<1>2. CASE /\ task' = [task EXCEPT ![k] = "raised"] /\ UNCHANGED job
           /\ UNCHANGED faults \/ Fault
  <2>1. TypeOK' /\ LocalsInv' /\ ReadInv' /\ PrintInv'
    BY <1>0, <1>2, SetupFrame DEF Fault
  <2>2. SetupInv'
    BY <1>0, <1>2, SetupOne
  <2>3. NoneFailed'
    BY <1>0, <1>2 DEF NoneFailed, Fault
  <2> QED
    BY <2>1, <2>2, <2>3 DEF BInv
<1> QED
  BY <1>1, <1>2 DEF ApplyJob

\* Delete.do removes the global job before its pool starts.
LEMMA PreDeleteStep ==
  ASSUME BInv, PreDelete
  PROVE  BInv'
<1> DEFINE k == <<Global, "create-load">>
<1>0. /\ TypeOK /\ NoneFailed /\ LocalsInv /\ SetupInv /\ pc = "pre" /\ k \in Key
      /\ UNCHANGED <<call, gen>>
      /\ job \in [Key -> [gen : 0..MaxCalls,
                          phase : {"Pending", "Running", "Succeeded", "Failed"}]]
      /\ faults \in 0..MaxFaults
  BY DEF BInv, TypeOK, PreDelete, Key, Namespace, JobName
<1>1. CASE End("raised") /\ Fault /\ UNCHANGED job
  <2>1. faults' \in 0..MaxFaults /\ NoneFailed'
    BY <1>0, <1>1 DEF Fault, NoneFailed
  <2> QED
    BY <1>0, <1>1, <2>1, EndKeeps
<1>2. CASE /\ Goes("do") /\ UNCHANGED task /\ kept' \in {kept, kept \cup {k}}
           /\ job' \in {job, [job EXCEPT ![k] = NoJob]}
           /\ UNCHANGED faults \/ Fault
  <2>1. /\ job' \in [Key -> [gen : 0..MaxCalls,
                             phase : {"Pending", "Running", "Succeeded", "Failed"}]]
        /\ faults' \in 0..MaxFaults
    BY <1>0, <1>2 DEF NoJob, Fault
  <2>6. kept' \subseteq Key
    BY <1>0, <1>2 DEF TypeOK
  <2>2. TypeOK'
    BY <1>0, <1>2, <2>1, <2>6 DEF TypeOK, Goes, reading, printing
  <2>3. NoneFailed'
    <3>1. faults' = 0 => faults = 0
      BY <1>0, <1>2 DEF Fault
    <3>2. \A m \in Key : job'[m] \in {job[m], NoJob}
      BY <1>0, <1>2
    <3>3. NoJob.phase # "Failed"
      BY DEF NoJob
    <3> QED
      BY <1>0, <3>1, <3>2, <3>3 DEF NoneFailed
  <2>4. LocalsInv' /\ ReadInv' /\ PrintInv'
    BY <1>0, <1>2 DEF LocalsInv, ReadInv, PrintInv, Goes, reading, printing
  <2>5. SetupInv'
    BY <1>0 DEF SetupInv, LocalsInv
  <2> QED
    BY <2>2, <2>3, <2>4, <2>5 DEF BInv
<1>3. CASE Goes("do") /\ job' = [job EXCEPT ![k] = NoJob] /\ UNCHANGED <<setup, faults>>
  BY <1>0, <1>2, <1>3 DEF setup
<1>4. CASE Goes("do") /\ Fault /\ kept' = kept \cup {k} /\ UNCHANGED <<job, task>>
  BY <1>0, <1>2, <1>4
<1> QED
  BY <1>1, <1>3, <1>4 DEF PreDelete

LEMMA EndDoStep ==
  ASSUME BInv, EndDo
  PROVE  BInv'
<1>0. /\ TypeOK /\ NoneFailed /\ NoneFailed' /\ LocalsInv /\ SetupInv /\ pc = "do" /\ SetUp
      /\ UNCHANGED <<call, gen, job, faults>>
      /\ job \in [Key -> [gen : 0..MaxCalls,
                          phase : {"Pending", "Running", "Succeeded", "Failed"}]]
      /\ faults \in 0..MaxFaults
  BY DEF BInv, TypeOK, EndDo, NoneFailed
<1>1. CASE SetupRaises
  BY <1>0, <1>1, EndKeeps DEF EndDo
<1>2. CASE ~SetupRaises
  <2>0. pc' = "log" /\ UNCHANGED <<outcome, reading, printing, setup>>
    BY <1>2 DEF EndDo, Goes
  <2>1. TypeOK'
    BY <1>0, <2>0 DEF TypeOK, reading, printing, setup
  <2>2. LocalsInv' /\ PrintInv'
    BY <1>0, <2>0 DEF LocalsInv, PrintInv, printing
  <2>3. ReadInv'
    <3>1. \A ns \in Namespace : log'[ns] = "off"
      BY <1>0, <2>0 DEF LocalsInv, reading
    <3> QED
      BY <1>0, <2>0, <3>1, SameCall, TargetsAre DEF ReadInv
  <2>4. SetupInv'
    <3> SUFFICES ASSUME ~call.logs_only, call.op # "delete", NEW k \in Keys
                 PROVE  task[k] = "raised" \/ (task[k] = "ok" /\ OwnJob(k))
      BY <1>0, <2>0, SameCall DEF SetupInv, OwnJob, setup
    <3> QED
      BY <1>0 DEF SetupInv, SetUp
  <2> QED
    BY <1>0, <2>1, <2>2, <2>3, <2>4 DEF BInv
<1> QED
  BY <1>1, <1>2

----------------------------------------------------------------------------
LEMMA NoLogsStep ==
  ASSUME BInv, NoLogs
  PROVE  BInv'
<1>0. End("ok") /\ UNCHANGED <<call, gen, job, faults>> /\ NoneFailed'
  BY DEF BInv, NoLogs, NoneFailed
<1> QED
  BY <1>0, EndKeeps DEF BInv, TypeOK

\* What a step of get_job_logs leaves alone.
LEMMA ReadFrame ==
  ASSUME BInv, pc = "log",
         UNCHANGED <<pc, call, gen, setup, job, printing, outcome>>,
         log' \in [Namespace -> {"off", "pods", "logs", "got", "raised"}],
         left' \in [Namespace -> 0..Attempts], seen' \in [Namespace -> 0..MaxCalls],
         faults' \in 0..MaxFaults, faults' = 0 => faults = 0
  PROVE  TypeOK' /\ LocalsInv' /\ SetupInv' /\ PrintInv' /\ NoneFailed'
<1>1. TypeOK'
  BY DEF BInv, TypeOK, printing, setup
<1>2. LocalsInv' /\ PrintInv' /\ NoneFailed'
  BY DEF BInv, LocalsInv, PrintInv, NoneFailed, printing
<1>3. SetupInv'
  BY SameCall DEF BInv, SetupInv, OwnJob, setup
<1> QED
  BY <1>1, <1>2, <1>3

LEMMA ReadJobStep ==
  ASSUME BInv, NEW ns \in Namespace, ReadJob(ns)
  PROVE  BInv'
<1> DEFINE k == KeyOf(ns)
<1>0. /\ TypeOK /\ SetupInv /\ ReadInv /\ pc = "log" /\ call.op # "delete" /\ ns \in Targets
      /\ UNCHANGED <<pc, call, gen, setup, job, left, printing, outcome>>
      /\ log \in [Namespace -> {"off", "pods", "logs", "got", "raised"}]
      /\ left \in [Namespace -> 0..Attempts] /\ seen \in [Namespace -> 0..MaxCalls]
      /\ job \in [Key -> [gen : 0..MaxCalls,
                          phase : {"Pending", "Running", "Succeeded", "Failed"}]]
      /\ faults \in 0..MaxFaults /\ k \in Key /\ k \in Keys
  BY KeyType, TargetsAre DEF BInv, TypeOK, ReadJob
<1>1. CASE /\ log' = [log EXCEPT ![ns] = "pods"]
           /\ seen' = [seen EXCEPT ![ns] = job[k].gen] /\ UNCHANGED faults
  <2>1. TypeOK' /\ LocalsInv' /\ SetupInv' /\ PrintInv' /\ NoneFailed'
    BY <1>0, <1>1, ReadFrame
  <2>2. ReadInv'
    <3> SUFFICES ASSUME ~call.logs_only, NEW m \in Targets,
                        log'[m] \in {"pods", "logs", "got"}
                 PROVE  seen'[m] = gen \/ task[KeyOf(m)] = "raised" \/ KeyOf(m) \in kept
      BY <1>0, SameCall DEF ReadInv, setup
    <3>1. CASE m = ns
      <4>1. seen'[m] = job[k].gen
        BY <1>0, <1>1, <3>1
      <4>2. task[k] = "raised" \/ OwnJob(k)
        BY <1>0 DEF SetupInv
      <4> QED
        BY <3>1, <4>1, <4>2 DEF OwnJob
    <3>2. CASE m # ns
      BY <1>0, <1>1, <3>2, TargetsAre DEF ReadInv
    <3> QED
      BY <3>1, <3>2
  <2> QED
    BY <2>1, <2>2 DEF BInv
<1>2. CASE /\ log' = [log EXCEPT ![ns] = "raised"] /\ UNCHANGED seen
           /\ UNCHANGED faults \/ Fault
  <2>1. TypeOK' /\ LocalsInv' /\ SetupInv' /\ PrintInv' /\ NoneFailed'
    <3>1. faults' \in 0..MaxFaults /\ (faults' = 0 => faults = 0)
      BY <1>0, <1>2 DEF Fault
    <3> QED
      BY <1>0, <1>2, <3>1, ReadFrame
  <2>2. ReadInv'
    <3> SUFFICES ASSUME ~call.logs_only, NEW m \in Targets,
                        log'[m] \in {"pods", "logs", "got"}
                 PROVE  seen[m] = gen \/ task[KeyOf(m)] = "raised" \/ KeyOf(m) \in kept
      BY <1>0, <1>2, SameCall DEF ReadInv, setup
    <3> QED
      BY <1>0, <1>2, TargetsAre DEF ReadInv
  <2> QED
    BY <2>1, <2>2 DEF BInv
<1> QED
  BY <1>1, <1>2 DEF ReadJob, KeyOf

\* Finding a pod and opening its log do not change what is read.
LEMMA ReadsOn ==
  ASSUME BInv, NEW ns \in Namespace, pc = "log", log[ns] \in {"pods", "logs"},
         NEW x \in {"logs", "got", "raised"}, log' \in {log, [log EXCEPT ![ns] = x]},
         left' \in [Namespace -> 0..Attempts], UNCHANGED faults \/ Fault,
         UNCHANGED <<pc, call, gen, setup, job, seen, printing, outcome>>
  PROVE  BInv'
<1>0. /\ ReadInv
      /\ log \in [Namespace -> {"off", "pods", "logs", "got", "raised"}]
      /\ seen \in [Namespace -> 0..MaxCalls] /\ faults \in 0..MaxFaults
  BY DEF BInv, TypeOK
<1>1. /\ log' \in [Namespace -> {"off", "pods", "logs", "got", "raised"}]
      /\ faults' \in 0..MaxFaults /\ (faults' = 0 => faults = 0)
  BY <1>0 DEF Fault
<1>2. TypeOK' /\ LocalsInv' /\ SetupInv' /\ PrintInv' /\ NoneFailed'
  BY <1>0, <1>1, ReadFrame
<1>3. ReadInv'
  <2> SUFFICES ASSUME ~call.logs_only, NEW m \in Targets,
                      log'[m] \in {"pods", "logs", "got"}
               PROVE  seen[m] = gen \/ task[KeyOf(m)] = "raised" \/ KeyOf(m) \in kept
    BY SameCall DEF ReadInv, setup
  <2>1. log[m] \in {"pods", "logs", "got"}
    BY <1>0, TargetsAre
  <2> QED
    BY <1>0, <2>1 DEF ReadInv
<1> QED
  BY <1>2, <1>3 DEF BInv

LEMMA FindPodStep ==
  ASSUME BInv, NEW ns \in Namespace, FindPod(ns)
  PROVE  BInv'
<1>1. \E x \in {"logs", "raised"} : log' = [log EXCEPT ![ns] = x]
  BY DEF FindPod
<1>2. left' \in [Namespace -> 0..Attempts] /\ (UNCHANGED faults \/ Fault)
  BY DEF BInv, TypeOK, FindPod
<1> QED
  BY <1>1, <1>2, ReadsOn DEF FindPod

LEMMA OpenLogStep ==
  ASSUME BInv, NEW ns \in Namespace, OpenLog(ns)
  PROVE  BInv'
<1>0. left \in [Namespace -> 0..Attempts] /\ pc = "log" /\ log[ns] = "logs"
  BY DEF BInv, TypeOK, OpenLog
<1>1. \/ log' = [log EXCEPT ![ns] = "raised"] /\ UNCHANGED left
      \/ left[ns] > 0 /\ left' = [left EXCEPT ![ns] = @ - 1] /\ UNCHANGED log
      \/ log' = [log EXCEPT ![ns] = "got"] /\ UNCHANGED left
  BY DEF OpenLog, HasAttempt
<1>2. left' \in [Namespace -> 0..Attempts]
  BY <1>0, <1>1
<1>3. UNCHANGED faults \/ Fault
  BY DEF OpenLog
<1> QED
  BY <1>0, <1>1, <1>2, <1>3, ReadsOn DEF OpenLog

----------------------------------------------------------------------------
\* print_logs starts a thread per log, and counts them.
LEMMA PrintLogsStep ==
  ASSUME BInv, PrintLogs
  PROVE  BInv'
<1>0. /\ TypeOK /\ NoneFailed /\ NoneFailed' /\ LocalsInv /\ SetupInv /\ ReadInv
      /\ pc = "log" /\ call.op # "delete"
      /\ \A ns \in Targets : log[ns] \in {"got", "raised"}
      /\ UNCHANGED <<call, gen, job, faults>>
  BY DEF BInv, PrintLogs, NoneFailed
<1>1. CASE LogRaised
  BY <1>0, <1>1, EndKeeps DEF PrintLogs, TypeOK
<1>2. CASE ~LogRaised
  <2>0. /\ printer' = [ns \in Namespace |-> IF ns \in Targets THEN "reading" ELSE "off"]
        /\ alive_threads' = Cardinality(Targets) /\ pc' = "wait"
        /\ UNCHANGED <<outcome, setup, reading, exit_event, reported>>
    BY <1>2 DEF PrintLogs
  <2>1. TypeOK'
    <3>1. alive_threads' \in Nat
      BY <2>0, TargetsAre, FS_CardinalityType
    <3>2. printer' \in [Namespace -> {"off", "reading", "ended", "died"}]
      BY <2>0
    <3> QED
      BY <1>0, <2>0, <3>1, <3>2 DEF TypeOK, setup, reading
  <2>2. LocalsInv'
    BY <1>0, <1>2, <2>0, SameCall DEF LocalsInv, LogRaised, reading
  <2>3. SetupInv' /\ ReadInv'
    BY <1>0, <2>0, SameCall DEF SetupInv, ReadInv, OwnJob, setup, reading
  <2>4. PrintInv'
    <3>1. Open' = Targets
      BY <1>0, <2>0, SameCall, TargetsAre DEF Open
    <3>2. {ns \in Targets : printer'[ns] = "ended"} = {}
      BY <2>0, TargetsAre
    <3>3. exit_event' = FALSE /\ reported' = {}
      BY <1>0, <2>0 DEF LocalsInv
    <3>4. \A ns \in Namespace : printer'[ns] # "off" <=> ns \in Targets
      BY <2>0
    <3> QED
      BY <1>0, <2>0, <3>1, <3>2, <3>3, <3>4, SameCall DEF PrintInv
  <2> QED
    BY <1>0, <2>1, <2>2, <2>3, <2>4 DEF BInv
<1> QED
  BY <1>1, <1>2

\* What a step of a printing thread leaves alone.
LEMMA PrintFrame ==
  ASSUME BInv, pc = "wait", UNCHANGED <<pc, call, gen, setup, job, reading, outcome>>,
         faults' \in 0..MaxFaults, faults' = 0 => faults = 0
  PROVE  LocalsInv' /\ SetupInv' /\ ReadInv' /\ NoneFailed'
<1>1. LocalsInv' /\ NoneFailed'
  BY SameCall DEF BInv, LocalsInv, NoneFailed, reading
<1>2. SetupInv' /\ ReadInv'
  BY SameCall DEF BInv, SetupInv, ReadInv, OwnJob, setup, reading
<1> QED
  BY <1>1, <1>2

\* A thread comes to the end of its log, and counts itself out.
LEMMA EndPrintStep ==
  ASSUME BInv, NEW ns \in Namespace, EndPrint(ns)
  PROVE  BInv'
<1>0. /\ TypeOK /\ PrintInv /\ NoneFailed /\ pc = "wait" /\ printer[ns] = "reading"
      /\ Pod(ns) \in {"Succeeded", "Failed"}
      /\ printer' = [printer EXCEPT ![ns] = "ended"]
      /\ alive_threads' = alive_threads - 1
      /\ exit_event' = (exit_event \/ alive_threads' = 0)
      /\ reported' = IF call.op = "execute" /\ Pod(ns) = "Succeeded"
                       THEN reported \cup {ns} ELSE reported
      /\ UNCHANGED <<pc, call, gen, setup, job, reading, outcome, faults>>
      /\ printer \in [Namespace -> {"off", "reading", "ended", "died"}]
      /\ faults \in 0..MaxFaults /\ reported \subseteq Namespace
      /\ ns \in Targets
  BY DEF BInv, TypeOK, EndPrint, LastThread, Add, PrintInv
<1>1. /\ Open' = Open \ {ns} /\ ns \in Open /\ IsFiniteSet(Open)
      /\ Targets' = Targets
  <2>1. Open' = Open \ {ns} /\ ns \in Open /\ Targets' = Targets
    BY <1>0, SameCall, TargetsAre DEF Open
  <2>2. Open \subseteq Targets
    BY DEF Open
  <2> QED
    BY <2>1, <2>2, TargetsAre, FS_Subset
<1>2. /\ alive_threads' = Cardinality(Open') /\ alive_threads' \in Nat
      /\ IsFiniteSet(Open')
  <2>1. IsFiniteSet(Open') /\ Cardinality(Open') = Cardinality(Open) - 1
    BY <1>1, FS_RemoveElement
  <2> QED
    BY <1>0, <2>1, FS_CardinalityType DEF PrintInv
<1>3. LocalsInv' /\ SetupInv' /\ ReadInv' /\ NoneFailed'
  BY <1>0, PrintFrame
<1>4. TypeOK'
  <2>1. exit_event' \in BOOLEAN
    BY <1>0
  <2>2. reported' \subseteq Namespace
    BY <1>0
  <2> QED
    BY <1>0, <1>2, <2>1, <2>2 DEF TypeOK, setup, reading
<1>5. PrintInv'
  <2>1. exit_event' => Open' = {}
    <3>1. ~exit_event
      BY <1>0, <1>1 DEF PrintInv
    <3>2. alive_threads' = 0 => Open' = {}
      BY <1>2, FS_EmptySet
    <3> QED
      BY <1>0, <3>1, <3>2
  <2>2. call.op = "execute" /\ faults = 0 =>
          reported' = {m \in Targets : printer'[m] = "ended"}
    <3> SUFFICES ASSUME call.op = "execute", faults = 0
                 PROVE  reported' = {m \in Targets : printer'[m] = "ended"}
      OBVIOUS
    <3>1. Pod(ns) = "Succeeded"
      <4>1. KeyOf(ns) \in Key
        BY KeyType
      <4> QED
        BY <1>0, <4>1 DEF NoneFailed, Pod, KeyOf
    <3>2. reported' = {m \in Targets : printer[m] = "ended"} \cup {ns}
      BY <1>0, <3>1 DEF PrintInv
    <3> QED
      BY <1>0, <3>2, TargetsAre
  <2>3. \A m \in Namespace : printer'[m] # "off" <=> m \in Targets
    BY <1>0 DEF PrintInv
  <2> QED
    BY <1>0, <1>1, <1>2, <2>1, <2>2, <2>3 DEF PrintInv
<1> QED
  BY <1>3, <1>4, <1>5 DEF BInv

\* A thread that dies stays counted.
LEMMA DiePrintStep ==
  ASSUME BInv, NEW ns \in Namespace, DiePrint(ns)
  PROVE  BInv'
<1>0. /\ TypeOK /\ PrintInv /\ pc = "wait" /\ printer[ns] = "reading"
      /\ printer' = [printer EXCEPT ![ns] = "died"]
      /\ UNCHANGED <<pc, call, gen, setup, job, reading, alive_threads, exit_event,
                     reported, outcome>>
      /\ printer \in [Namespace -> {"off", "reading", "ended", "died"}]
      /\ faults' \in 0..MaxFaults /\ faults' # 0
  BY DEF BInv, TypeOK, DiePrint, Fault
<1>1. Open' = Open
  BY <1>0, SameCall, TargetsAre DEF Open
<1>2. LocalsInv' /\ SetupInv' /\ ReadInv' /\ NoneFailed'
  BY <1>0, PrintFrame
<1>3. TypeOK'
  BY <1>0 DEF TypeOK, setup, reading
<1>4. PrintInv'
  <2>1. \A m \in Namespace : printer'[m] # "off" <=> m \in Targets
    BY <1>0 DEF PrintInv
  <2> QED
    BY <1>0, <1>1, <2>1, SameCall DEF PrintInv
<1> QED
  BY <1>2, <1>3, <1>4 DEF BInv

LEMMA ReturnStep ==
  ASSUME BInv, Return
  PROVE  BInv'
<1>0. End("ok") /\ UNCHANGED <<call, gen, job, faults>> /\ NoneFailed'
  BY DEF BInv, Return, NoneFailed
<1> QED
  BY <1>0, EndKeeps DEF BInv, TypeOK

\* A pod moves on, and its job stays the job of the call that applied it.
LEMMA PodStepStep ==
  ASSUME BInv, NEW k \in Key, PodStep(k)
  PROVE  BInv'
<1>0. /\ TypeOK /\ NoneFailed
      /\ UNCHANGED <<pc, call, gen, setup, reading, printing, outcome>>
      /\ job \in [Key -> [gen : 0..MaxCalls,
                          phase : {"Pending", "Running", "Succeeded", "Failed"}]]
      /\ faults \in 0..MaxFaults
  BY DEF BInv, TypeOK, PodStep
<1>1. PICK x \in {"Running", "Succeeded", "Failed"} :
        /\ job' = [job EXCEPT ![k].phase = x]
        /\ IF x = "Failed" THEN Fault ELSE UNCHANGED faults
  BY DEF PodStep
<1>2. /\ job' \in [Key -> [gen : 0..MaxCalls,
                           phase : {"Pending", "Running", "Succeeded", "Failed"}]]
      /\ \A j \in Key : job'[j].gen = job[j].gen
      /\ job'[k].phase = x /\ \A j \in Key \ {k} : job'[j] = job[j]
  BY <1>0, <1>1
<1>3. faults' \in 0..MaxFaults /\ (x = "Failed" => faults' # 0) /\ (faults' = 0 => faults = 0)
  BY <1>0, <1>1 DEF Fault
<1>4. TypeOK'
  BY <1>0, <1>2, <1>3 DEF TypeOK, setup, reading, printing
<1>5. NoneFailed'
  BY <1>0, <1>2, <1>3 DEF NoneFailed
<1>6. LocalsInv' /\ ReadInv'
  BY <1>0, SameCall DEF BInv, LocalsInv, ReadInv, setup, reading, printing
<1>7. SetupInv'
  <2>1. \A j \in Keys : job'[j].gen = job[j].gen
    BY <1>2, TargetsAre
  <2> QED
    BY <1>0, <2>1, SameCall DEF BInv, SetupInv, OwnJob, setup
<1>8. PrintInv'
  <2>1. Open' = Open
    BY <1>0, SameCall DEF Open, printing
  <2> QED
    BY <1>0, <1>3, <2>1, SameCall DEF BInv, PrintInv, printing
<1> QED
  BY <1>4, <1>5, <1>6, <1>7, <1>8 DEF BInv

----------------------------------------------------------------------------
LEMMA BInvInit == Init => BInv
<1> SUFFICES ASSUME Init PROVE BInv
  OBVIOUS
<1>1. TypeOK
  <2>1. exit_event \in BOOLEAN
    BY Zenon DEF Init
  <2>2. call \in [op : {"create"} \cup Operations, only : {{}} \cup Filters,
                  logs_only : BOOLEAN]
    BY DEF Init
  <2>3. job \in [Key -> [gen : 0..MaxCalls,
                         phase : {"Pending", "Running", "Succeeded", "Failed"}]]
    BY DEF Init, NoJob
  <2>4. /\ task \in [Key -> {"off", "delete", "apply", "ok", "raised"}]
        /\ log \in [Namespace -> {"off", "pods", "logs", "got", "raised"}]
        /\ left \in [Namespace -> 0..Attempts] /\ seen \in [Namespace -> 0..MaxCalls]
        /\ printer \in [Namespace -> {"off", "reading", "ended", "died"}]
    BY DEF Init
  <2> QED
    BY <2>1, <2>2, <2>3, <2>4 DEF Init, TypeOK
<1>2. LocalsInv /\ SetupInv /\ ReadInv /\ PrintInv
  BY DEF Init, LocalsInv, SetupInv, ReadInv, PrintInv
<1>3. NoneFailed
  BY DEF Init, NoneFailed, NoJob
<1> QED
  BY <1>1, <1>2, <1>3 DEF BInv

\* The jobs, the logs and the threads of a call stay in step, whatever fails.
THEOREM BInvHolds == Spec => []BInv
<1>1. BInv /\ [Next]_vars => BInv'
  <2> SUFFICES ASSUME BInv, [Next]_vars PROVE BInv'
    OBVIOUS
  <2>1. CASE UNCHANGED vars
    <3>0. /\ UNCHANGED <<pc, call, gen, task, kept, job, log, left, seen, printer,
                         alive_threads, exit_event, reported, outcome, faults>>
          /\ Targets' = Targets /\ Keys' = Keys /\ Open' = Open
          /\ \A ns : KeyOf(ns)' = KeyOf(ns)
      BY <2>1, SameCall DEF vars, Open
    <3>1. TypeOK' /\ LocalsInv' /\ NoneFailed'
      BY <3>0 DEF BInv, TypeOK, LocalsInv, NoneFailed
    <3>2. SetupInv' /\ ReadInv' /\ PrintInv'
      BY <3>0 DEF BInv, SetupInv, ReadInv, PrintInv, OwnJob
    <3> QED
      BY <3>1, <3>2 DEF BInv
  <2>2. CASE Tool
    BY <2>2, DeleteJobStep, ApplyJobStep, PreDeleteStep, EndDoStep, NoLogsStep,
       PrintLogsStep, ReturnStep, ReadJobStep, FindPodStep, OpenLogStep, EndPrintStep,
       DiePrintStep DEF Tool
  <2> QED
    BY <2>1, <2>2, CallStep, PodStepStep DEF Next
<1> QED
  BY <1>1, BInvInit, PTL DEF Spec

\* A call that set up its own jobs reads the logs of an earlier one only where
\* its setup raised or the old job could not be deleted (get_job_logs).
THEOREM StaleHasCauseHolds == Spec => []StaleHasCause
<1>1. BInv => StaleHasCause
  BY DEF BInv, LocalsInv, ReadInv, KeyOf, StaleHasCause
<1> QED
  BY <1>1, BInvHolds, PTL

\* exit_event is set when every log was read to its end, and without failures
\* the throughput is then the sum over all namespaces (print_logs).
THEOREM FullResultHolds == Spec => []FullResult
<1>1. ASSUME BInv PROVE FullResult
  <2> SUFFICES ASSUME pc = "wait", exit_event
               PROVE  /\ \A ns \in Targets : printer[ns] = "ended"
                      /\ call.op = "execute" /\ faults = 0 => reported = Targets
    BY DEF FullResult
  <2>1. /\ Open = {} /\ \A ns \in Namespace : printer[ns] # "off" <=> ns \in Targets
        /\ printer \in [Namespace -> {"off", "reading", "ended", "died"}]
        /\ call.op = "execute" /\ faults = 0 =>
             reported = {ns \in Targets : printer[ns] = "ended"}
    BY <1>1 DEF BInv, PrintInv, TypeOK
  <2>2. \A ns \in Targets : printer[ns] = "ended"
    BY <2>1, TargetsAre DEF Open
  <2> QED
    BY <2>1, <2>2
<1> QED
  BY <1>1, BInvHolds, PTL
=============================================================================
