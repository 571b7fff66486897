--------------------------- MODULE ResultCollector ---------------------------
(***************************************************************************)
(* ResultCollector of tools/experiment.py: the result files of a finished  *)
(* case are downloaded by a thread pool while the next case runs, and join *)
(* is called when the last case is over.                                   *)
(*                                                                         *)
(* One pool of Workers threads runs both the _collect tasks and, for each  *)
(* of them, one collect_region task per region; _collect occupies its      *)
(* thread while it waits for the tasks of its regions.  The pool is        *)
(* concurrent.futures.ThreadPoolExecutor (external): a FIFO queue, submit  *)
(* raises after shutdown, and shutdown waits for what is in the queue.  A  *)
(* cancelled task stays in the queue, and the thread that takes it drops   *)
(* it.                                                                     *)
(***************************************************************************)
EXTENDS Naturals, Sequences, FiniteSets

CONSTANTS
  Tag,         \* the tags of the cases whose results are collected
  Regions,     \* the number of regions that hold results of each case
  Workers,     \* bound: the threads of the pool
  MaxFaults    \* bound: calls of MinIO that raise

ASSUME TagAssumption == IsFiniteSet(Tag)
ASSUME BoundsAssumption ==
  Regions \in Nat /\ Workers \in Nat \ {0} /\ MaxFaults \in Nat

Region == 1..Regions

\* A task of the pool: <<t, 0>> is _collect(t), <<t, r>> is collect_region.
Task == Tag \X (0..Regions)

VARIABLES
  main,               \* "submit", "join", "shutdown", "joined"
  queue,              \* the tasks no thread has taken
  cancelled,          \* the tasks that are dropped when they are taken
  busy,               \* the tasks that occupy a thread
  shut,               \* the pool accepts no task any more
  phase,              \* of each tag: how far its _collect is
  mapped,             \* of each tag: how many region tasks were submitted
  fetched, broken,    \* region tasks that succeeded, that raised
  in_progress_count,
  late,               \* history: tags not counted when join stopped waiting
  faults

vars == <<main, queue, cancelled, busy, shut, phase, mapped, fetched, broken,
          in_progress_count, late, faults>>

Phase == {"none", "queued", "taken", "counted", "listed", "waiting", "done",
          "failed"}

Init ==
  /\ main = "submit" /\ queue = <<>> /\ cancelled = {} /\ busy = {} /\ shut = FALSE
  /\ phase = [t \in Tag |-> "none"]
  /\ mapped = [t \in Tag |-> 0]
  /\ fetched = {} /\ broken = {}
  /\ in_progress_count = 0
  /\ late = {} /\ faults = 0

Fault == faults < MaxFaults /\ faults' = faults + 1

----------------------------------------------------------------------------
\* ResultCollector.submit, called by the loop of main after each case.
Submit(t) ==
  /\ main = "submit" /\ phase[t] = "none"
  /\ queue' = Append(queue, <<t, 0>>)
  /\ phase' = [phase EXCEPT ![t] = "queued"]
  /\ UNCHANGED <<main, cancelled, busy, shut, mapped, fetched, broken,
                 in_progress_count, late, faults>>

\* A thread of the pool takes the oldest task.
Take ==
  /\ queue # <<>> /\ Cardinality(busy) < Workers
  /\ LET task == Head(queue) IN
     /\ queue' = Tail(queue)
     /\ busy' = IF task \in cancelled THEN busy ELSE busy \cup {task}
     /\ phase' = IF task[2] = 0 THEN [phase EXCEPT ![task[1]] = "taken"] ELSE phase
  /\ UNCHANGED <<main, cancelled, shut, mapped, fetched, broken, in_progress_count, late,
                 faults>>

Count(n) == n + 1

StartCollect(t) ==
  /\ phase[t] = "taken"
  /\ phase' = [phase EXCEPT ![t] = "counted"]
  /\ in_progress_count' = Count(in_progress_count)
  /\ UNCHANGED <<main, queue, cancelled, busy, shut, mapped, fetched, broken, late,
                 faults>>

\* minio.list_objects names the regions.
ListRegions(t) ==
  /\ phase[t] = "counted"
  /\ phase' = [phase EXCEPT ![t] = "listed"]
  /\ UNCHANGED <<main, queue, cancelled, busy, shut, mapped, fetched, broken,
                 in_progress_count, late, faults>>

\* thread_pool.map submits one task per region, in order.
MapRegion(t) ==
  /\ phase[t] = "listed" /\ mapped[t] < Regions /\ ~shut
  /\ queue' = Append(queue, <<t, mapped[t] + 1>>)
  /\ mapped' = [mapped EXCEPT ![t] = @ + 1]
  /\ UNCHANGED <<main, cancelled, busy, shut, phase, fetched, broken,
                 in_progress_count, late, faults>>

AwaitRegions(t) ==
  /\ phase[t] = "listed" /\ mapped[t] = Regions
  /\ phase' = [phase EXCEPT ![t] = "waiting"]
  /\ UNCHANGED <<main, queue, cancelled, busy, shut, mapped, fetched, broken,
                 in_progress_count, late, faults>>

\* collect_region downloads the objects of one region, or raises.
FetchRegion(t, r) ==
  /\ <<t, r>> \in busy /\ r # 0
  /\ busy' = busy \ {<<t, r>>}
  /\ \/ fetched' = fetched \cup {<<t, r>>} /\ UNCHANGED <<broken, faults>>
     \/ Fault /\ broken' = broken \cup {<<t, r>>} /\ UNCHANGED fetched
  /\ UNCHANGED <<main, queue, cancelled, shut, phase, mapped, in_progress_count, late>>

\* Two slips: map is called and its results are not read; the counter is left
\* as it is when the collection is over.
MapStarted(t) == TRUE
StillCounted(n) == n

MapFetched(t) == \A r \in Region : <<t, r>> \in fetched
Uncounted(n) == n - 1

\* The results of map are read and the tag is collected.
Finish(t) ==
  /\ phase[t] = "waiting" /\ MapFetched(t)
  /\ in_progress_count' = Uncounted(in_progress_count)
  /\ phase' = [phase EXCEPT ![t] = "done"]
  /\ busy' = busy \ {<<t, 0>>}
  /\ UNCHANGED <<main, queue, cancelled, shut, mapped, fetched, broken, late, faults>>

\* The exception handler of _collect: it logs, and nothing more.  What raised
\* is MinIO, a submission after the shutdown, or a region; in the last case
\* the results before it were read and the tasks not yet taken are cancelled.
Raises(t) ==
  \/ phase[t] = "counted" /\ Fault /\ UNCHANGED cancelled
  \/ /\ phase[t] = "listed" /\ mapped[t] < Regions /\ shut
     /\ UNCHANGED <<cancelled, faults>>
  \/ /\ phase[t] = "waiting"
     /\ \E r \in Region : /\ <<t, r>> \in broken
                          /\ \A q \in 1..(r - 1) : <<t, q>> \in fetched
     /\ cancelled' = cancelled \cup {<<t, q>> : q \in Region}
     /\ UNCHANGED faults

FailCollect(t) ==
  /\ Raises(t)
  /\ phase' = [phase EXCEPT ![t] = "failed"]
  /\ busy' = busy \ {<<t, 0>>}
  /\ UNCHANGED <<main, queue, shut, mapped, fetched, broken, in_progress_count, late>>

----------------------------------------------------------------------------
EndLoop ==
  /\ main = "submit"
  /\ main' = "join"
  /\ UNCHANGED <<queue, cancelled, busy, shut, phase, mapped, fetched, broken,
                 in_progress_count, late, faults>>

MayLeave == in_progress_count = 0
NotCounted == {t \in Tag : phase[t] \in {"queued", "taken"}}

\* The wait of join, under the condition variable.
LeaveWait ==
  /\ main = "join" /\ MayLeave
  /\ main' = "shutdown"
  /\ late' = NotCounted
  /\ UNCHANGED <<queue, cancelled, busy, shut, phase, mapped, fetched, broken,
                 in_progress_count, faults>>

Shutdown ==
  /\ main = "shutdown" /\ ~shut
  /\ shut' = TRUE
  /\ UNCHANGED <<main, queue, cancelled, busy, phase, mapped, fetched, broken,
                 in_progress_count, late, faults>>

\* A slip: shutdown(wait=False).
NotAwaited == TRUE
Drained == queue = <<>> /\ busy = {}

\* shutdown(wait=True) joins the threads, which end when the queue is empty.
Joined ==
  /\ shut /\ main = "shutdown" /\ Drained
  /\ main' = "joined"
  /\ UNCHANGED <<queue, cancelled, busy, shut, phase, mapped, fetched, broken,
                 in_progress_count, late, faults>>

Collect(t) ==
  \/ StartCollect(t) \/ ListRegions(t) \/ MapRegion(t) \/ AwaitRegions(t)
  \/ Finish(t) \/ FailCollect(t)

Terminated == main = "joined" /\ UNCHANGED vars

Next ==
  \/ \E t \in Tag : Submit(t) \/ Collect(t)
  \/ \E t \in Tag, r \in Region : FetchRegion(t, r)
  \/ Take \/ EndLoop \/ LeaveWait \/ Shutdown \/ Joined \/ Terminated

Spec == Init /\ [][Next]_vars

FairSpec ==
  /\ Spec
  /\ WF_vars(Take) /\ WF_vars(EndLoop) /\ WF_vars(LeaveWait)
  /\ WF_vars(Shutdown) /\ WF_vars(Joined)
  /\ \A t \in Tag : WF_vars(Collect(t))
  /\ \A t \in Tag, r \in Region : WF_vars(FetchRegion(t, r))

----------------------------------------------------------------------------
Collected(t) == \A r \in Region : <<t, r>> \in fetched

Submitted == {t \in Tag : phase[t] # "none"}

\* The type invariant.
TypeOK ==
  /\ main \in {"submit", "join", "shutdown", "joined"}
  /\ queue \in Seq(Task) /\ cancelled \subseteq Tag \X Region
  /\ busy \subseteq Task /\ shut \in BOOLEAN
  /\ phase \in [Tag -> Phase] /\ mapped \in [Tag -> 0..Regions]
  /\ fetched \subseteq Tag \X Region /\ broken \subseteq Tag \X Region
  /\ in_progress_count \in Nat
  /\ late \subseteq Tag /\ faults \in 0..MaxFaults

\* join stops waiting only when every collection it could know of is complete:
\* the counter and the tags that are being collected never disagree.
JoinSeesAll ==
  main \in {"shutdown", "joined"} =>
    \A t \in Submitted \ late : phase[t] = "done" /\ Collected(t)

\* Nothing of a collection outlives the program, and no collection is left in
\* the middle: each tag is done or its error was logged.
NothingLeft ==
  main = "joined" =>
    \A t \in Submitted : phase[t] = "failed" \/ (phase[t] = "done" /\ Collected(t))

\* A join that waits for ever does so for one of two reasons: a collection
\* raised and left the counter above zero, or every thread of the pool is held
\* by a _collect that waits for regions no thread is left to fetch.
Hopeless ==
  \/ \E t \in Tag : phase[t] = "failed"
  \/ Cardinality({t \in Tag : phase[t] = "waiting"}) = Workers

\* Otherwise join returns, however the threads are scheduled.
JoinReturns == main = "join" ~> main = "joined" \/ Hopeless
=============================================================================
