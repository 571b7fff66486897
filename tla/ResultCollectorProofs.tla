------------------------ MODULE ResultCollectorProofs ------------------------
(***************************************************************************)
(* Proofs about the collection of results: when join stops waiting, every  *)
(* collection it could know of is complete, and nothing is left in the     *)
(* middle when the pool has been shut down.                                *)
(*                                                                         *)
(* Neither is inductive.  The counter that join waits for is the number of *)
(* the collections that were counted and are not done, and a collection    *)
(* that is not over has a place in the pool: exactly one in the queue, or  *)
(* a thread.                                                               *)
(***************************************************************************)
EXTENDS ResultCollector, SequenceTheorems, FiniteSetTheorems, TLAPS

USE TagAssumption, BoundsAssumption

Counted == {t \in Tag : phase[t] \in {"counted", "listed", "waiting", "failed"}}

\* The counter and the collections in progress never disagree.
CountIsRight == in_progress_count = Cardinality(Counted)

\* The _collect of a tag is in the queue exactly while it is queued, once.
QueueMatches ==
  /\ \A i \in 1..Len(queue) : queue[i][2] = 0 => phase[queue[i][1]] = "queued"
  /\ \A i, j \in 1..Len(queue) : queue[i][2] = 0 /\ queue[i] = queue[j] => i = j
  /\ \A t \in Tag : phase[t] = "queued" =>
       \E i \in 1..Len(queue) : queue[i] = <<t, 0>>

\* A collection that has begun and is not over holds its thread.
HoldsThread ==
  \A t \in Tag : phase[t] \in {"taken", "counted", "listed", "waiting"} =>
    <<t, 0>> \in busy

DoneIsCollected == \A t \in Tag : phase[t] = "done" => Collected(t)

\* After the wait only the collections that join did not know of go on.
WaitIsOver ==
  main \in {"shutdown", "joined"} =>
    \A t \in Tag \ late : phase[t] \in {"none", "done"}

PoolIsEmpty ==
  main = "joined" =>
    queue = <<>> /\ \A t \in Tag : phase[t] \in {"none", "done", "failed"}

CInv ==
  /\ TypeOK /\ CountIsRight /\ QueueMatches /\ HoldsThread
  /\ DoneIsCollected /\ WaitIsOver /\ PoolIsEmpty

----------------------------------------------------------------------------
\* The model starts in a state of the invariant.
LEMMA CInvInit == Init => CInv
<1> SUFFICES ASSUME Init PROVE CInv
  OBVIOUS
<1>1. TypeOK
  <2>1. /\ main \in {"submit", "join", "shutdown", "joined"}
        /\ queue \in Seq(Task)
    BY DEF Init
  <2>4. shut \in BOOLEAN
    BY Zenon DEF Init
  <2>2. /\ phase \in [Tag -> Phase] /\ mapped \in [Tag -> 0..Regions]
        /\ in_progress_count \in Nat /\ faults \in 0..MaxFaults
    BY DEF Init, Phase
  <2>3. /\ cancelled \subseteq Tag \X Region /\ busy \subseteq Task
        /\ fetched \subseteq Tag \X Region /\ broken \subseteq Tag \X Region
        /\ late \subseteq Tag
    BY DEF Init
  <2> QED
    BY <2>1, <2>2, <2>3, <2>4 DEF TypeOK
<1>2. CountIsRight
  <2>1. Counted = {}
    BY DEF Init, Counted
  <2> QED
    BY <2>1, FS_EmptySet DEF Init, CountIsRight
<1>3. QueueMatches /\ HoldsThread /\ DoneIsCollected /\ WaitIsOver /\ PoolIsEmpty
  BY DEF Init, QueueMatches, HoldsThread, DoneIsCollected, WaitIsOver, PoolIsEmpty
<1> QED
  BY <1>1, <1>2, <1>3 DEF CInv

\* There are finitely many collections in progress.
LEMMA CountedFinite == IsFiniteSet(Counted) /\ Cardinality(Counted) \in Nat
<1>1. Counted \subseteq Tag
  BY DEF Counted
<1> QED
  BY <1>1, FS_Subset, FS_CardinalityType

\* What a step of one _collect t leaves as it is, when no task is submitted
\* and the main thread does not move.
LEMMA QueueKept ==
  ASSUME CInv, NEW t \in Tag, phase[t] # "queued", NEW x \in Phase, x # "queued",
         phase' = [phase EXCEPT ![t] = x], UNCHANGED queue
  PROVE  QueueMatches'
<1>0. /\ queue \in Seq(Task) /\ phase \in [Tag -> Phase]
      /\ QueueMatches
  BY DEF CInv, TypeOK
<1>1. \A i \in 1..Len(queue) : queue[i] \in Task /\ queue[i][1] \in Tag
  BY <1>0 DEF Task
<1> QED
  BY <1>0, <1>1 DEF QueueMatches

\* No collection moves after the wait, but the ones join did not know of.
LEMMA MovesLate ==
  ASSUME CInv, NEW t \in Tag, phase[t] \notin {"none", "done"}, NEW x \in Phase,
         phase' = [phase EXCEPT ![t] = x], UNCHANGED <<main, late>>
  PROVE  WaitIsOver'
BY DEF CInv, TypeOK, WaitIsOver

\* Nor does any once the pool is empty.
LEMMA MovesBeforeEnd ==
  ASSUME CInv, NEW t \in Tag, phase[t] \in {"taken", "counted", "listed", "waiting"},
         UNCHANGED main
  PROVE  PoolIsEmpty'
BY DEF CInv, TypeOK, PoolIsEmpty

\* submit puts the _collect of a new tag at the end of the queue.
LEMMA SubmitStep ==
  ASSUME CInv, NEW t \in Tag, Submit(t)
  PROVE  CInv'
<1>0. /\ queue \in Seq(Task) /\ phase \in [Tag -> Phase] /\ TypeOK
      /\ QueueMatches /\ HoldsThread /\ DoneIsCollected /\ CountIsRight
      /\ <<t, 0>> \in Task /\ phase[t] = "none" /\ main = "submit"
  BY DEF CInv, TypeOK, Submit, Task
<1>1. /\ queue' = Append(queue, <<t, 0>>)
      /\ phase' = [phase EXCEPT ![t] = "queued"]
      /\ Len(queue') = Len(queue) + 1
      /\ \A i \in 1..Len(queue) : queue'[i] = queue[i] /\ queue[i] \in Task
      /\ queue'[Len(queue) + 1] = <<t, 0>>
  BY <1>0 DEF Submit
<1>2. TypeOK'
  BY <1>0, <1>1 DEF TypeOK, Submit, Phase
<1>3. CountIsRight'
  <2>1. Counted' = Counted
    BY <1>0, <1>1 DEF Counted
  <2> QED
    BY <1>0, <2>1 DEF CountIsRight, Submit
<1>4. QueueMatches'
  <2>0. \A i \in 1..Len(queue) : queue[i][1] \in Tag /\ queue[i] \in Tag \X (0..Regions)
    BY <1>1 DEF Task
  <2>1. \A i \in 1..Len(queue) : queue[i] # <<t, 0>>
    BY <1>0 DEF QueueMatches
  <2>2. \A i \in 1..Len(queue') : queue'[i][2] = 0 => phase'[queue'[i][1]] = "queued"
    <3> SUFFICES ASSUME NEW i \in 1..Len(queue'), queue'[i][2] = 0
                 PROVE  phase'[queue'[i][1]] = "queued"
      OBVIOUS
    <3>1. CASE i = Len(queue) + 1
      BY <3>1, <1>0, <1>1
    <3>2. CASE i \in 1..Len(queue)
      BY <3>2, <2>0, <1>0, <1>1 DEF QueueMatches
    <3> QED
      BY <3>1, <3>2, <1>0, <1>1
  <2>3. \A i, j \in 1..Len(queue') : queue'[i][2] = 0 /\ queue'[i] = queue'[j] => i = j
    <3> SUFFICES ASSUME NEW i \in 1..Len(queue'), NEW j \in 1..Len(queue'),
                        queue'[i][2] = 0, queue'[i] = queue'[j]
                 PROVE  i = j
      OBVIOUS
    <3>1. CASE i \in 1..Len(queue) /\ j \in 1..Len(queue)
      BY <3>1, <1>0, <1>1 DEF QueueMatches
    <3>2. CASE i = Len(queue) + 1 \/ j = Len(queue) + 1
      BY <3>2, <2>1, <1>0, <1>1
    <3> QED
      BY <3>1, <3>2, <1>0, <1>1
  <2>4. \A u \in Tag : phase'[u] = "queued" =>
          \E i \in 1..Len(queue') : queue'[i] = <<u, 0>>
    <3> SUFFICES ASSUME NEW u \in Tag, phase'[u] = "queued"
                 PROVE  \E i \in 1..Len(queue') : queue'[i] = <<u, 0>>
      OBVIOUS
    <3>1. CASE u = t
      BY <3>1, <1>0, <1>1
    <3>2. CASE u # t
      <4>1. PICK i \in 1..Len(queue) : queue[i] = <<u, 0>>
        BY <3>2, <1>0, <1>1 DEF QueueMatches
      <4>2. i \in 1..Len(queue') /\ queue'[i] = <<u, 0>>
        BY <4>1, <1>0, <1>1
      <4> QED
        BY <4>2
    <3> QED
      BY <3>1, <3>2
  <2> QED
    BY <2>2, <2>3, <2>4 DEF QueueMatches
<1>5. HoldsThread' /\ DoneIsCollected' /\ WaitIsOver' /\ PoolIsEmpty'
  BY <1>0, <1>1 DEF Submit, HoldsThread, DoneIsCollected, Collected, WaitIsOver,
                    PoolIsEmpty
<1> QED
  BY <1>2, <1>3, <1>4, <1>5 DEF CInv

\* A thread takes the head of the queue.
LEMMA TakeStep ==
  ASSUME CInv, Take
  PROVE  CInv'
<1> DEFINE task == Head(queue)
<1>0. /\ queue \in Seq(Task) /\ phase \in [Tag -> Phase] /\ TypeOK /\ queue # <<>>
      /\ QueueMatches /\ HoldsThread /\ DoneIsCollected /\ CountIsRight
      /\ WaitIsOver /\ PoolIsEmpty /\ cancelled \subseteq Tag \X Region
  BY DEF CInv, TypeOK, Take
<1>1. /\ task = queue[1] /\ task \in Task /\ task[1] \in Tag /\ Len(queue) > 0
      /\ task[2] = 0 => task = <<task[1], 0>> /\ task \notin cancelled
                        /\ phase[task[1]] = "queued"
  BY <1>0 DEF Task, QueueMatches, Region
<1>2. /\ queue' = Tail(queue) /\ Len(queue') = Len(queue) - 1
      /\ \A i \in 1..Len(queue') : queue'[i] = queue[i + 1] /\ queue[i + 1] \in Task
      /\ queue' \in Seq(Task)
  BY <1>0, <1>1 DEF Take
<1>3. /\ busy' = IF task \in cancelled THEN busy ELSE busy \cup {task}
      /\ phase' = IF task[2] = 0 THEN [phase EXCEPT ![task[1]] = "taken"] ELSE phase
      /\ UNCHANGED <<main, cancelled, shut, mapped, fetched, broken,
                     in_progress_count, late, faults>>
  BY DEF Take
<1> HIDE DEF task
<1>4. phase' \in [Tag -> Phase]
  BY <1>0, <1>1, <1>3 DEF Phase
<1>5. TypeOK'
  BY <1>0, <1>1, <1>2, <1>3, <1>4 DEF TypeOK
<1>6. \A t \in Tag : \/ phase'[t] = phase[t]
                     \/ /\ phase[t] = "queued" /\ phase'[t] = "taken"
                        /\ task = <<t, 0>> /\ <<t, 0>> \in busy'
  BY <1>0, <1>1, <1>3
<1>7. CountIsRight'
  <2>1. Counted' = Counted
    BY <1>6 DEF Counted
  <2> QED
    BY <1>0, <1>3, <2>1 DEF CountIsRight
<1>8. QueueMatches'
  <2>0. \A i \in 1..Len(queue') : /\ i + 1 \in 1..Len(queue) /\ i + 1 # 1
                                  /\ queue[i + 1][1] \in Tag
                                  /\ queue[i + 1] = <<queue[i + 1][1], queue[i + 1][2]>>
    BY <1>0, <1>2 DEF Task
  <2>1. \A i \in 1..Len(queue') : queue'[i][2] = 0 => phase'[queue'[i][1]] = "queued"
    <3> SUFFICES ASSUME NEW i \in 1..Len(queue'), queue'[i][2] = 0
                 PROVE  phase'[queue'[i][1]] = "queued"
      OBVIOUS
    <3>1. /\ queue'[i] = queue[i + 1] /\ phase[queue[i + 1][1]] = "queued"
          /\ queue[i + 1] # queue[1]
      BY <2>0, <1>0, <1>1, <1>2 DEF QueueMatches
    <3>2. queue[i + 1] = <<queue[i + 1][1], 0>>
      BY <3>1, <2>0
    <3>3. phase'[queue[i + 1][1]] = phase[queue[i + 1][1]]
      BY <3>1, <3>2, <2>0, <1>1, <1>6
    <3> QED
      BY <3>1, <3>3
  <2>2. \A i, j \in 1..Len(queue') : queue'[i][2] = 0 /\ queue'[i] = queue'[j] => i = j
    <3> SUFFICES ASSUME NEW i \in 1..Len(queue'), NEW j \in 1..Len(queue'),
                        queue'[i][2] = 0, queue'[i] = queue'[j]
                 PROVE  i = j
      OBVIOUS
    <3>1. i + 1 = j + 1
      BY <2>0, <1>0, <1>2 DEF QueueMatches
    <3> QED
      BY <3>1
  <2>3. \A u \in Tag : phase'[u] = "queued" =>
          \E i \in 1..Len(queue') : queue'[i] = <<u, 0>>
    <3> SUFFICES ASSUME NEW u \in Tag, phase'[u] = "queued"
                 PROVE  \E i \in 1..Len(queue') : queue'[i] = <<u, 0>>
      OBVIOUS
    <3>1. phase[u] = "queued" /\ task # <<u, 0>>
      <4>1. phase[u] = "queued"
        BY <1>6
      <4>2. ASSUME task = <<u, 0>> PROVE FALSE
        <5>1. task[2] = 0 /\ task[1] = u
          BY <4>2
        <5> QED
          BY <5>1, <1>0, <1>3
      <4> QED
        BY <4>1, <4>2
    <3>2. PICK i \in 1..Len(queue) : queue[i] = <<u, 0>>
      BY <3>1, <1>0 DEF QueueMatches
    <3>3. i # 1 /\ i - 1 \in 1..Len(queue')
      BY <3>1, <3>2, <1>1, <1>2, <1>0
    <3>4. queue'[i - 1] = queue[(i - 1) + 1] /\ (i - 1) + 1 = i
      BY <3>3, <1>2
    <3> QED
      BY <3>2, <3>3, <3>4
  <2> QED
    BY <2>1, <2>2, <2>3 DEF QueueMatches
<1>9. HoldsThread'
  BY <1>0, <1>3, <1>6 DEF HoldsThread
<1>10. DoneIsCollected' /\ WaitIsOver'
  BY <1>0, <1>3, <1>6 DEF DoneIsCollected, Collected, WaitIsOver
<1>11. PoolIsEmpty'
  BY <1>0, <1>3 DEF PoolIsEmpty
<1> QED
  BY <1>5, <1>7, <1>8, <1>9, <1>10, <1>11 DEF CInv

\* _collect counts itself in.
LEMMA StartCollectStep ==
  ASSUME CInv, NEW t \in Tag, StartCollect(t)
  PROVE  CInv'
<1>0. /\ TypeOK /\ phase \in [Tag -> Phase] /\ phase[t] = "taken"
      /\ CountIsRight /\ HoldsThread /\ DoneIsCollected
      /\ phase' = [phase EXCEPT ![t] = "counted"]
      /\ in_progress_count' = in_progress_count + 1
      /\ UNCHANGED <<main, queue, cancelled, busy, shut, mapped, fetched, broken, late,
                     faults>>
  BY DEF CInv, TypeOK, StartCollect, Count
<1>1. TypeOK'
  BY <1>0 DEF TypeOK, Phase
<1>2. CountIsRight'
  <2>1. Counted' = Counted \cup {t} /\ t \notin Counted
    BY <1>0 DEF Counted
  <2>2. Cardinality(Counted') = Cardinality(Counted) + 1
    BY <2>1, CountedFinite, FS_AddElement
  <2> QED
    BY <1>0, <2>2 DEF CountIsRight
<1>3. QueueMatches' /\ WaitIsOver' /\ PoolIsEmpty'
  BY <1>0, QueueKept, MovesLate, MovesBeforeEnd DEF Phase
<1>4. HoldsThread' /\ DoneIsCollected'
  BY <1>0 DEF HoldsThread, DoneIsCollected, Collected
<1> QED
  BY <1>1, <1>2, <1>3, <1>4 DEF CInv

\* The steps of a counted _collect that leave it counted and in its thread.
LEMMA GoesOnStep ==
  ASSUME CInv, NEW t \in Tag, phase[t] \in {"counted", "listed"},
         NEW x \in {"listed", "waiting"}, phase' = [phase EXCEPT ![t] = x],
         UNCHANGED <<main, queue, cancelled, busy, shut, mapped, fetched, broken,
                     in_progress_count, late, faults>>
  PROVE  CInv'
<1>0. /\ TypeOK /\ phase \in [Tag -> Phase]
      /\ CountIsRight /\ HoldsThread /\ DoneIsCollected
  BY DEF CInv, TypeOK
<1>1. TypeOK'
  BY <1>0 DEF TypeOK, Phase
<1>2. CountIsRight'
  <2>1. Counted' = Counted
    BY <1>0 DEF Counted
  <2> QED
    BY <1>0, <2>1 DEF CountIsRight
<1>3. QueueMatches' /\ WaitIsOver' /\ PoolIsEmpty'
  BY <1>0, QueueKept, MovesLate, MovesBeforeEnd DEF Phase
<1>4. HoldsThread' /\ DoneIsCollected'
  BY <1>0 DEF HoldsThread, DoneIsCollected, Collected
<1> QED
  BY <1>1, <1>2, <1>3, <1>4 DEF CInv

\* map puts the task of a region at the end of the queue.
LEMMA MapRegionStep ==
  ASSUME CInv, NEW t \in Tag, MapRegion(t)
  PROVE  CInv'
<1> DEFINE r == mapped[t] + 1
<1>0. /\ TypeOK /\ queue \in Seq(Task) /\ phase \in [Tag -> Phase]
      /\ mapped \in [Tag -> 0..Regions]
      /\ CountIsRight /\ HoldsThread /\ DoneIsCollected /\ WaitIsOver /\ QueueMatches
      /\ phase[t] = "listed" /\ mapped[t] < Regions
      /\ queue' = Append(queue, <<t, r>>)
      /\ mapped' = [mapped EXCEPT ![t] = @ + 1]
      /\ UNCHANGED <<main, cancelled, busy, shut, phase, fetched, broken,
                     in_progress_count, late, faults>>
  BY DEF CInv, TypeOK, MapRegion
<1>1. r \in 1..Regions /\ r # 0 /\ <<t, r>> \in Task
  BY <1>0 DEF Task
<1> HIDE DEF r
<1>2. /\ queue' \in Seq(Task) /\ Len(queue') = Len(queue) + 1
      /\ \A i \in 1..Len(queue) : queue'[i] = queue[i]
      /\ queue'[Len(queue) + 1] = <<t, r>>
      /\ Len(queue) \in Nat
  BY <1>0, <1>1
<1>3. TypeOK'
  <2>1. mapped' \in [Tag -> 0..Regions]
    BY <1>0
  <2> QED
    BY <1>0, <1>2, <2>1 DEF TypeOK
<1>4. CountIsRight'
  BY <1>0 DEF CountIsRight, Counted
<1>5. QueueMatches'
  <2>0. \A i \in 1..Len(queue') : queue'[i][2] = 0 =>
          i \in 1..Len(queue) /\ queue'[i] = queue[i]
    BY <1>1, <1>2
  <2>1. \A i \in 1..Len(queue') : queue'[i][2] = 0 => phase'[queue'[i][1]] = "queued"
    BY <2>0, <1>0 DEF QueueMatches
  <2>2. \A i, j \in 1..Len(queue') : queue'[i][2] = 0 /\ queue'[i] = queue'[j] => i = j
    BY <2>0, <1>0 DEF QueueMatches
  <2>3. \A u \in Tag : phase'[u] = "queued" =>
          \E i \in 1..Len(queue') : queue'[i] = <<u, 0>>
    <3> SUFFICES ASSUME NEW u \in Tag, phase'[u] = "queued"
                 PROVE  \E i \in 1..Len(queue') : queue'[i] = <<u, 0>>
      OBVIOUS
    <3>1. PICK i \in 1..Len(queue) : queue[i] = <<u, 0>>
      BY <1>0 DEF QueueMatches
    <3>2. i \in 1..Len(queue') /\ queue'[i] = <<u, 0>>
      BY <3>1, <1>2
    <3> QED
      BY <3>2
  <2> QED
    BY <2>1, <2>2, <2>3 DEF QueueMatches
<1>6. HoldsThread' /\ DoneIsCollected' /\ WaitIsOver' /\ PoolIsEmpty'
  BY <1>0, MovesBeforeEnd DEF HoldsThread, DoneIsCollected, Collected, WaitIsOver
<1> QED
  BY <1>3, <1>4, <1>5, <1>6 DEF CInv

\* A region's task ends, and occupies its thread no more.
LEMMA FetchRegionStep ==
  ASSUME CInv, NEW t \in Tag, NEW r \in Region, FetchRegion(t, r)
  PROVE  CInv'
<1>0. /\ TypeOK /\ CountIsRight /\ HoldsThread /\ DoneIsCollected /\ WaitIsOver
      /\ QueueMatches /\ PoolIsEmpty
      /\ busy' = busy \ {<<t, r>>} /\ r # 0
      /\ fetched' \in {fetched, fetched \cup {<<t, r>>}}
      /\ broken' \in {broken, broken \cup {<<t, r>>}}
      /\ UNCHANGED <<main, queue, cancelled, shut, phase, mapped, in_progress_count, late>>
  BY DEF CInv, FetchRegion, Fault
<1>1. faults' \in 0..MaxFaults
  BY DEF CInv, TypeOK, FetchRegion, Fault
<1>2. TypeOK'
  BY <1>0, <1>1 DEF TypeOK
<1>3. HoldsThread' /\ DoneIsCollected'
  BY <1>0 DEF HoldsThread, DoneIsCollected, Collected
<1>4. CountIsRight' /\ QueueMatches'
  BY <1>0 DEF CountIsRight, Counted, QueueMatches
<1>5. WaitIsOver' /\ PoolIsEmpty'
  BY <1>0 DEF WaitIsOver, PoolIsEmpty
<1> QED
  BY <1>2, <1>3, <1>4, <1>5 DEF CInv

\* The collection is complete; _collect counts itself out.
LEMMA FinishStep ==
  ASSUME CInv, NEW t \in Tag, Finish(t)
  PROVE  CInv'
<1>0. /\ TypeOK /\ phase \in [Tag -> Phase] /\ phase[t] = "waiting" /\ Collected(t)
      /\ CountIsRight /\ HoldsThread /\ DoneIsCollected
      /\ phase' = [phase EXCEPT ![t] = "done"]
      /\ in_progress_count' = in_progress_count - 1
      /\ busy' = busy \ {<<t, 0>>}
      /\ UNCHANGED <<main, queue, cancelled, shut, mapped, fetched, broken, late, faults>>
  BY DEF CInv, TypeOK, Finish, Uncounted, MapFetched, Collected
<1>2. CountIsRight' /\ in_progress_count' \in Nat
  <2>1. Counted' = Counted \ {t} /\ t \in Counted
    BY <1>0 DEF Counted
  <2>2. Cardinality(Counted') = Cardinality(Counted) - 1 /\ Cardinality(Counted') \in Nat
    BY <2>1, CountedFinite, FS_RemoveElement, FS_CardinalityType
  <2> QED
    BY <1>0, <2>2 DEF CountIsRight
<1>1. TypeOK'
  BY <1>0, <1>2 DEF TypeOK, Phase
<1>3. QueueMatches' /\ WaitIsOver' /\ PoolIsEmpty'
  BY <1>0, QueueKept, MovesLate, MovesBeforeEnd DEF Phase
<1>4. HoldsThread' /\ DoneIsCollected'
  BY <1>0 DEF HoldsThread, DoneIsCollected, Collected
<1> QED
  BY <1>1, <1>2, <1>3, <1>4 DEF CInv

\* _collect raises, and stays counted for ever.
LEMMA FailCollectStep ==
  ASSUME CInv, NEW t \in Tag, FailCollect(t)
  PROVE  CInv'
<1>0. /\ TypeOK /\ phase \in [Tag -> Phase]
      /\ phase[t] \in {"counted", "listed", "waiting"}
      /\ CountIsRight /\ HoldsThread /\ DoneIsCollected
      /\ phase' = [phase EXCEPT ![t] = "failed"]
      /\ busy' = busy \ {<<t, 0>>}
      /\ UNCHANGED <<main, queue, shut, mapped, fetched, broken, in_progress_count, late>>
  BY DEF CInv, TypeOK, FailCollect, Raises
<1>1. cancelled' \subseteq Tag \X Region /\ faults' \in 0..MaxFaults
  BY DEF CInv, TypeOK, FailCollect, Raises, Fault
<1>2. TypeOK'
  BY <1>0, <1>1 DEF TypeOK, Phase
<1>3. CountIsRight'
  <2>1. Counted' = Counted
    BY <1>0 DEF Counted
  <2> QED
    BY <1>0, <2>1 DEF CountIsRight
<1>4. QueueMatches' /\ WaitIsOver' /\ PoolIsEmpty'
  BY <1>0, QueueKept, MovesLate, MovesBeforeEnd DEF Phase
<1>5. HoldsThread' /\ DoneIsCollected'
  BY <1>0 DEF HoldsThread, DoneIsCollected, Collected
<1> QED
  BY <1>2, <1>3, <1>4, <1>5 DEF CInv

\* The wait ends when the counter is zero: no collection is counted and open.
LEMMA LeaveWaitStep ==
  ASSUME CInv, LeaveWait
  PROVE  CInv'
<1>0. /\ TypeOK /\ phase \in [Tag -> Phase] /\ CountIsRight /\ HoldsThread
      /\ DoneIsCollected /\ QueueMatches /\ in_progress_count = 0
      /\ main' = "shutdown" /\ late' = NotCounted
      /\ UNCHANGED <<queue, cancelled, busy, shut, phase, mapped, fetched, broken,
                     in_progress_count, faults>>
  BY DEF CInv, TypeOK, LeaveWait, MayLeave
<1>1. Counted = {}
  BY <1>0, CountedFinite, FS_EmptySet DEF CountIsRight
<1>2. WaitIsOver'
  <2> SUFFICES ASSUME NEW t \in Tag, t \notin NotCounted
               PROVE  phase[t] \in {"none", "done"}
    BY <1>0 DEF WaitIsOver
  <2> QED
    BY <1>0, <1>1 DEF Counted, NotCounted, Phase
<1>3. TypeOK'
  BY <1>0 DEF TypeOK, NotCounted
<1>4. CountIsRight' /\ QueueMatches' /\ HoldsThread' /\ DoneIsCollected' /\ PoolIsEmpty'
  BY <1>0 DEF CountIsRight, Counted, QueueMatches, HoldsThread, DoneIsCollected,
              Collected, PoolIsEmpty
<1> QED
  BY <1>2, <1>3, <1>4 DEF CInv

\* The pool is joined when it holds no task, so that no collection is open.
LEMMA JoinedStep ==
  ASSUME CInv, Joined
  PROVE  CInv'
<1>0. /\ TypeOK /\ phase \in [Tag -> Phase] /\ CountIsRight /\ HoldsThread
      /\ DoneIsCollected /\ QueueMatches /\ WaitIsOver
      /\ queue = <<>> /\ busy = {} /\ main = "shutdown" /\ main' = "joined"
      /\ UNCHANGED <<queue, cancelled, busy, shut, phase, mapped, fetched, broken,
                     in_progress_count, late, faults>>
  BY DEF CInv, TypeOK, Joined, Drained
<1>1. PoolIsEmpty'
  <2> SUFFICES ASSUME NEW t \in Tag PROVE phase[t] \in {"none", "done", "failed"}
    BY <1>0 DEF PoolIsEmpty
  <2>1. phase[t] # "queued"
    BY <1>0 DEF QueueMatches
  <2> QED
    BY <1>0, <2>1 DEF HoldsThread, Phase
<1>2. TypeOK' /\ WaitIsOver'
  BY <1>0 DEF TypeOK, WaitIsOver
<1>3. CountIsRight' /\ QueueMatches' /\ HoldsThread' /\ DoneIsCollected'
  BY <1>0 DEF CountIsRight, Counted, QueueMatches, HoldsThread, DoneIsCollected,
              Collected
<1> QED
  BY <1>1, <1>2, <1>3 DEF CInv

\* Steps that leave every collection as it is.
LEMMA QuietStep ==
  ASSUME CInv, EndLoop \/ Shutdown \/ UNCHANGED vars
  PROVE  CInv'
<1>0. /\ UNCHANGED <<queue, cancelled, busy, phase, mapped, fetched, broken,
                     in_progress_count, late, faults>>
      /\ shut' \in {shut, TRUE}
      /\ main' = main \/ main' = "join"
  BY DEF EndLoop, Shutdown, vars
<1>1. TypeOK'
  <2>1. shut' \in BOOLEAN
    BY <1>0 DEF CInv, TypeOK
  <2> QED
    BY <1>0, <2>1 DEF CInv, TypeOK
<1>2. CountIsRight' /\ QueueMatches' /\ HoldsThread' /\ DoneIsCollected'
  BY <1>0 DEF CInv, CountIsRight, Counted, QueueMatches, HoldsThread, DoneIsCollected,
              Collected
<1>3. WaitIsOver' /\ PoolIsEmpty'
  BY <1>0 DEF CInv, WaitIsOver, PoolIsEmpty
<1> QED
  BY <1>1, <1>2, <1>3 DEF CInv

----------------------------------------------------------------------------
\* The counter of _collect, the queue and the threads of the pool agree about
\* every collection, whatever raises and whenever join is called.
THEOREM CInvHolds == Spec => []CInv
<1>1. CInv /\ [Next]_vars => CInv'
  <2> SUFFICES ASSUME CInv, [Next]_vars PROVE CInv'
    OBVIOUS
  <2>1. ASSUME NEW t \in Tag, Collect(t) PROVE CInv'
    <3>1. CASE ListRegions(t)
      BY <3>1, GoesOnStep DEF ListRegions
    <3>2. CASE AwaitRegions(t)
      BY <3>2, GoesOnStep DEF AwaitRegions
    <3> QED
      BY <2>1, <3>1, <3>2, StartCollectStep, MapRegionStep, FinishStep, FailCollectStep
         DEF Collect
  <2> QED
    BY <2>1, SubmitStep, TakeStep, FetchRegionStep, LeaveWaitStep, JoinedStep, QuietStep
       DEF Next, Terminated
<1> QED
  BY <1>1, CInvInit, PTL DEF Spec

\* join stops waiting only when every collection that had been counted is
\* complete (ResultCollector.join).
THEOREM JoinSeesAllHolds == Spec => []JoinSeesAll
<1>1. CInv => JoinSeesAll
  BY DEF CInv, WaitIsOver, DoneIsCollected, JoinSeesAll, Submitted
<1> QED
  BY <1>1, CInvHolds, PTL

\* When the pool has been shut down each collection is complete or its error
\* was logged (ThreadPoolExecutor.shutdown, called by join).
THEOREM NothingLeftHolds == Spec => []NothingLeft
<1>1. CInv => NothingLeft
  BY DEF CInv, PoolIsEmpty, DoneIsCollected, NothingLeft, Submitted
<1> QED
  BY <1>1, CInvHolds, PTL
=============================================================================
