--------------------------- MODULE ExperimentProofs ---------------------------
(***************************************************************************)
(* For every list of cases and every reload_every, and with errors,        *)
(* interruptions, torn writes and dry runs wherever they may happen: the   *)
(* database is reloaded on time, nothing is executed on a database whose   *)
(* creation or loading did not end, and the progress file neither forgets  *)
(* what was done nor takes a failure it has seen for a success.            *)
(*                                                                         *)
(* The first two rest on the relation between the counter of the program   *)
(* and the executions since the last load, which holds at different values *)
(* before and after an execution is counted (Inv).  The others rest on the *)
(* relation between the file, its copy in memory and the case at hand,     *)
(* which save() breaks and restores (RInv).                                *)
(***************************************************************************)
EXTENDS Experiment, SequenceTheorems, TLAPS

\* The types the counter needs.
CounterTypes ==
  /\ reload_counter \in Int /\ since_load \in Nat
  /\ fresh \in BOOLEAN /\ args \in [skip : BOOLEAN, dry : BOOLEAN]

\* A start that loads the database, at work.
Loading == pc # "down" /\ ~args.skip

\* Before the first load of a start, and after an error, a load is due.
FreshIsDue ==
  Loading /\ fresh => reload_counter = 0 /\ pc \notin {"execute", "finish"}

\* After a load the counter has what is left of reload_every, one more between
\* an execution and its being counted.
CounterIsLeft ==
  Loading /\ ~fresh =>
    reload_counter + since_load = ReloadEvery + (IF pc = "finish" THEN 1 ELSE 0)

\* A load is decided on when the counter is 0, and is followed by an execution.
LoadWhenDue ==
  /\ pc \in {"create", "load"} => ~args.skip /\ reload_counter = 0
  /\ Loading /\ ~fresh /\ pc # "execute" => since_load > 0

\* With reload_every given, what is left is not used up before an execution.
LeftIsEnough ==
  Loading /\ ~fresh /\ ReloadEvery > 0 =>
    reload_counter >= (IF pc \in {"execute", "finish"} THEN 1 ELSE 0)

\* After a load that returned the database stays as it is until it is created
\* again.
StaysLoaded ==
  Loading /\ ~fresh /\ ~args.dry /\ pc # "load" => db \in {"loaded", "spoiled"}

Inv ==
  /\ CounterTypes /\ FreshIsDue /\ CounterIsLeft /\ LoadWhenDue
  /\ LeftIsEnough /\ StaysLoaded

\* The invariant holds while the program is down.
LEMMA InitInv == Init => Inv
BY DEF Init, Inv, CounterTypes, FreshIsDue, CounterIsLeft, LoadWhenDue, LeftIsEnough,
       StaysLoaded, Loading

\* Every step keeps the invariant.
LEMMA NextInv == Inv /\ [Next]_vars => Inv'
<1> SUFFICES ASSUME Inv, [Next]_vars PROVE Inv'
  OBVIOUS
<1> USE ReloadEveryAssumption
    DEF Inv, CounterTypes, FreshIsDue, CounterIsLeft, LoadWhenDue, LeftIsEnough,
        StaysLoaded, Loading, history, budget
<1>1. ASSUME NEW new \in BOOLEAN, NEW skip \in BOOLEAN, NEW dry \in BOOLEAN,
             Start(new, skip, dry)
      PROVE  Inv'
  BY <1>1 DEF Start, FirstCounter
<1>2. CASE NextCase
  <2>1. pc = "next" /\ pc' \in {"next", "decide", "insert"}
    BY <1>2 DEF NextCase, BeginSave
  <2>2. UNCHANGED <<reload_counter, since_load, fresh, args, db>>
    BY <1>2 DEF NextCase
  <2> QED
    BY <2>1, <2>2
<1>3. CASE SaveInserted
  BY <1>3 DEF SaveInserted
<1>4. CASE Refuse
  BY <1>4 DEF Refuse
<1>5. CASE Decide
  BY <1>5 DEF Decide, ReloadDue
<1>6. CASE Create
  <2>1. pc = "create" /\ pc' = "load" /\ UNCHANGED <<reload_counter, since_load, fresh, args>>
    BY <1>6 DEF Create
  <2> QED
    BY <2>1
<1>7. CASE Load
  <2>1. pc' = "execute" /\ reload_counter' = ReloadEvery /\ since_load' = 0 /\ fresh' = FALSE
    BY <1>7 DEF Load
  <2>2. args' = args /\ (~args.dry => db' \in {"loaded", "spoiled"})
    BY <1>7 DEF Load
  <2>3. fresh' \in BOOLEAN
    BY <2>1, Zenon
  <2>4. CounterTypes'
    BY <2>1, <2>2, <2>3
  <2>5. FreshIsDue'
    BY <2>1, Zenon
  <2>6. CounterIsLeft'
    BY <2>1, <2>2
  <2>7. LoadWhenDue' /\ LeftIsEnough'
    BY <2>1, <2>2
  <2>8. StaysLoaded'
    BY <2>1, <2>2
  <2> QED
    BY <2>4, <2>5, <2>6, <2>7, <2>8
<1>8. CASE Execute
  BY <1>8 DEF Execute
<1>9. CASE Done
  BY <1>9 DEF Done, Counted, BeginSave
<1>10. CASE Fail
  BY <1>10 DEF Fail, BeginSave, BrokenOff
<1>11. CASE SaveResult
  BY <1>11 DEF SaveResult
<1>12. CASE EndLoop
  BY <1>12 DEF EndLoop
<1>13. CASE Exit
  BY <1>13 DEF Exit
<1>14. CASE Interrupt
  BY <1>14 DEF Interrupt
<1>15. CASE UNCHANGED vars
  BY <1>15 DEF vars
<1> QED
  BY <1>1, <1>2, <1>3, <1>4, <1>5, <1>6, <1>7, <1>8, <1>9, <1>10, <1>11, <1>12, <1>13,
     <1>14, <1>15 DEF Next

----------------------------------------------------------------------------
\* The invariant holds throughout.
THEOREM InvHolds == Spec => []Inv
<1> QED
  BY InitInv, NextInv, PTL DEF Spec

\* The database is reloaded neither late nor early.
THEOREM ReloadOnTimeHolds == Spec => []ReloadOnTime
<1>1. Inv => ReloadOnTime
  <2> SUFFICES ASSUME Inv PROVE ReloadOnTime
    OBVIOUS
  <2> USE ReloadEveryAssumption
      DEF Inv, CounterTypes, FreshIsDue, CounterIsLeft, LoadWhenDue, LeftIsEnough, Loading
  <2>1. ASSUME pc = "execute", ~args.skip, ReloadEvery > 0
        PROVE  since_load < ReloadEvery
    <3>1. ~fresh /\ reload_counter >= 1 /\ reload_counter + since_load = ReloadEvery
      BY <2>1
    <3> QED
      BY <3>1
  <2>2. ASSUME pc = "create", ~fresh
        PROVE  ReloadEvery > 0 /\ since_load = ReloadEvery
    <3>1. since_load > 0 /\ reload_counter = 0 /\ reload_counter + since_load = ReloadEvery
      BY <2>2
    <3> QED
      BY <3>1
  <2> QED
    BY <2>1, <2>2 DEF ReloadOnTime
<1> QED
  BY <1>1, InvHolds, PTL

\* Nothing is executed after a create or a load that raised or was interrupted
\* before both have returned (experiment.py main, reload_counter).
THEOREM ExecutesOnLoadedHolds == Spec => []ExecutesOnLoaded
<1>1. Inv => ExecutesOnLoaded
  BY DEF Inv, CounterTypes, FreshIsDue, StaysLoaded, Loading, ExecutesOnLoaded
<1> QED
  BY <1>1, InvHolds, PTL

----------------------------------------------------------------------------
(* The progress file.  What it holds follows what memory holds, except     *)
(* inside a save() and, after --new, until the first one.                  *)

RecordTypes ==
  /\ disk \in Seq(Record) /\ progress \in Seq(Record)
  /\ pc \in Working \cup {"down", "next", "insert", "save", "join"}
  /\ pos \in Nat \ {0}
  /\ last \in [Metadata -> Outcome]

\* No two records share their metadata.
Distinct(records) ==
  \A i, j \in DOMAIN records : records[i].meta = records[j].meta => i = j

\* The last execution of every record that is done returned.
HaveRun(records) ==
  \A k \in DOMAIN records :
    records[k].status = "done" => last[records[k].meta] \in Returned

\* The file between two cases; --new leaves the old one alone at first.
FileFollows ==
  /\ pc = "next" => disk = progress \/ (progress = <<>> /\ saved = {})
  /\ pc = "decide" => disk = progress
  /\ pc \in Working => /\ SavedPoint
                       /\ disk[cur].meta = progress[cur].meta
                       /\ disk[cur].status = progress[cur].status

\* The case at hand is not done, and at "finish" its execution has
\* returned.
CaseAtHand ==
  /\ pc \in Working \cup {"insert"} => cur \in DOMAIN progress /\ progress[cur].status # "done"
  /\ pc = "finish" => last[progress[cur].meta] \in Returned

\* What was saved as done is done in the file, and inside a save() in memory.
SavedIsKept ==
  saved \subseteq DoneIn(IF pc \in {"insert", "save"} THEN progress ELSE disk)

RInv ==
  /\ RecordTypes /\ Distinct(disk) /\ Distinct(progress)
  /\ HaveRun(disk) /\ HaveRun(progress)
  /\ FileFollows /\ CaseAtHand /\ SavedIsKept

\* The metadata that are done in some records.
LEMMA DoneInMember ==
  ASSUME NEW records, NEW m
  PROVE  m \in DoneIn(records) <=>
           \E k \in DOMAIN records : records[k].status = "done" /\ records[k].meta = m
BY DEF DoneIn

\* Changing one record, and not its metadata, changes no other.
LEMMA RecordChanged ==
  ASSUME NEW s \in Seq(Record), NEW c \in DOMAIN s, NEW r \in Record, r.meta = s[c].meta,
         NEW t, t = [s EXCEPT ![c] = r]
  PROVE  /\ t \in Seq(Record) /\ DOMAIN t = DOMAIN s /\ t[c] = r
         /\ \A k \in DOMAIN s \ {c} : t[k] = s[k]
         /\ Distinct(s) => Distinct(t)
<1>1. c \in 1..Len(s) /\ DOMAIN s = 1..Len(s)
  BY LenProperties
<1>2. t \in Seq(Record) /\ Len(t) = Len(s)
  BY <1>1, ExceptSeq
<1>3. DOMAIN t = DOMAIN s /\ t[c] = r /\ \A k \in DOMAIN s \ {c} : t[k] = s[k]
  BY <1>1
<1>4. \A k \in DOMAIN s : t[k].meta = s[k].meta
  BY <1>3
<1> QED
  BY <1>2, <1>3, <1>4 DEF Distinct

\* A new record comes after the others.
LEMMA RecordAdded ==
  ASSUME NEW s \in Seq(Record), NEW r \in Record, NEW t, t = Append(s, r)
  PROVE  /\ t \in Seq(Record) /\ DOMAIN t = DOMAIN s \cup {Len(s) + 1}
         /\ t[Len(s) + 1] = r /\ \A k \in DOMAIN s : t[k] = s[k]
         /\ Distinct(s) /\ (\A k \in DOMAIN s : s[k].meta # r.meta) => Distinct(t)
<1>1. DOMAIN s = 1..Len(s) /\ Len(s) \in Nat
  BY LenProperties
<1>2. /\ t \in Seq(Record) /\ Len(t) = Len(s) + 1 /\ t[Len(s) + 1] = r
      /\ \A k \in 1..Len(s) : t[k] = s[k]
  BY AppendProperties
<1>3. DOMAIN t = 1..(Len(s) + 1)
  BY <1>2, LenProperties
<1>4. DOMAIN t = DOMAIN s \cup {Len(s) + 1}
  BY <1>1, <1>3
<1> QED
  BY <1>1, <1>2, <1>4 DEF Distinct

\* The rows that reached the file before an interruption.
LEMMA RecordsTorn ==
  ASSUME NEW s \in Seq(Record), NEW n \in 0..Len(s), NEW t, t = SubSeq(s, 1, n)
  PROVE  /\ t \in Seq(Record) /\ DOMAIN t \subseteq DOMAIN s
         /\ \A k \in DOMAIN t : t[k] = s[k]
<1>1. DOMAIN s = 1..Len(s) /\ Len(s) \in Nat
  BY LenProperties
<1>2. \A i \in 1..n : s[i] \in Record
  BY <1>1, ElementOfSeq
<1>3. /\ t \in Seq(Record) /\ Len(t) = IF 1 <= n THEN n - 1 + 1 ELSE 0
      /\ \A i \in 1..(n - 1 + 1) : t[i] = s[1 + i - 1]
  BY <1>2, SubSeqProperties
<1>4. Len(t) = n /\ \A i \in 1..n : t[i] = s[i]
  BY <1>3
<1>5. DOMAIN t = 1..n
  BY <1>3, <1>4, LenProperties
<1> QED
  BY <1>1, <1>3, <1>4, <1>5

\* An empty file keeps every promise about records.
LEMMA NoRecords == /\ <<>> \in Seq(Record) /\ Distinct(<<>>) /\ HaveRun(<<>>)
                   /\ DoneIn(<<>>) = {} /\ DOMAIN <<>> = {}
BY EmptySeq DEF Distinct, HaveRun, DoneIn

\* get_or_insert finds the one record with the case's metadata.
LEMMA FirstMatches ==
  ASSUME RInv, NEW m, Matching(m) # {}
  PROVE  First(Matching(m)) \in DOMAIN progress /\ progress[First(Matching(m))].meta = m
<1>1. DOMAIN progress = 1..Len(progress) /\ Len(progress) \in Nat
  BY LenProperties DEF RInv, RecordTypes
<1>2. PICK k \in Matching(m) : TRUE
  OBVIOUS
<1>3. \A j \in Matching(m) : j = k /\ k <= j
  BY <1>1, <1>2 DEF Matching, RInv, Distinct
<1>4. First(Matching(m)) \in Matching(m)
  BY <1>2, <1>3 DEF First
<1> QED
  BY <1>4 DEF Matching

\* The end of an execution is of no concern to the records of other cases.
LEMMA OthersEnded ==
  ASSUME RInv, pc \in Working, NEW outcome \in Outcome, Ended(outcome)
  PROVE  /\ last' \in [Metadata -> Outcome] /\ last'[progress[cur].meta] = outcome
         /\ cur \in DOMAIN progress /\ progress[cur].status # "done"
         /\ \A k \in DOMAIN progress \ {cur} :
              last'[progress[k].meta] = last[progress[k].meta]
<1>1. cur \in DOMAIN progress /\ progress[cur].status # "done" /\ progress \in Seq(Record)
  BY DEF RInv, RecordTypes, CaseAtHand
<1>2. \A k \in DOMAIN progress : progress[k].meta \in Metadata
  <2> SUFFICES ASSUME NEW k \in DOMAIN progress PROVE progress[k].meta \in Metadata
    OBVIOUS
  <2>1. progress[k] \in Record
    BY <1>1, LenProperties, ElementOfSeq
  <2> QED
    BY <2>1 DEF Record
<1>3. \A k \in DOMAIN progress \ {cur} : progress[k].meta # progress[cur].meta
  BY <1>1 DEF RInv, Distinct
<1> QED
  BY <1>1, <1>2, <1>3 DEF RInv, RecordTypes, Ended

\* Records that are left alone keep their promise when an execution ends, for
\* the case at hand is not done in memory and not in the file.
LEMMA StayRun ==
  ASSUME RInv, UNCHANGED <<disk, progress>>,
         \/ UNCHANGED last
         \/ pc \in Working /\ \E outcome \in Outcome : Ended(outcome)
  PROVE  last' \in [Metadata -> Outcome] /\ HaveRun(disk)' /\ HaveRun(progress)'
<1>1. CASE UNCHANGED last
  BY <1>1 DEF RInv, RecordTypes, HaveRun
<1>2. CASE pc \in Working /\ \E outcome \in Outcome : Ended(outcome)
  <2>1. PICK outcome \in Outcome : Ended(outcome)
    BY <1>2
  <2>2. /\ last' \in [Metadata -> Outcome]
        /\ cur \in DOMAIN progress /\ progress[cur].status # "done"
        /\ \A k \in DOMAIN progress \ {cur} :
             last'[progress[k].meta] = last[progress[k].meta]
    BY <1>2, <2>1, OthersEnded
  <2>3. HaveRun(progress)'
    BY <2>2 DEF RInv, HaveRun
  <2>4. DOMAIN disk = DOMAIN progress /\ disk[cur].status = progress[cur].status
        /\ \A k \in DOMAIN disk \ {cur} : disk[k] = progress[k]
    BY <1>2 DEF RInv, FileFollows, SavedPoint
  <2>5. HaveRun(disk)'
    BY <2>2, <2>4 DEF RInv, HaveRun
  <2> QED
    BY <2>2, <2>3, <2>5
<1> QED
  BY <1>1, <1>2

\* A step between two points at which the file is not written.
LEMMA MovesOn ==
  ASSUME RInv, UNCHANGED <<disk, progress, saved, cur>>, pos' \in Nat \ {0},
         \/ UNCHANGED last
         \/ pc \in Working /\ \E outcome \in Outcome : Ended(outcome),
         pc \notin {"insert", "save"},
         pc' \in Working \cup {"down", "next", "join"},
         pc' = "next" => pc = "next",
         pc' \in Working => pc \in Working,
         pc' = "decide" => pc = "decide",
         pc' = "finish" => last'[progress[cur].meta] \in Returned
  PROVE  RInv'
<1>0. last' \in [Metadata -> Outcome] /\ HaveRun(disk)' /\ HaveRun(progress)'
  BY StayRun
<1>1. RecordTypes'
  BY <1>0 DEF RInv, RecordTypes
<1>2. Distinct(disk)' /\ Distinct(progress)'
  BY DEF RInv, Distinct
<1>3. FileFollows'
  BY DEF RInv, FileFollows, SavedPoint
<1>4. CaseAtHand'
  BY DEF RInv, CaseAtHand
<1>5. SavedIsKept'
  BY DEF RInv, SavedIsKept, Working, DoneIn
<1> QED
  BY <1>0, <1>1, <1>2, <1>3, <1>4, <1>5 DEF RInv

\* A finished save() writes what is in memory.
LEMMA Saves ==
  ASSUME RInv, pc \in {"insert", "save"}, EndSave,
         UNCHANGED <<progress, cur, last>>, pos' \in Nat \ {0},
         \/ pc' = "next"
         \/ pc' = "decide" /\ pc = "insert"
  PROVE  RInv'
<1>0. disk' = progress /\ saved' = saved \cup DoneIn(progress) /\ saved \subseteq DoneIn(progress)
  BY DEF EndSave, RInv, SavedIsKept
<1>1. RecordTypes'
  BY <1>0 DEF RInv, RecordTypes, Working
<1>2. Distinct(disk)' /\ Distinct(progress)' /\ HaveRun(disk)' /\ HaveRun(progress)'
  BY <1>0 DEF RInv, Distinct, HaveRun
<1>3. FileFollows'
  BY <1>0 DEF RInv, FileFollows, SavedPoint, CaseAtHand, Working
<1>4. CaseAtHand'
  BY DEF RInv, CaseAtHand, Working
<1>5. SavedIsKept'
  BY <1>0 DEF SavedIsKept, DoneIn
<1> QED
  BY <1>1, <1>2, <1>3, <1>4, <1>5 DEF RInv

\* A save() that begins empties the file; what was saved is still in memory.
LEMMA SaveBegins ==
  ASSUME RInv, NEW at \in {"insert", "save"}, BeginSave(at),
         progress' \in Seq(Record), Distinct(progress)', HaveRun(progress)',
         last' \in [Metadata -> Outcome], UNCHANGED <<pos, saved>>,
         saved \subseteq DoneIn(progress'),
         at = "insert" => cur' \in DOMAIN progress' /\ progress'[cur'].status # "done"
  PROVE  RInv'
<1>0. disk' = <<>> /\ pc' = at /\ pc' \notin Working
  BY DEF BeginSave, Working
<1>1. RecordTypes'
  BY <1>0, NoRecords DEF RInv, RecordTypes
<1>2. Distinct(disk)' /\ HaveRun(disk)'
  BY <1>0, NoRecords DEF Distinct, HaveRun
<1>3. FileFollows' /\ CaseAtHand'
  BY <1>0 DEF FileFollows, CaseAtHand, Working
<1>4. SavedIsKept'
  BY <1>0 DEF SavedIsKept, DoneIn
<1> QED
  BY <1>1, <1>2, <1>3, <1>4 DEF RInv

\* The record of the case at hand changes, and the metadata saved as done, which
\* belong to other records, stay done in memory.
LEMMA SavedElsewhere ==
  ASSUME RInv, pc \in Working, NEW r \in Record, r.meta = progress[cur].meta,
         progress' = [progress EXCEPT ![cur] = r]
  PROVE  /\ progress' \in Seq(Record) /\ Distinct(progress)'
         /\ DOMAIN progress' = DOMAIN progress /\ cur \in DOMAIN progress /\ progress'[cur] = r
         /\ \A k \in DOMAIN progress \ {cur} : progress'[k] = progress[k]
         /\ saved \subseteq DoneIn(progress')
<1>1. progress \in Seq(Record) /\ cur \in DOMAIN progress /\ Distinct(progress)
  BY DEF RInv, RecordTypes, CaseAtHand
<1>2. /\ progress' \in Seq(Record) /\ DOMAIN progress' = DOMAIN progress /\ progress'[cur] = r
      /\ \A k \in DOMAIN progress \ {cur} : progress'[k] = progress[k]
  BY <1>1, RecordChanged
<1>3. Distinct(progress)'
  <2>1. Distinct(progress')
    BY <1>1, RecordChanged
  <2> QED
    BY <2>1 DEF Distinct
<1>4. ASSUME NEW m \in saved
      PROVE  m \in DoneIn(progress')
  <2>1. pc \notin {"insert", "save"}
    BY DEF Working
  <2>2. PICK k \in DOMAIN disk : disk[k].status = "done" /\ disk[k].meta = m
    BY <1>4, <2>1, DoneInMember DEF RInv, SavedIsKept
  <2>3. k # cur /\ disk[k] = progress[k] /\ DOMAIN disk = DOMAIN progress
    BY <2>2 DEF RInv, FileFollows, SavedPoint, CaseAtHand
  <2>4. k \in DOMAIN progress' /\ progress'[k].status = "done" /\ progress'[k].meta = m
    BY <1>2, <2>2, <2>3
  <2> QED
    BY <2>4, DoneInMember
<1> QED
  BY <1>1, <1>2, <1>3, <1>4

\* Every step keeps the invariant of the progress file.
LEMMA NextRInv == RInv /\ [Next]_vars => RInv'
<1> SUFFICES ASSUME RInv, [Next]_vars PROVE RInv'
  OBVIOUS
<1>0. /\ disk \in Seq(Record) /\ progress \in Seq(Record) /\ pos \in Nat \ {0}
      /\ DOMAIN progress = 1..Len(progress) /\ Len(progress) \in Nat
      /\ pos' = pos => pos' \in Nat \ {0}
      /\ last \in [Metadata -> Outcome]
  BY LenProperties DEF RInv, RecordTypes
<1>1. ASSUME NEW new \in BOOLEAN, NEW skip \in BOOLEAN, NEW dry \in BOOLEAN,
             Start(new, skip, dry)
      PROVE  RInv'
  <2>1. /\ pc = "down" /\ pc' = "next" /\ pos' = 1 /\ UNCHANGED <<disk, last>>
        /\ \/ progress' = disk /\ saved' = saved
           \/ progress' = <<>> /\ saved' = {}
    BY <1>1 DEF Start
  <2>2. RecordTypes'
    <3>1. disk' \in Seq(Record) /\ progress' \in Seq(Record) /\ pos' \in Nat \ {0}
      <4>1. disk' \in Seq(Record) /\ pos' \in Nat \ {0}
        BY <1>0, <2>1
      <4>2. progress' \in Seq(Record)
        BY <1>0, <2>1, NoRecords, Zenon
      <4> QED
        BY <4>1, <4>2
    <3> QED
      BY <1>0, <2>1, <3>1 DEF RecordTypes
  <2>3. Distinct(disk)' /\ Distinct(progress)' /\ HaveRun(disk)' /\ HaveRun(progress)'
    <3>1. CASE progress' = disk
      BY <2>1, <3>1 DEF RInv, Distinct, HaveRun
    <3>2. CASE progress' = <<>>
      BY <2>1, <3>2, NoRecords DEF RInv, Distinct, HaveRun
    <3> QED
      BY <2>1, <3>1, <3>2
  <2>4. FileFollows' /\ CaseAtHand'
    BY <2>1 DEF FileFollows, CaseAtHand, Working
  <2>5. SavedIsKept'
    BY <2>1 DEF RInv, SavedIsKept, DoneIn
  <2> QED
    BY <2>2, <2>3, <2>4, <2>5 DEF RInv
<1>2. CASE NextCase
  <2> DEFINE m == Cases[pos]
  <2>1. pc = "next" /\ pos <= Len(Cases) /\ UNCHANGED <<last, saved>>
    BY <1>2 DEF NextCase, history
  <2>2. m \in Metadata
    BY <1>0, <2>1, CasesAssumption, ElementOfSeq
  <2>3. CASE Matching(m) # {}
    <3> DEFINE k == First(Matching(m))
    <3>1. k \in DOMAIN progress /\ UNCHANGED <<disk, progress>>
      BY <1>2, <2>3, FirstMatches DEF NextCase
    <3>2. CASE Skip(k)
      <4>1. pos' = pos + 1 /\ UNCHANGED <<pc, cur>>
        BY <1>2, <2>3, <3>2 DEF NextCase
      <4>2. pos' \in Nat \ {0}
        BY <1>0, <4>1
      <4> QED
        BY <2>1, <3>1, <4>1, <4>2, MovesOn
    <3>3. CASE ~Skip(k)
      <4>1. pc' = "decide" /\ cur' = k /\ UNCHANGED pos
        BY <1>2, <2>3, <3>3 DEF NextCase
      <4> HIDE DEF k
      <4>2. disk = progress
        BY <2>1, <3>1, NoRecords DEF RInv, FileFollows
      <4>3. RecordTypes'
        BY <1>0, <2>1, <3>1, <4>1 DEF RecordTypes, Working
      <4>4. Distinct(disk)' /\ Distinct(progress)' /\ HaveRun(disk)' /\ HaveRun(progress)'
        BY <2>1, <3>1 DEF RInv, Distinct, HaveRun
      <4>5. CaseAtHand'
        BY <3>1, <3>3, <4>1 DEF CaseAtHand, Skip
      <4>6. FileFollows'
        BY <3>1, <4>1, <4>2 DEF FileFollows, SavedPoint
      <4>7. SavedIsKept'
        BY <2>1, <3>1, <4>1 DEF RInv, SavedIsKept, DoneIn
      <4> QED
        BY <4>3, <4>4, <4>5, <4>6, <4>7 DEF RInv
    <3> QED
      BY <3>2, <3>3
  <2>4. CASE Matching(m) = {}
    <3> DEFINE r == [meta |-> m, status |-> "pending", reloaded |-> FALSE]
    <3>1. /\ progress' = Append(progress, r) /\ BeginSave("insert") /\ UNCHANGED pos
          /\ cur' = Len(progress) + 1
      BY <1>2, <2>4 DEF NextCase
    <3>2. r \in Record /\ r.meta = m /\ r.status = "pending"
      BY <2>2 DEF Record, Status
    <3>3. \A k \in DOMAIN progress : progress[k].meta # m
      BY <2>4 DEF Matching
    <3> HIDE DEF r, m
    <3>4. /\ progress' \in Seq(Record) /\ Distinct(progress')
          /\ DOMAIN progress' = DOMAIN progress \cup {Len(progress) + 1}
          /\ progress'[Len(progress) + 1] = r
          /\ \A k \in DOMAIN progress : progress'[k] = progress[k]
      <4>1. Distinct(progress) /\ \A k \in DOMAIN progress : progress[k].meta # r.meta
        BY <3>2, <3>3 DEF RInv
      <4>2. progress' = Append(progress, r) /\ progress \in Seq(Record) /\ r \in Record
        BY <1>0, <3>1, <3>2
      <4>3. /\ progress' \in Seq(Record)
            /\ DOMAIN progress' = DOMAIN progress \cup {Len(progress) + 1}
            /\ progress'[Len(progress) + 1] = r
            /\ \A k \in DOMAIN progress : progress'[k] = progress[k]
        BY <4>2, RecordAdded
      <4>4. Distinct(progress')
        BY <4>1, <4>2, RecordAdded
      <4> QED
        BY <4>3, <4>4
    <3>5. Distinct(progress)'
      BY <3>4 DEF Distinct
    <3>6. HaveRun(progress)'
      BY <2>1, <3>2, <3>4 DEF RInv, HaveRun
    <3>7. saved \subseteq DoneIn(progress')
      <4>1. saved \subseteq DoneIn(progress)
        BY <2>1 DEF RInv, FileFollows, SavedIsKept
      <4>2. DoneIn(progress) \subseteq DoneIn(progress')
        BY <3>4, DoneInMember
      <4> QED
        BY <4>1, <4>2
    <3>8. cur' \in DOMAIN progress' /\ progress'[cur'].status # "done"
      BY <3>1, <3>2, <3>4
    <3> QED
      BY <1>0, <2>1, <3>1, <3>4, <3>5, <3>6, <3>7, <3>8, SaveBegins
  <2> QED
    BY <2>3, <2>4
<1>3. CASE SaveInserted
  BY <1>0, <1>3, Saves DEF SaveInserted
<1>4. CASE Refuse
  BY <1>0, <1>4, MovesOn DEF Refuse, history, Working
<1>5. CASE Decide
  BY <1>0, <1>5, MovesOn DEF Decide, history, Working
<1>6. CASE Create
  BY <1>0, <1>6, MovesOn DEF Create, history, Working
<1>7. CASE Load
  <2> DEFINE r == [progress[cur] EXCEPT !.reloaded = TRUE]
  <2>1. /\ pc = "load" /\ pc' = "execute" /\ UNCHANGED <<disk, pos, cur, last, saved>>
        /\ progress' = [progress EXCEPT ![cur] = r] /\ pc \in Working /\ pc' \in Working
    BY <1>7 DEF Load, Working
  <2>2. cur \in DOMAIN progress /\ progress[cur] \in Record
    BY <1>0, <2>1, ElementOfSeq DEF RInv, CaseAtHand
  <2>3. r \in Record /\ r.meta = progress[cur].meta /\ r.status = progress[cur].status
    BY <2>2 DEF Record
  <2> HIDE DEF r
  <2>4. /\ progress' \in Seq(Record) /\ Distinct(progress)'
        /\ DOMAIN progress' = DOMAIN progress /\ progress'[cur] = r
        /\ \A k \in DOMAIN progress \ {cur} : progress'[k] = progress[k]
    BY <2>1, <2>3, SavedElsewhere
  <2>5. RecordTypes'
    BY <1>0, <2>1, <2>4 DEF RecordTypes
  <2>6. Distinct(disk)' /\ HaveRun(disk)' /\ HaveRun(progress)'
    BY <2>1, <2>3, <2>4 DEF RInv, Distinct, HaveRun
  <2>7. FileFollows'
    BY <2>1, <2>3, <2>4 DEF RInv, FileFollows, SavedPoint
  <2>8. CaseAtHand'
    BY <2>1, <2>3, <2>4 DEF RInv, CaseAtHand
  <2>9. SavedIsKept'
    BY <2>1 DEF RInv, SavedIsKept, DoneIn
  <2> QED
    BY <2>4, <2>5, <2>6, <2>7, <2>8, <2>9 DEF RInv
<1>8. CASE Execute
  <2>1. /\ pc = "execute" /\ pc' = "finish" /\ pc \in Working /\ pc' \in Working
        /\ UNCHANGED <<disk, progress, saved, cur, pos>>
    BY <1>8 DEF Execute, Working
  <2>2. PICK outcome \in Returned : Ended(outcome)
    BY <1>8 DEF Execute, Returned
  <2>3. outcome \in Outcome
    BY <2>2 DEF Outcome
  <2>4. last'[progress[cur].meta] \in Returned
    BY <2>1, <2>2, <2>3, OthersEnded
  <2> QED
    BY <1>0, <2>1, <2>2, <2>3, <2>4, MovesOn
<1>9. CASE Done
  <2> DEFINE r == [progress[cur] EXCEPT !.status = "done"]
  <2>1. /\ pc = "finish" /\ BeginSave("save") /\ UNCHANGED <<pos, cur, last, saved>>
        /\ progress' = [progress EXCEPT ![cur] = r] /\ pc \in Working
    BY <1>9 DEF Done, Working, history
  <2>2. cur \in DOMAIN progress /\ progress[cur] \in Record
    BY <1>0, <2>1, ElementOfSeq DEF RInv, CaseAtHand
  <2>3. r \in Record /\ r.meta = progress[cur].meta
    BY <2>2 DEF Record, Status
  <2> HIDE DEF r
  <2>4. /\ progress' \in Seq(Record) /\ Distinct(progress)'
        /\ DOMAIN progress' = DOMAIN progress /\ progress'[cur] = r
        /\ \A k \in DOMAIN progress \ {cur} : progress'[k] = progress[k]
        /\ saved \subseteq DoneIn(progress')
    BY <2>1, <2>3, SavedElsewhere
  <2>5. HaveRun(progress)'
    BY <2>1, <2>3, <2>4 DEF RInv, HaveRun, CaseAtHand
  <2> QED
    BY <1>0, <2>1, <2>4, <2>5, SaveBegins
<1>10. CASE Fail
  <2> DEFINE r == [progress[cur] EXCEPT !.status = "error"]
  <2>1. /\ BeginSave("save") /\ UNCHANGED <<pos, cur, saved>>
        /\ progress' = [progress EXCEPT ![cur] = r] /\ pc \in Working
    BY <1>10 DEF Fail, Working, Failure
  <2>2. cur \in DOMAIN progress /\ progress[cur] \in Record
    BY <1>0, <2>1, ElementOfSeq DEF RInv, CaseAtHand
  <2>3. r \in Record /\ r.meta = progress[cur].meta /\ r.status = "error"
    BY <2>2 DEF Record, Status
  <2> HIDE DEF r
  <2>4. /\ progress' \in Seq(Record) /\ Distinct(progress)'
        /\ DOMAIN progress' = DOMAIN progress /\ progress'[cur] = r
        /\ \A k \in DOMAIN progress \ {cur} : progress'[k] = progress[k]
        /\ saved \subseteq DoneIn(progress')
    BY <2>1, <2>3, SavedElsewhere
  <2>5. /\ last' \in [Metadata -> Outcome]
        /\ \A k \in DOMAIN progress \ {cur} :
             last'[progress[k].meta] = last[progress[k].meta]
    <3>1. CASE pc = "execute"
      <4>1. "failed" \in Outcome /\ Ended("failed")
        BY <1>10, <3>1 DEF Fail, Outcome
      <4> QED
        BY <2>1, <4>1, OthersEnded
    <3>2. CASE pc # "execute"
      BY <1>0, <1>10, <3>2 DEF Fail
    <3> QED
      BY <3>1, <3>2
  <2>6. HaveRun(progress)'
    BY <2>3, <2>4, <2>5 DEF RInv, HaveRun
  <2> QED
    BY <2>1, <2>4, <2>5, <2>6, SaveBegins
<1>11. CASE SaveResult
  <2>1. pos' \in Nat \ {0}
    BY <1>0, <1>11 DEF SaveResult
  <2> QED
    BY <1>11, <2>1, Saves DEF SaveResult
<1>12. CASE EndLoop
  BY <1>0, <1>12, MovesOn DEF EndLoop, history, Working
<1>13. CASE Exit
  BY <1>0, <1>13, MovesOn DEF Exit, history, Working
<1>14. CASE Interrupt
  <2>1. /\ pc # "down" /\ pc' = "down" /\ UNCHANGED <<progress, pos, cur>>
        /\ pc # "execute" => UNCHANGED last
        /\ pc = "execute" => Ended("failed")
    BY <1>14 DEF Interrupt
  <2>2. CASE pc \in {"insert", "save"}
    <3>1. PICK n \in 0..Len(progress) :
            disk' = SubSeq(progress, 1, n) /\ saved' = saved \cap DoneIn(disk')
      BY <1>14, <2>2 DEF Interrupt
    <3>2. /\ disk' \in Seq(Record) /\ DOMAIN disk' \subseteq DOMAIN progress
          /\ \A k \in DOMAIN disk' : disk'[k] = progress[k]
      BY <1>0, <3>1, RecordsTorn
    <3>3. RecordTypes'
      BY <1>0, <2>1, <2>2, <3>2 DEF RecordTypes
    <3>4. Distinct(disk)' /\ Distinct(progress)' /\ HaveRun(disk)' /\ HaveRun(progress)'
      BY <2>1, <2>2, <3>2 DEF RInv, Distinct, HaveRun
    <3>5. FileFollows' /\ CaseAtHand'
      BY <2>1 DEF FileFollows, CaseAtHand, Working
    <3>6. SavedIsKept'
      BY <2>1, <3>1 DEF SavedIsKept, DoneIn
    <3> QED
      BY <3>3, <3>4, <3>5, <3>6 DEF RInv
  <2>3. CASE pc \notin {"insert", "save"}
    <3>1. UNCHANGED <<disk, saved>>
      BY <1>14, <2>3 DEF Interrupt
    <3>2. \/ UNCHANGED last
          \/ pc \in Working /\ \E outcome \in Outcome : Ended(outcome)
      BY <2>1 DEF Working, Outcome
    <3> QED
      BY <1>0, <2>1, <2>3, <3>1, <3>2, MovesOn DEF Working
  <2> QED
    BY <2>2, <2>3
<1>15. CASE UNCHANGED vars
  BY <1>15 DEF vars, RInv, RecordTypes, Distinct, HaveRun, FileFollows, SavedPoint, CaseAtHand,
     SavedIsKept, DoneIn
<1> QED
  BY <1>1, <1>2, <1>3, <1>4, <1>5, <1>6, <1>7, <1>8, <1>9, <1>10, <1>11, <1>12, <1>13,
     <1>14, <1>15 DEF Next

\* The invariant of the progress file holds throughout.
THEOREM RInvHolds == Spec => []RInv
<1>1. Init => RInv
  <2> SUFFICES ASSUME Init PROVE RInv
    OBVIOUS
  <2>1. disk = <<>> /\ progress = <<>> /\ pc = "down" /\ pos = 1 /\ saved = {}
        /\ last \in [Metadata -> Outcome]
    BY DEF Init, Outcome
  <2> QED
    BY <2>1, NoRecords DEF RInv, RecordTypes, FileFollows, CaseAtHand, SavedIsKept, Working
<1> QED
  BY <1>1, NextRInv, PTL DEF Spec

\* While a case runs, the file holds what memory holds but for that case: the
\* point from which an interrupted experiment resumes (experiment.py Progress).
THEOREM SavedPointHolds == Spec => []SavedPoint
<1>1. RInv => SavedPoint
  BY DEF RInv, FileFollows, SavedPoint
<1> QED
  BY <1>1, RInvHolds, PTL

\* A record says "done" only when the last execution of its metadata returned,
\* never of one that raised or was interrupted (experiment.py main).
THEOREM DoneHasReturnedHolds == Spec => []DoneHasReturned
<1>1. RInv => DoneHasReturned
  BY DEF RInv, HaveRun, DoneHasReturned
<1> QED
  BY <1>1, RInvHolds, PTL

\* A case that a finished save() recorded as done is not run again, whatever
\* interrupts the program, unless the user asks for it or save() itself is cut
\* short (experiment.py get_or_insert and save).
THEOREM SavedDoneIsSkippedHolds == Spec => []SavedDoneIsSkipped
<1>1. RInv => SavedDoneIsSkipped
  <2> SUFFICES ASSUME RInv, pc \in Working, progress[cur].meta \in saved PROVE FALSE
    BY DEF SavedDoneIsSkipped
  <2>1. pc \notin {"insert", "save"}
    BY DEF Working
  <2>2. PICK k \in DOMAIN disk : disk[k].status = "done" /\ disk[k].meta = progress[cur].meta
    BY <2>1, DoneInMember DEF RInv, SavedIsKept
  <2>3. cur \in DOMAIN progress /\ k \in DOMAIN progress /\ progress[k].meta = progress[cur].meta
    BY <2>2 DEF RInv, FileFollows, SavedPoint
  <2>4. k = cur
    BY <2>3 DEF RInv, Distinct
  <2> QED
    BY <2>2, <2>4 DEF RInv, FileFollows, CaseAtHand
<1> QED
  BY <1>1, RInvHolds, PTL
=============================================================================
